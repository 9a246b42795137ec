-------------------------- MODULE MpscMemory_proofs --------------------------
(***************************************************************************)
(* Proofs about mpsc_ring_queue over weak memory, for every set of          *)
(* producers, every number of pushes and every Capacity >= 2: the acquire   *)
(* and release accesses of the sequences order all accesses to the storage, *)
(* and stale loads do not show: the queue implements ReservationFifo.       *)
(***************************************************************************)
EXTENDS MpscMemory, SharedLemmas

Readers == Producers \cup {Consumer}

-----------------------------------------------------------------------------
(* Locations and positions. *)

LEMMA LocationsOf ==
    ASSUME NEW n \in Nat
    PROVE  /\ write_index \in Locations
           /\ sequence(n) \in Locations /\ storage(n) \in Locations
           /\ sequence(n) # write_index /\ storage(n) # write_index
           /\ sequence(n) # storage(n)
           /\ Contents(write_index) = Nat /\ Contents(sequence(n)) = Nat
           /\ Contents(storage(n)) = Values \cup {Raw}
  <1>1. SlotOf(n) \in Cells
    BY CapacityAssumption, DivMod DEF SlotOf, Cells
  <1> QED
    BY <1>1 DEF write_index, sequence, storage, Locations, Contents

\* Two positions share both locations of their cell or none.
LEMMA SameLocations ==
    ASSUME NEW m \in Nat, NEW n \in Nat
    PROVE  /\ sequence(m) = sequence(n) <=> SlotOf(m) = SlotOf(n)
           /\ storage(m) = storage(n) <=> SlotOf(m) = SlotOf(n)
           /\ sequence(m) # storage(n)
  BY DEF sequence, storage

LEMMA FreeAtIs ==
    ASSUME NEW n \in Nat
    PROVE  FreeAt(n) \in Nat /\ FreeAt(n) >= 1
  BY CapacityAssumption, DivMod DEF FreeAt

\* A round adds two messages to a cell.
LEMMA FreeInNextRound ==
    ASSUME NEW n \in Nat
    PROVE  /\ sequence(n + Capacity) = sequence(n)
           /\ storage(n + Capacity) = storage(n)
           /\ FreeAt(n + Capacity) = FreeAt(n) + 2
  <1>1. n \div Capacity \in Nat
    BY CapacityAssumption, DivMod
  <1>2. /\ (n + Capacity) \div Capacity = (n \div Capacity) + 1
        /\ (n + Capacity) % Capacity = n % Capacity
    BY CapacityAssumption, NextRound
  <1> QED
    BY <1>1, <1>2 DEF FreeAt, sequence, storage, SlotOf

\* The messages of a cell belong to one position each.
LEMMA MessageOfPosition ==
    ASSUME NEW m \in Nat, NEW n \in Nat, sequence(m) = sequence(n)
    PROVE  /\ FreeAt(m) = FreeAt(n) <=> m = n
           /\ m < n <=> FreeAt(m) < FreeAt(n)
           /\ m < n <=> FreeAt(m) + 2 <= FreeAt(n)
           /\ FreeAt(m) # FreeAt(n) + 1
  <1>1. m % Capacity = n % Capacity
    BY SameLocations DEF SlotOf
  <1>2. m \div Capacity \in Nat /\ n \div Capacity \in Nat
    BY CapacityAssumption, DivMod
  <1>3. /\ m < n <=> m \div Capacity < n \div Capacity
        /\ m = n <=> m \div Capacity = n \div Capacity
    BY <1>1, CapacityAssumption, LaterRound
  <1> QED
    BY <1>2, <1>3 DEF FreeAt

LEMMA EveryMessage ==
    ASSUME NEW n \in Nat, NEW i \in Nat \ {0}
    PROVE  \E m \in Nat : /\ sequence(m) = sequence(n)
                          /\ i = FreeAt(m) \/ i = FreeAt(m) + 1
  <1> DEFINE k == (i - 1) \div 2
  <1>1. k \in Nat /\ (i = 2 * k + 1 \/ i = 2 * k + 2)
    OBVIOUS
  <1>2. n % Capacity \in 0 .. Capacity - 1
    BY CapacityAssumption, DivMod
  <1> HIDE DEF k
  <1>3. PICK m \in Nat : m % Capacity = n % Capacity /\ m \div Capacity = k
    BY <1>1, <1>2, CapacityAssumption, PositionInRound
  <1>4. sequence(m) = sequence(n)
    BY <1>3 DEF sequence, SlotOf
  <1> QED
    BY <1>1, <1>3, <1>4 DEF FreeAt

\* The positions of the window are in different cells.
LEMMA WindowDiffers ==
    ASSUME read \in Nat, NEW m \in Window, NEW n \in Window, m # n
    PROVE  sequence(m) # sequence(n) /\ storage(m) # storage(n)
  <1>1. m \in Nat /\ n \in Nat /\ m < n + Capacity /\ n < m + Capacity
    BY CapacityAssumption DEF Window
  <1>2. m % Capacity # n % Capacity
    <2>1. m < n \/ n < m
      BY <1>1
    <2> QED
      BY <1>1, <2>1, CapacityAssumption, NearPositionsDiffer
  <1> QED
    BY <1>1, <1>2, SameLocations DEF SlotOf

-----------------------------------------------------------------------------
(* Loads and stores. *)

LEMMA ReadersAre == \A p \in Producers : p \in Readers /\ p # Consumer
  BY ConsumerAssumption DEF Readers

LEMMA MessagesAre ==
    ASSUME TypeOK, NEW l \in Locations
    PROVE  /\ memory[l] \in Seq([value : Contents(l), view : [Locations -> Nat]])
           /\ Len(memory[l]) \in Nat /\ Len(memory[l]) >= 1
           /\ \A i \in 1 .. Len(memory[l]) :
                /\ memory[l][i].value \in Contents(l)
                /\ memory[l][i].view \in [Locations -> Nat]
  <1>1. /\ memory[l] \in Seq([value : Contents(l), view : [Locations -> Nat]])
        /\ memory[l] # <<>>
    BY DEF TypeOK
  <1>2. Len(memory[l]) \in Nat /\ Len(memory[l]) >= 1
    BY <1>1
  <1>3. ASSUME NEW i \in 1 .. Len(memory[l])
        PROVE  /\ memory[l][i].value \in Contents(l)
               /\ memory[l][i].view \in [Locations -> Nat]
    <2> DEFINE Message == [value : Contents(l), view : [Locations -> Nat]]
               s == memory[l]
    <2>1. s[i] \in Message
      <3>1. s \in Seq(Message) /\ i \in 1 .. Len(s)
        BY <1>1
      <3> HIDE DEF s, Message
      <3> QED
        BY <3>1
    <2> QED
      BY <2>1
  <1> QED
    BY <1>1, <1>2, <1>3

\* What a load changes: its thread knows more.
LEMMA LoadEffect ==
    ASSUME TypeOK, Views, NEW t \in Readers, NEW l \in Locations,
           NEW i \in Visible(t, l), NEW order, Load(t, l, i, order)
    PROVE  /\ memory' = memory
           /\ view' \in [Readers -> [Locations -> Nat]]
           /\ \A u \in Readers : u # t => view'[u] = view[u]
           /\ \A x \in Locations : view'[t][x] \in view[t][x] .. Len(memory[x])
           /\ view'[t][l] >= i
           /\ order = "acquire" =>
                \A x \in Locations : view'[t][x] >= memory[l][i].view[x]
           /\ Views'
  <1> DEFINE own == [view[t] EXCEPT ![l] = i]
             new == IF order = "acquire" THEN Join(own, memory[l][i].view)
                                         ELSE own
  <1>1. view \in [Readers -> [Locations -> Nat]]
    BY DEF TypeOK, Readers
  <1>2. /\ i \in Nat /\ i \in 1 .. Len(memory[l]) /\ i >= view[t][l]
        /\ \A x \in Locations : view[t][x] \in 1 .. Len(memory[x])
    BY <1>1, MessagesAre DEF Views, Visible, Newest, Readers
  <1>3. /\ own \in [Locations -> Nat] /\ own[l] = i
        /\ \A x \in Locations : own[x] \in view[t][x] .. Len(memory[x])
    BY <1>1, <1>2, MessagesAre
  <1>4. /\ memory[l][i].view \in [Locations -> Nat]
        /\ \A x \in Locations : memory[l][i].view[x] \in 1 .. Len(memory[x])
    BY <1>2, MessagesAre DEF Views, Newest
  <1>5. memory' = memory /\ view' = [view EXCEPT ![t] = new]
    BY DEF Load
  <1> HIDE DEF own
  <1>6. /\ new \in [Locations -> Nat] /\ new[l] >= i
        /\ \A x \in Locations : new[x] \in view[t][x] .. Len(memory[x])
        /\ order = "acquire" =>
             \A x \in Locations : new[x] >= memory[l][i].view[x]
    BY <1>1, <1>2, <1>3, <1>4, MessagesAre, SMTT(30) DEF Join
  <1> HIDE DEF new
  <1>7. /\ view' \in [Readers -> [Locations -> Nat]] /\ view'[t] = new
        /\ \A u \in Readers : u # t => view'[u] = view[u]
    BY <1>1, <1>5, <1>6
  <1>8. Views'
    <2>1. ASSUME NEW u \in Readers, NEW x \in Locations
          PROVE  view'[u][x] \in 1 .. Len(memory[x])
      <3>1. CASE u = t
        BY <1>1, <1>2, <1>6, <1>7, <3>1, MessagesAre
      <3>2. CASE u # t
        BY <1>7, <3>2 DEF Views, Newest, Readers
      <3> QED
        BY <3>1, <3>2
    <2> QED
      BY <1>5, <2>1 DEF Views, Newest, Readers
  <1> QED
    BY <1>5, <1>6, <1>7, <1>8

\* What a store changes: one message more, which its thread knows.
Stored(t, l, v, order) ==
    /\ DOMAIN memory' = Locations
    /\ \A x \in Locations : memory'[x] \in
         Seq([value : Contents(x), view : [Locations -> Nat]]) \ {<<>>}
    /\ view' \in [Readers -> [Locations -> Nat]]
    /\ \A x \in Locations : x # l => memory'[x] = memory[x]
    /\ Len(memory'[l]) = Len(memory[l]) + 1
    /\ \A i \in 1 .. Len(memory[l]) : memory'[l][i] = memory[l][i]
    /\ memory'[l][Len(memory[l]) + 1].value = v
    /\ \A u \in Readers : u # t => view'[u] = view[u]
    /\ \A x \in Locations : x # l => view'[t][x] = view[t][x]
    /\ view'[t][l] = Len(memory[l]) + 1
    /\ order = "release" =>
         \A x \in Locations :
           memory'[l][Len(memory[l]) + 1].view[x] = view'[t][x]
    /\ Views'

LEMMA StoreEffect ==
    ASSUME TypeOK, Views, NEW t \in Readers, NEW l \in Locations,
           NEW v \in Contents(l), NEW order, Store(t, l, v, order)
    PROVE  Stored(t, l, v, order)
  <1> DEFINE k == Len(memory[l])
             own == [view[t] EXCEPT ![l] = k + 1]
             handed == IF order = "release" THEN own ELSE Nothing
             m == [value |-> v, view |-> handed]
             Message == [value : Contents(l), view : [Locations -> Nat]]
  <1>1. /\ view \in [Readers -> [Locations -> Nat]]
        /\ \A u \in Readers, x \in Locations :
             view[u][x] \in 1 .. Len(memory[x])
    BY DEF TypeOK, Readers, Views, Newest
  <1>2. k \in Nat /\ k >= 1 /\ memory[l] \in Seq(Message)
    BY MessagesAre
  <1>3. /\ memory' = [memory EXCEPT ![l] = Append(memory[l], m)]
        /\ view' = [view EXCEPT ![t] = own]
    BY DEF Store, Newest
  <1>4. /\ own \in [Locations -> Nat] /\ own[l] = k + 1
        /\ \A x \in Locations : x # l => own[x] = view[t][x]
    BY <1>1, <1>2
  <1>5. /\ handed \in [Locations -> Nat]
        /\ \A x \in Locations :
             handed[x] \in 1 .. IF x = l THEN k + 1 ELSE Len(memory[x])
    <2> HIDE DEF own
    <2>1. CASE order = "release"
      BY <1>1, <1>2, <1>4, <2>1
    <2>2. CASE order # "release"
      <3>1. \A x \in Locations : Len(memory[x]) \in Nat /\ Len(memory[x]) >= 1
        BY MessagesAre
      <3>2. handed = [x \in Locations |-> 1]
        BY <2>2 DEF Nothing
      <3> HIDE DEF handed
      <3> QED
        BY <1>2, <3>1, <3>2
    <2> QED
      BY <2>1, <2>2
  <1>6. m \in Message /\ m.value = v /\ m.view = handed
    <2> HIDE DEF handed
    <2> QED
      BY <1>5
  <1> HIDE DEF own, m, Message
  <1>7. /\ view' \in [Readers -> [Locations -> Nat]] /\ view'[t] = own
        /\ \A u \in Readers : u # t => view'[u] = view[u]
    BY <1>1, <1>3, <1>4
  <1>8. /\ DOMAIN memory' = Locations /\ memory'[l] = Append(memory[l], m)
        /\ \A x \in Locations : x # l => memory'[x] = memory[x]
    BY <1>3 DEF TypeOK
  <1>9. /\ memory'[l] \in Seq(Message) /\ memory'[l] # <<>>
        /\ Len(memory'[l]) = k + 1 /\ memory'[l][k + 1] = m
        /\ \A i \in 1 .. k : memory'[l][i] = memory[l][i]
    BY <1>2, <1>6, <1>8
  <1>10. ASSUME NEW x \in Locations
         PROVE  memory'[x] \in
                  Seq([value : Contents(x), view : [Locations -> Nat]]) \ {<<>>}
    <2>1. CASE x = l
      BY <1>9, <2>1 DEF Message
    <2>2. CASE x # l
      BY <1>8, <2>2 DEF TypeOK
    <2> QED
      BY <2>1, <2>2
  <1>11. order = "release" =>
           \A x \in Locations : memory'[l][k + 1].view[x] = view'[t][x]
    BY <1>6, <1>7, <1>9
  <1>12. Views'
    <2>1. \A x \in Locations :
            Len(memory[x]) \in Nat /\ Len(memory'[x]) \in Nat
              /\ Len(memory'[x]) = IF x = l THEN k + 1 ELSE Len(memory[x])
      BY <1>2, <1>8, <1>9, MessagesAre
    <2>2. ASSUME NEW u \in Readers, NEW x \in Locations
          PROVE  view'[u][x] \in 1 .. Len(memory'[x])
      <3>1. CASE u = t /\ x = l
        BY <1>2, <1>4, <1>7, <2>1, <3>1
      <3>2. CASE u = t /\ x # l
        BY <1>1, <1>4, <1>7, <2>1, <3>2
      <3>3. CASE u # t
        <4>1. view'[u][x] = view[u][x] /\ view[u][x] \in 1 .. Len(memory[x])
          BY <1>1, <1>7, <3>3
        <4>2. Len(memory[x]) <= Len(memory'[x])
          BY <1>2, <2>1
        <4> QED
          BY <2>1, <4>1, <4>2
      <3> QED
        BY <3>1, <3>2, <3>3
    <2>3. ASSUME NEW y \in Locations, NEW i \in 1 .. Len(memory'[y]),
                 NEW x \in Locations
          PROVE  memory'[y][i].view[x] \in 1 .. Len(memory'[x])
      <3>1. CASE y = l /\ i = k + 1
        <4> HIDE DEF handed
        <4> QED
          BY <1>5, <1>6, <1>9, <2>1, <3>1
      <3>2. CASE ~(y = l /\ i = k + 1)
        <4>1. i \in 1 .. Len(memory[y]) /\ memory'[y][i] = memory[y][i]
          BY <1>2, <1>8, <1>9, <2>1, <3>2
        <4>2. memory[y][i].view[x] \in 1 .. Len(memory[x])
          BY <4>1 DEF Views, Newest
        <4> QED
          BY <1>2, <2>1, <4>1, <4>2
      <3> QED
        BY <3>1, <3>2
    <2> QED
      BY <2>2, <2>3 DEF Views, Newest, Readers
  <1> QED
    BY <1>4, <1>6, <1>7, <1>8, <1>9, <1>10, <1>11, <1>12 DEF Stored

-----------------------------------------------------------------------------
(* What the numbers of a cell tell. *)

\* With two cells or more a number n is read only from the message that frees
\* the cell for n, and n + 1 only from the one that publishes it.
LEMMA NumberTellsMessage ==
    ASSUME IInv, Capacity >= 2, NEW n \in Nat,
           NEW i \in 1 .. Len(memory[sequence(n)])
    PROVE  LET v == memory[sequence(n)][i].value
           IN  (v = n => i = FreeAt(n)) /\ (v = n + 1 => i = FreeAt(n) + 1)
  <1>1. PICK m \in Nat : /\ sequence(m) = sequence(n)
                         /\ i = FreeAt(m) \/ i = FreeAt(m) + 1
    <2>1. Len(memory[sequence(n)]) \in Nat
      BY LocationsOf, MessagesAre DEF IInv
    <2>2. i \in Nat \ {0}
      BY <2>1
    <2> QED
      BY <2>2, EveryMessage
  <1>2. FreeAt(m) \in Nat /\ FreeAt(n) \in Nat
    BY FreeAtIs
  <1>3. memory[sequence(n)][i].value = IF i = FreeAt(m) THEN m ELSE m + 1
    BY <1>1, <1>2 DEF IInv, Numbers, Newest
  <1>4. m # n + 1 /\ n # m + 1
    <2>1. m % Capacity = n % Capacity
      BY <1>1, SameLocations DEF SlotOf
    <2>2. ASSUME NEW a \in Nat, NEW b \in Nat, b = a + 1
          PROVE  a % Capacity # b % Capacity
      <3>1. a < b /\ b < a + Capacity
        BY <2>2, CapacityAssumption
      <3> QED
        BY <3>1, CapacityAssumption, NearPositionsDiffer
    <2> QED
      BY <2>1, <2>2
  <1> QED
    BY <1>1, <1>2, <1>3, <1>4

\* A thread that has seen the cell free for the next position may claim it.
LEMMA NextPositionIsFree ==
    ASSUME IInv, Claimed \in Nat, FreeAt(Claimed) <= Len(memory[sequence(Claimed)])
    PROVE  Claimed \in Window /\ IsFree(Claimed)
  <1>1. /\ read \in Nat /\ read <= Len(retired) /\ Len(retired) \in Nat
        /\ Len(retired) <= Claimed /\ Claimed <= read + Capacity
    BY DEF IInv, TypeOK, Indices
  <1>2. Claimed # read + Capacity
    <2> SUFFICES ASSUME Claimed = read + Capacity PROVE FALSE
      OBVIOUS
    <2>1. read \in Window /\ read < Claimed
      BY <1>1, CapacityAssumption DEF Window
    <2>2. /\ sequence(Claimed) = sequence(read)
          /\ FreeAt(Claimed) = FreeAt(read) + 2
          /\ FreeAt(read) \in Nat
      BY <1>1, FreeInNextRound, FreeAtIs
    <2>3. Len(memory[sequence(read)]) <= FreeAt(read) + 1
      <3>1. ~(read >= Claimed)
        BY <1>1, <2>1
      <3>2. CASE \E p \in Producers : Working(p) /\ write[p] = read
        BY <2>2, <3>2 DEF IInv, ProducerOK, Working, IsFree, IsConstructed,
                          Reached, Newest
      <3>3. CASE IsPublished(read) \/ IsTaken(read)
        BY <2>2, <3>3 DEF IsPublished, IsTaken, Reached, Newest
      <3> QED
        BY <2>1, <3>1, <3>2, <3>3 DEF IInv, Positions
    <2> QED
      BY <2>2, <2>3
  <1>3. Claimed \in Window
    BY <1>1, <1>2, CapacityAssumption DEF Window
  <1>4. ~(Claimed \in Len(retired) .. Claimed - 1) /\ ~(Claimed < Len(retired))
    BY <1>1
  <1>5. ~\E p \in Producers : Working(p) /\ write[p] = Claimed
    BY <1>1 DEF IInv, ProducerOK
  <1> QED
    BY <1>3, <1>4, <1>5 DEF IInv, Positions

-----------------------------------------------------------------------------
(* The steps of the producers. *)

LEMMA ClaimedIs ==
    ASSUME IInv
    PROVE  /\ Claimed \in Nat /\ Claimed = Len(memory[write_index]) - 1
           /\ Len(reserved) = Claimed /\ read \in Nat
           /\ Len(retired) \in Nat /\ Len(retired) <= Claimed
           /\ read <= Len(retired) /\ Claimed <= read + Capacity
  <1>1. /\ Len(memory[write_index]) \in Nat /\ Len(memory[write_index]) >= 1
    <2>1. write_index \in Locations
      BY LocationsOf
    <2> QED
      BY <2>1, MessagesAre DEF IInv
  <1>2. Claimed = Len(memory[write_index]) - 1
    BY <1>1 DEF IInv, Numbers, Claimed, Value, Newest
  <1> QED
    BY <1>1, <1>2 DEF IInv, Indices, TypeOK

\* A step that does not concern producer q leaves its part of the invariant.
LEMMA ProducerStays ==
    ASSUME IInv, NEW q \in Producers, ProducerOK(q),
           view'[q] = view[q], pc'[q] = pc[q], write'[q] = write[q],
           pushed'[q] = pushed[q], Claimed' \in Nat, Claimed <= Claimed',
           Working(q) =>
             /\ memory'[sequence(write[q])] = memory[sequence(write[q])]
             /\ memory'[storage(write[q])] = memory[storage(write[q])]
             /\ write[q] >= Len(retired')
             /\ reserved'[write[q] + 1] = reserved[write[q] + 1]
             /\ \A r \in Producers :
                  Working(r)' /\ write'[r] = write[q] => r = q,
           Len(retired') \in Nat
    PROVE  ProducerOK(q)'
  <1>1. write[q] \in Nat /\ Claimed \in Nat /\ (Working(q)' <=> Working(q))
    BY ClaimedIs DEF IInv, TypeOK, Working
  <1>2. write'[q] <= Claimed'
    BY <1>1 DEF ProducerOK
  <1>3. pc'[q] # "idle" => pushed'[q] < MaxPushes
    BY DEF ProducerOK
  <1>4. /\ pc'[q] \in {"cas", "construct"} => Knows(q, write[q], 0, 0)'
        /\ pc'[q] = "publish" => Knows(q, write[q], 0, 1)'
    BY DEF ProducerOK, Knows
  <1>5. /\ pc'[q] = "construct" => IsFree(write[q])'
        /\ pc'[q] = "publish" => IsConstructed(write[q])'
    BY DEF ProducerOK, IsFree, IsConstructed, Reached, Newest, Working
  <1>6. Working(q) =>
          /\ write'[q] \in Len(retired') .. Claimed' - 1
          /\ reserved'[write'[q] + 1] = ValueOf(q)'
    BY <1>1 DEF ProducerOK, ValueOf
  <1> QED
    BY <1>1, <1>2, <1>3, <1>4, <1>5, <1>6
       DEF ProducerOK, Knows, IsFree, IsConstructed, Reached, Newest

\* A load by a producer that does not hold a position.
LEMMA ProducerLoads ==
    ASSUME IInv, NEW p \in Producers, NEW l \in Locations,
           NEW i \in Visible(p, l), NEW order, Load(p, l, i, order),
           ~Working(p), pushed[p] < MaxPushes,
           NEW step \in {"idle", "reload", "loadSequence", "cas"}, GoTo(p, step),
           NEW w \in Nat, w <= Claimed, write' = [write EXCEPT ![p] = w],
           step = "cas" => /\ view'[p][sequence(w)] >= FreeAt(w)
                           /\ view'[p][storage(w)] >= FreeAt(w),
           UNCHANGED <<pushed, consumerVars, history>>
    PROVE  IInv'
  <1>1. /\ memory' = memory
        /\ view' \in [Readers -> [Locations -> Nat]]
        /\ \A u \in Readers : u # p => view'[u] = view[u]
        /\ Views'
    BY LoadEffect, ReadersAre DEF IInv
  <1>2. /\ pc' = [pc EXCEPT ![p] = step]
        /\ UNCHANGED <<pushed, popping, read, reserved, retired>>
    BY DEF GoTo, consumerVars, history
  <1>3. TypeOK'
    BY <1>1, <1>2 DEF IInv, TypeOK, Readers
  <1>4. \A q \in Producers :
           /\ Working(q)' <=> Working(q)
           /\ Working(q) => write'[q] = write[q]
    BY <1>2 DEF IInv, TypeOK, Working
  <1>5. Numbers' /\ Fifo' /\ Indices'
    BY <1>1, <1>2 DEF IInv, Numbers, Fifo, Indices, Newest, Value, Claimed
  <1>6. ConsumerOK'
    <2>1. view'[Consumer] = view[Consumer]
      BY <1>1, ReadersAre DEF Readers
    <2> QED
      BY <1>1, <1>2, <2>1
         DEF IInv, ConsumerOK, IsPublished, IsTaken, Reached, Newest, Knows,
             Claimed, Value
  <1>7. Positions'
    BY <1>1, <1>2, <1>4
       DEF IInv, Positions, Window, IsFree, IsPublished, IsTaken, Reached,
           Newest, Value, Claimed
  <1>8. ASSUME NEW q \in Producers PROVE ProducerOK(q)'
    <2>1. CASE q = p
      <3>1. /\ pc'[p] = step /\ write'[p] = w /\ Claimed' = Claimed
        BY <1>1, <1>2 DEF IInv, TypeOK, Claimed, Value, Newest
      <3>2. FreeAt(w) + 0 = FreeAt(w)
        BY FreeAtIs
      <3> QED
        BY <1>2, <2>1, <3>1, <3>2 DEF ProducerOK, Working, Knows
    <2>2. CASE q # p
      <3>1. /\ view'[q] = view[q] /\ pc'[q] = pc[q] /\ write'[q] = write[q]
        BY <1>1, <1>2, <2>2, ReadersAre DEF IInv, TypeOK
      <3>2. ProducerOK(q) /\ Claimed' = Claimed
        BY <1>1 DEF IInv, Claimed, Value, Newest
      <3>3. Working(q) =>
              /\ write[q] >= Len(retired)
              /\ \A r \in Producers :
                   Working(r)' /\ write'[r] = write[q] => r = q
        BY <1>4, <3>2, ClaimedIs DEF ProducerOK
      <3> QED
        BY <1>1, <1>2, <3>1, <3>2, <3>3, ClaimedIs, ProducerStays
    <2> QED
      BY <2>1, <2>2
  <1> QED
    BY <1>1, <1>3, <1>5, <1>6, <1>7, <1>8 DEF IInv

LEMMA LoadWriteKeepsIInv ==
    ASSUME IInv, NEW p \in Producers, LoadWrite(p)
    PROVE  IInv'
  <1>1. PICK i \in Visible(p, write_index) :
          /\ Load(p, write_index, i, Relaxed)
          /\ write' = [write EXCEPT ![p] = memory[write_index][i].value]
    BY DEF LoadWrite
  <1>2. memory[write_index][i].value \in Nat
          /\ memory[write_index][i].value <= Claimed
    <2>1. i \in 1 .. Len(memory[write_index])
      <3>1. view[p][write_index] \in 1 .. Len(memory[write_index])
        BY LocationsOf DEF IInv, Views, Newest
      <3> QED
        BY <3>1, ClaimedIs DEF Visible, Newest
    <2>2. memory[write_index][i].value = i - 1
      BY <2>1 DEF IInv, Numbers, Newest
    <2> QED
      BY <2>1, <2>2, ClaimedIs
  <1>3. /\ ~Working(p) /\ pushed[p] < MaxPushes /\ GoTo(p, "loadSequence")
        /\ UNCHANGED <<pushed, consumerVars, history>>
    BY DEF LoadWrite, Working
  <1>4. write_index \in Locations
    BY LocationsOf
  <1> QED
    BY <1>1, <1>2, <1>3, <1>4, ProducerLoads

LEMMA LoadSequenceKeepsIInv ==
    ASSUME IInv, Capacity >= 2, NEW p \in Producers, LoadSequence(p)
    PROVE  IInv'
  <1> DEFINE w == write[p]
             l == sequence(w)
  <1>1. PICK i \in Visible(p, l) :
          /\ Load(p, l, i, "acquire")
          /\ \/ memory[l][i].value = w /\ GoTo(p, "cas")
             \/ memory[l][i].value < w /\ GoTo(p, "idle")
             \/ memory[l][i].value > w /\ GoTo(p, "reload")
    BY DEF LoadSequence, ProducerSequenceLoad
  <1>2. w \in Nat /\ w <= Claimed /\ write' = [write EXCEPT ![p] = w]
    BY DEF LoadSequence, IInv, TypeOK, ProducerOK
  <1>3. l \in Locations /\ storage(w) \in Locations
    BY <1>2, LocationsOf
  <1>4. i \in 1 .. Len(memory[l])
    <2>1. view[p][l] \in 1 .. Len(memory[l]) /\ Len(memory[l]) \in Nat
      BY <1>3, MessagesAre DEF IInv, Views, Newest
    <2> QED
      BY <2>1 DEF Visible, Newest
  <1>5. /\ ~Working(p) /\ pushed[p] < MaxPushes
        /\ UNCHANGED <<pushed, consumerVars, history>>
    BY DEF LoadSequence, Working, IInv, ProducerOK
  <1>6. memory[l][i].value = w =>
          view'[p][l] >= FreeAt(w) /\ view'[p][storage(w)] >= FreeAt(w)
    <2> SUFFICES ASSUME memory[l][i].value = w
                 PROVE  view'[p][l] >= FreeAt(w)
                          /\ view'[p][storage(w)] >= FreeAt(w)
      OBVIOUS
    <2>1. i = FreeAt(w)
      BY <1>2, <1>4, NumberTellsMessage
    <2>2. memory[l][i].view[storage(w)] >= i
      BY <1>2, <1>4 DEF IInv, Numbers, Newest
    <2>3. /\ view'[p][l] >= i
          /\ view'[p][storage(w)] >= memory[l][i].view[storage(w)]
          /\ view'[p][storage(w)] \in Int
      <3>1. view[p][storage(w)] \in Nat /\ Len(memory[storage(w)]) \in Nat
        BY <1>3, MessagesAre DEF IInv, TypeOK
      <3> QED
        BY <1>1, <1>3, <3>1, LoadEffect, ReadersAre DEF IInv
    <2>4. i \in Nat /\ memory[l][i].view[storage(w)] \in Nat
      <3>1. Len(memory[l]) \in Nat /\ memory[l][i].view \in [Locations -> Nat]
        BY <1>3, <1>4, MessagesAre DEF IInv
      <3> QED
        BY <1>3, <1>4, <3>1
    <2> QED
      BY <2>1, <2>2, <2>3, <2>4
  <1> HIDE DEF w, l
  <1>7. CASE memory[l][i].value = w /\ GoTo(p, "cas")
    BY <1>1, <1>2, <1>3, <1>5, <1>6, <1>7, ProducerLoads DEF l
  <1>8. CASE GoTo(p, "idle") \/ GoTo(p, "reload")
    BY <1>1, <1>2, <1>3, <1>5, <1>8, ProducerLoads
  <1> QED
    BY <1>1, <1>7, <1>8

\* What a producer is about to push.
LEMMA ValueOfIs ==
    ASSUME IInv, NEW p \in Producers, pushed[p] < MaxPushes
    PROVE  ValueOf(p) \in Values
  <1>1. pushed[p] + 1 \in 1 .. MaxPushes
    BY MaxPushesAssumption DEF IInv, TypeOK
  <1> QED
    BY <1>1 DEF ValueOf, Values

\* The cell that a producer is about to claim is free.
LEMMA ClaimedCellIsFree ==
    ASSUME IInv, NEW p \in Producers, pc[p] = "cas", Claimed = write[p]
    PROVE  write[p] \in Window /\ IsFree(write[p])
  <1> PICK w : w = write[p]
    OBVIOUS
  <1>1. w \in Nat /\ Claimed = w
    BY DEF IInv, TypeOK
  <1>2. FreeAt(w) <= Len(memory[sequence(w)])
    <2>1. view[p][sequence(w)] \in 1 .. Len(memory[sequence(w)])
      BY <1>1, LocationsOf DEF IInv, Views, Newest
    <2>2. view[p][sequence(w)] >= FreeAt(w) + 0 /\ FreeAt(w) \in Nat
      BY <1>1, FreeAtIs DEF IInv, ProducerOK, Knows
    <2>3. Len(memory[sequence(w)]) \in Nat
      BY <1>1, LocationsOf, MessagesAre DEF IInv
    <2> QED
      BY <2>1, <2>2, <2>3
  <1> QED
    BY <1>1, <1>2, NextPositionIsFree

LEMMA ClaimKeepsIInv ==
    ASSUME IInv, NEW p \in Producers, Claim(p)
    PROVE  IInv'
  <1> PICK w : w = write[p]
    OBVIOUS
  <1> PICK N : N = Len(memory[write_index])
    OBVIOUS
  <1>1. /\ pc[p] = "cas" /\ Claimed = w /\ w \in Nat
        /\ Store(p, write_index, w + 1, Relaxed)
        /\ reserved' = Append(reserved, ValueOf(p))
        /\ pc' = [pc EXCEPT ![p] = "construct"]
        /\ UNCHANGED <<write, pushed, popping, read, retired>>
        /\ pushed[p] < MaxPushes
    BY DEF Claim, MayClaim, Claimed, GoTo, consumerVars, IInv, TypeOK, ProducerOK
  <1>2. w \in Window /\ IsFree(w)
    BY <1>1, ClaimedCellIsFree
  <1>3. Stored(p, write_index, w + 1, Relaxed)
    <2>1. /\ write_index \in Locations /\ w + 1 \in Contents(write_index)
          /\ TypeOK /\ Views
      BY <1>1, LocationsOf DEF IInv
    <2> QED
      BY <1>1, <2>1, ReadersAre, StoreEffect
  <1>4. /\ N = w + 1 /\ Claimed' = w + 1 /\ Len(reserved) = w
        /\ read \in Nat /\ Len(retired) \in Nat /\ Len(retired) <= w
    BY <1>1, <1>3, ClaimedIs DEF Claimed, Value, Newest, Stored
  <1>5. /\ Len(reserved') = w + 1 /\ reserved'[w + 1] = ValueOf(p)
        /\ reserved' \in Seq(Values)
        /\ \A i \in 1 .. w : reserved'[i] = reserved[i]
    <2>1. reserved \in Seq(Values) /\ ValueOf(p) \in Values
      BY <1>1, ValueOfIs DEF IInv, TypeOK
    <2> QED
      BY <1>1, <1>4, <2>1
  <1>6. TypeOK'
    BY <1>1, <1>3, <1>5 DEF IInv, TypeOK, Readers, Stored
  <1>7. ASSUME NEW n \in Nat
        PROVE  /\ memory'[sequence(n)] = memory[sequence(n)]
               /\ memory'[storage(n)] = memory[storage(n)]
               /\ \A u \in Readers :
                    /\ view'[u][sequence(n)] = view[u][sequence(n)]
                    /\ view'[u][storage(n)] = view[u][storage(n)]
    BY <1>3, LocationsOf DEF Stored
  <1>8. Numbers'
    <2>1. \A i \in 1 .. N + 1 : memory'[write_index][i].value = i - 1
      <3>1. \A i \in 1 .. N : memory[write_index][i].value = i - 1
        BY DEF IInv, Numbers, Newest
      <3>2. /\ \A i \in 1 .. N : memory'[write_index][i] = memory[write_index][i]
            /\ memory'[write_index][N + 1].value = w + 1
        BY <1>1, <1>3 DEF Stored
      <3>3. N \in Nat /\ N = w + 1
        BY <1>1, <1>4
      <3>4. \A i \in 1 .. N + 1 : i \in 1 .. N \/ i = N + 1
        BY <3>3
      <3> QED
        BY <3>1, <3>2, <3>3, <3>4
    <2> QED
      BY <1>3, <1>7, <2>1 DEF IInv, Numbers, Newest, Stored
  <1>9. Indices'
    <2>1. w + 1 <= read + Capacity
      BY <1>2, <1>4, CapacityAssumption DEF Window
    <2> QED
      BY <1>1, <1>4, <1>5, <2>1 DEF IInv, Indices
  <1>10. \A q \in Producers :
           /\ write'[q] = write[q] /\ (Working(q)' <=> Working(q) \/ q = p)
           /\ Working(q) => write[q] # w
    BY <1>1, <1>4 DEF Working, IInv, TypeOK, ProducerOK
  <1>11. ASSUME NEW q \in Producers PROVE ProducerOK(q)'
    <2>1. CASE q = p
      <3>1. pc'[p] = "construct" /\ write'[p] = w
        BY <1>1 DEF IInv, TypeOK
      <3>2. Knows(p, w, 0, 0)' /\ IsFree(w)'
        <4>1. Knows(p, w, 0, 0)
          BY <1>1 DEF IInv, ProducerOK
        <4> QED
          BY <1>1, <1>2, <1>7, <4>1, ReadersAre
             DEF Knows, IsFree, Reached, Newest
      <3>3. ValueOf(p)' = ValueOf(p)
        BY <1>1 DEF ValueOf
      <3> QED
        BY <1>1, <1>4, <1>5, <1>10, <2>1, <3>1, <3>2, <3>3
           DEF ProducerOK, Knows, IsFree, Reached, Newest
    <2>2. CASE q # p
      <3>1. /\ view'[q] = view[q] /\ pc'[q] = pc[q] /\ write[q] \in Nat
        BY <1>1, <1>3, <2>2, ReadersAre DEF IInv, TypeOK, Stored
      <3>2. Working(q) =>
              /\ write[q] >= Len(retired) /\ write[q] + 1 \in 1 .. w
              /\ \A r \in Producers :
                   Working(r)' /\ write'[r] = write[q] => r = q
        BY <1>1, <1>4, <1>10, <3>1, SMTT(30) DEF IInv, ProducerOK
      <3>3. ProducerOK(q)
        BY DEF IInv
      <3> QED
        BY <1>1, <1>4, <1>5, <1>7, <3>1, <3>2, <3>3, ProducerStays
    <2> QED
      BY <2>1, <2>2
  <1>12. ConsumerOK'
    BY <1>1, <1>4, <1>7
       DEF IInv, ConsumerOK, IsPublished, IsTaken, Reached, Newest, Knows, Readers
  <1>13. Positions'
    <2>1. ASSUME NEW n \in Window
          PROVE  \/ n >= w + 1 /\ IsFree(n)'
                 \/ n \in Len(retired) .. w /\ IsPublished(n)'
                 \/ n < Len(retired) /\ IsTaken(n)'
                 \/ \E q \in Producers : Working(q)' /\ write'[q] = n
      <3>1. n \in Nat
        BY <1>4 DEF Window
      <3>2. CASE n = w
        BY <1>1, <1>10, <3>2
      <3>3. CASE n # w
        <4>1. IsFree(n)' = IsFree(n) /\ IsPublished(n)' = IsPublished(n)
                /\ IsTaken(n)' = IsTaken(n)
          BY <1>7, <3>1 DEF IsFree, IsPublished, IsTaken, Reached, Newest
        <4>2. \/ n >= w /\ IsFree(n)
              \/ n \in Len(retired) .. w - 1 /\ IsPublished(n)
              \/ n < Len(retired) /\ IsTaken(n)
              \/ \E q \in Producers : Working(q) /\ write[q] = n
          BY <1>1 DEF IInv, Positions
        <4>3. CASE \E q \in Producers : Working(q) /\ write[q] = n
          BY <1>10, <4>3
        <4> QED
          BY <1>1, <1>4, <3>1, <3>3, <4>1, <4>2, <4>3
      <3> QED
        BY <3>2, <3>3
    <2> QED
      BY <1>1, <1>4, <2>1 DEF Positions, Window
  <1>14. Fifo'
    <2>1. ASSUME NEW n \in Len(retired) .. w, Len(memory[storage(n)]) = FreeAt(n) + 1
          PROVE  memory[storage(n)][FreeAt(n) + 1].value = reserved'[n + 1]
      <3>1. n # w
        <4>1. FreeAt(w) \in Nat
          BY <1>1, FreeAtIs
        <4>2. Len(memory[storage(w)]) = FreeAt(w) + 0
          BY <1>2 DEF IsFree, Reached, Newest
        <4> QED
          BY <2>1, <4>1, <4>2
      <3>2. n \in Len(retired) .. Claimed - 1 /\ n + 1 \in 1 .. w
        BY <1>1, <1>4, <3>1
      <3> QED
        BY <1>5, <2>1, <3>2 DEF IInv, Fifo, Value, Newest
    <2>2. \A i \in 1 .. Len(retired) : retired[i] = reserved'[i]
      BY <1>4, <1>5 DEF IInv, Fifo
    <2> QED
      BY <1>1, <1>4, <1>7, <2>1, <2>2, SMTT(30) DEF Fifo, Value, Newest
  <1> QED
    BY <1>3, <1>6, <1>8, <1>9, <1>11, <1>12, <1>13, <1>14
       DEF IInv, Stored

\* A store to one cell leaves the other cells of the window.
LEMMA OtherCells ==
    ASSUME IInv, NEW t \in Readers, NEW n \in Window,
           NEW l \in {sequence(n), storage(n)}, NEW v, NEW order,
           Stored(t, l, v, order)
    PROVE  /\ n \in Nat /\ Claimed' = Claimed
           /\ \A m \in Window : m # n =>
                /\ memory'[sequence(m)] = memory[sequence(m)]
                /\ memory'[storage(m)] = memory[storage(m)]
                /\ \A u \in Readers :
                     /\ view'[u][sequence(m)] = view[u][sequence(m)]
                     /\ view'[u][storage(m)] = view[u][storage(m)]
  <1>1. read \in Nat /\ n \in Nat
    BY DEF IInv, TypeOK, Window
  <1>2. l # write_index /\ write_index \in Locations
    BY <1>1, LocationsOf
  <1>3. Claimed' = Claimed
    BY <1>2 DEF Stored, Claimed, Value, Newest
  <1>4. ASSUME NEW m \in Window, m # n
        PROVE  /\ sequence(m) # l /\ storage(m) # l
               /\ sequence(m) \in Locations /\ storage(m) \in Locations
    <2>1. m \in Nat
      BY <1>1 DEF Window
    <2>2. sequence(m) # sequence(n) /\ storage(m) # storage(n)
      BY <1>1, <1>4, WindowDiffers
    <2> QED
      BY <1>1, <2>1, <2>2, SameLocations, LocationsOf
  <1> QED
    BY <1>1, <1>3, <1>4 DEF Stored

LEMMA StorageStored ==
    ASSUME IInv, NEW t \in Readers, NEW n \in Nat, NEW v, NEW order,
           Stored(t, storage(n), v, order)
    PROVE  Numbers'
  <1>1. /\ memory'[write_index] = memory[write_index]
        /\ \A m \in Nat : memory'[sequence(m)] = memory[sequence(m)]
    BY LocationsOf, SameLocations DEF Stored
  <1> QED
    BY <1>1 DEF IInv, Numbers, Newest

\* The number stored is the one that message k of the cell must have.
LEMMA SequenceStored ==
    ASSUME IInv, NEW t \in Readers, NEW n \in Nat, NEW v, NEW k \in Nat,
           Stored(t, sequence(n), v, "release"),
           k = Len(memory[sequence(n)]) + 1,
           view'[t][storage(n)] >= k,
           \A m \in Nat : sequence(m) = sequence(n) =>
             (FreeAt(m) = k => v = m) /\ (FreeAt(m) + 1 = k => v = m + 1)
    PROVE  Numbers'
  <1> DEFINE l == sequence(n)
  <1>1. /\ l \in Locations /\ storage(n) \in Locations /\ l # write_index
        /\ write_index \in Locations
    BY LocationsOf
  <1>2. /\ Len(memory'[l]) = k /\ memory'[l][k].value = v
        /\ \A i \in 1 .. k - 1 : memory'[l][i] = memory[l][i]
        /\ memory'[l][k].view[l] = view'[t][l] /\ view'[t][l] = k
        /\ memory'[l][k].view[storage(n)] = view'[t][storage(n)]
        /\ \A x \in Locations : x # l => memory'[x] = memory[x]
        /\ k - 1 = Len(memory[l])
    <2>1. Len(memory[l]) \in Nat
      BY <1>1, MessagesAre DEF IInv
    <2> QED
      BY <1>1, <2>1 DEF Stored
  <1>3. memory'[write_index] = memory[write_index]
    BY <1>1, <1>2
  <1>4. ASSUME NEW m \in Nat
        PROVE  /\ FreeAt(m) <= Len(memory'[sequence(m)]) =>
                    memory'[sequence(m)][FreeAt(m)].value = m
               /\ FreeAt(m) + 1 <= Len(memory'[sequence(m)]) =>
                    memory'[sequence(m)][FreeAt(m) + 1].value = m + 1
               /\ \A i \in 1 .. Len(memory'[sequence(m)]) :
                    /\ memory'[sequence(m)][i].view[sequence(m)] >= i
                    /\ memory'[sequence(m)][i].view[storage(m)] >= i
    <2>1. /\ FreeAt(m) <= Len(memory[sequence(m)]) =>
               memory[sequence(m)][FreeAt(m)].value = m
          /\ FreeAt(m) + 1 <= Len(memory[sequence(m)]) =>
               memory[sequence(m)][FreeAt(m) + 1].value = m + 1
          /\ \A i \in 1 .. Len(memory[sequence(m)]) :
               /\ memory[sequence(m)][i].view[sequence(m)] >= i
               /\ memory[sequence(m)][i].view[storage(m)] >= i
      BY DEF IInv, Numbers, Newest
    <2>2. CASE sequence(m) # l
      <3>1. memory'[sequence(m)] = memory[sequence(m)]
        BY <1>2, <2>2, LocationsOf
      <3> QED
        BY <2>1, <3>1
    <2>3. CASE sequence(m) = l
      <3>1. storage(m) = storage(n) /\ FreeAt(m) \in Nat /\ FreeAt(m) >= 1
        BY <2>3, SameLocations, FreeAtIs
      <3>2. (FreeAt(m) = k => v = m) /\ (FreeAt(m) + 1 = k => v = m + 1)
        BY <2>3
      <3> HIDE DEF l
      <3>3. FreeAt(m) <= k => memory'[l][FreeAt(m)].value = m
        BY <1>2, <2>1, <2>3, <3>1, <3>2
      <3>4. FreeAt(m) + 1 <= k => memory'[l][FreeAt(m) + 1].value = m + 1
        BY <1>2, <2>1, <2>3, <3>1, <3>2, SMTT(30)
      <3>5. ASSUME NEW i \in 1 .. k
            PROVE  /\ memory'[l][i].view[l] >= i
                   /\ memory'[l][i].view[storage(n)] >= i
        <4>1. CASE i = k
          BY <1>2, <4>1
        <4>2. CASE i # k
          <5>1. i \in 1 .. k - 1 /\ i \in 1 .. Len(memory[l])
            BY <1>2, <4>2
          <5>2. memory'[l][i] = memory[l][i]
            BY <1>2, <5>1
          <5>3. memory[l][i].view[l] >= i /\ memory[l][i].view[storage(n)] >= i
            BY <2>1, <2>3, <3>1, <5>1
          <5> QED
            BY <5>2, <5>3
        <4> QED
          BY <4>1, <4>2
      <3> QED
        BY <1>2, <2>3, <3>1, <3>3, <3>4, <3>5
    <2> QED
      BY <2>2, <2>3
  <1> QED
    BY <1>3, <1>4 DEF IInv, Numbers, Newest

\* The position that a working producer holds.
LEMMA HeldPosition ==
    ASSUME IInv, NEW p \in Producers, Working(p)
    PROVE  /\ write[p] \in Window /\ write[p] \in Len(retired) .. Claimed - 1
           /\ reserved[write[p] + 1] = ValueOf(p)
           /\ \A q \in Producers : Working(q) /\ write[q] = write[p] => q = p
           /\ FreeAt(write[p]) \in Nat
           /\ IsFree(write[p]) \/ IsConstructed(write[p])
  <1>1. ProducerOK(p)
    BY DEF IInv
  <1>2. /\ write[p] \in Len(retired) .. Claimed - 1
        /\ reserved[write[p] + 1] = ValueOf(p)
        /\ \A q \in Producers : Working(q) /\ write[q] = write[p] => q = p
        /\ IsFree(write[p]) \/ IsConstructed(write[p])
    BY <1>1 DEF ProducerOK, Working
  <1>3. write[p] \in Nat
    BY <1>2, ClaimedIs
  <1>4. write[p] \in Window
    <2>1. /\ read \in Nat /\ Len(retired) \in Nat /\ Claimed \in Nat
          /\ read <= Len(retired) /\ Claimed <= read + Capacity
      BY ClaimedIs
    <2> QED
      BY <1>2, <2>1, CapacityAssumption DEF Window
  <1> QED
    BY <1>2, <1>3, <1>4, FreeAtIs

\* Positions that are not finished belong to no other stage.
LEMMA PopIsElsewhere ==
    ASSUME IInv, NEW n \in Nat, IsFree(n) \/ IsConstructed(n), popping
    PROVE  read # n
  <1>1. FreeAt(n) \in Nat
    BY FreeAtIs
  <1>2. Len(memory[sequence(n)]) = FreeAt(n)
    BY <1>1 DEF IsFree, IsConstructed, Reached, Newest
  <1>3. IsPublished(read) \/ IsTaken(read)
    BY DEF IInv, ConsumerOK, Indices
  <1> QED
    BY <1>1, <1>2, <1>3 DEF IsPublished, IsTaken, Reached, Newest

\* What a store of producer p to the cell of position w leaves as it is.
OthersKept(p, w) ==
    /\ Indices' /\ ConsumerOK' /\ Claimed' = Claimed
    /\ \A q \in Producers : q # p => ProducerOK(q)'
    /\ \A n \in Window : n # w =>
         \/ n >= Claimed' /\ IsFree(n)'
         \/ n \in Len(retired') .. Claimed' - 1 /\ IsPublished(n)'
         \/ n < Len(retired') /\ IsTaken(n)'
         \/ \E q \in Producers : Working(q)' /\ write'[q] = n
    /\ \A n \in Len(retired) .. Claimed - 1 :
         n # w /\ Len(memory'[storage(n)]) = FreeAt(n) + 1 =>
           memory'[storage(n)][Len(memory'[storage(n)])].value
             = reserved[n + 1]
    /\ \A i \in 1 .. Len(retired') : retired'[i] = reserved'[i]

\* A producer stores into the cell it holds and goes on to publish or to idle.
LEMMA ProducerStores ==
    ASSUME IInv, NEW p \in Producers, Working(p),
           NEW l \in {sequence(write[p]), storage(write[p])}, NEW v, NEW order,
           Stored(p, l, v, order), TypeOK',
           NEW step \in {"publish", "idle"}, pc' = [pc EXCEPT ![p] = step],
           \A q \in Producers : q # p => pushed'[q] = pushed[q],
           UNCHANGED <<write, popping, read, reserved, retired>>
    PROVE  OthersKept(p, write[p])
  <1> PICK w : w = write[p]
    OBVIOUS
  <1>1. /\ w \in Window /\ w \in Len(retired) .. Claimed - 1
        /\ \A q \in Producers : Working(q) /\ write[q] = w => q = p
        /\ IsFree(w) \/ IsConstructed(w)
    BY HeldPosition
  <1>2. /\ w \in Nat /\ Claimed' = Claimed
        /\ \A m \in Window : m # w =>
             /\ memory'[sequence(m)] = memory[sequence(m)]
             /\ memory'[storage(m)] = memory[storage(m)]
             /\ \A u \in Readers :
                  /\ view'[u][sequence(m)] = view[u][sequence(m)]
                  /\ view'[u][storage(m)] = view[u][storage(m)]
    BY <1>1, OtherCells, ReadersAre
  <1>3. /\ Claimed \in Nat /\ Len(retired) \in Nat /\ read \in Nat
        /\ read <= Len(retired) /\ Claimed <= read + Capacity
    BY ClaimedIs
  <1>4. \A q \in Producers : q # p =>
           /\ pc'[q] = pc[q] /\ (Working(q)' <=> Working(q))
           /\ view'[q] = view[q]
    BY ReadersAre DEF IInv, TypeOK, Working, Stored
  <1>5. Indices'
    BY <1>2 DEF IInv, Indices
  <1>6. ConsumerOK'
    <2>1. popping => read # w /\ read \in Window
      BY <1>1, <1>2, <1>3, PopIsElsewhere, CapacityAssumption DEF Window
    <2>2. popping => /\ (IsPublished(read)' <=> IsPublished(read))
                     /\ (IsTaken(read)' <=> IsTaken(read))
                     /\ (Knows(Consumer, read, 1, 1)' <=> Knows(Consumer, read, 1, 1))
                     /\ (Knows(Consumer, read, 1, 2)' <=> Knows(Consumer, read, 1, 2))
      BY <1>2, <2>1 DEF IsPublished, IsTaken, Reached, Newest, Knows, Readers
    <2> QED
      BY <1>2, <2>2 DEF IInv, ConsumerOK
  <1>7. ASSUME NEW q \in Producers, q # p PROVE ProducerOK(q)'
    <2>1. Working(q) =>
            /\ write[q] \in Window /\ write[q] # w
            /\ write[q] >= Len(retired)
            /\ \A r \in Producers : Working(r) /\ write[r] = write[q] => r = q
      BY <1>1, <1>3, <1>7, HeldPosition
    <2>2. Working(q) =>
            \A r \in Producers : Working(r)' /\ write'[r] = write[q] => r = q
      BY <1>4, <2>1
    <2>3. ProducerOK(q)
      BY DEF IInv
    <2> QED
      BY <1>2, <1>3, <1>4, <1>7, <2>1, <2>2, <2>3, ProducerStays
  <1>8. ASSUME NEW n \in Window, n # w
        PROVE  \/ n >= Claimed' /\ IsFree(n)'
               \/ n \in Len(retired') .. Claimed' - 1 /\ IsPublished(n)'
               \/ n < Len(retired') /\ IsTaken(n)'
               \/ \E q \in Producers : Working(q)' /\ write'[q] = n
    <2>1. /\ IsFree(n)' <=> IsFree(n)
          /\ IsPublished(n)' <=> IsPublished(n)
          /\ IsTaken(n)' <=> IsTaken(n)
      BY <1>2, <1>8 DEF IsFree, IsPublished, IsTaken, Reached, Newest
    <2>2. ASSUME NEW q \in Producers, Working(q), write[q] = n
          PROVE  Working(q)' /\ write'[q] = n
      BY <1>4, <1>8, <2>2
    <2> QED
      BY <1>2, <2>1, <2>2 DEF IInv, Positions
  <1>9. ASSUME NEW n \in Len(retired) .. Claimed - 1, n # w,
               Len(memory'[storage(n)]) = FreeAt(n) + 1
        PROVE  memory'[storage(n)][Len(memory'[storage(n)])].value
                 = reserved[n + 1]
    <2>1. n \in Window
      BY <1>3, CapacityAssumption DEF Window
    <2>2. memory'[storage(n)] = memory[storage(n)]
      BY <1>2, <1>9, <2>1
    <2> QED
      BY <1>9, <2>2 DEF IInv, Fifo, Value, Newest
  <1>10. \A i \in 1 .. Len(retired') : retired'[i] = reserved'[i]
    BY DEF IInv, Fifo
  <1> QED
    BY <1>2, <1>5, <1>6, <1>7, <1>8, <1>9, <1>10 DEF OthersKept

LEMMA ConstructKeepsIInv ==
    ASSUME IInv, NEW p \in Producers, Construct(p)
    PROVE  IInv'
  <1> PICK w : w = write[p]
    OBVIOUS
  <1>1. /\ pc[p] = "construct" /\ Working(p)
        /\ Store(p, storage(w), ValueOf(p), "plain")
        /\ pc' = [pc EXCEPT ![p] = "publish"]
        /\ UNCHANGED <<write, pushed, popping, read, reserved, retired>>
        /\ pushed[p] < MaxPushes
    BY DEF Construct, Working, GoTo, consumerVars, history, IInv, ProducerOK
  <1>2. /\ w \in Window /\ w \in Len(retired) .. Claimed - 1 /\ w \in Nat
        /\ reserved[w + 1] = ValueOf(p) /\ FreeAt(w) \in Nat
        /\ \A q \in Producers : Working(q) /\ write[q] = w => q = p
    BY <1>1, HeldPosition, ClaimedIs
  <1>3. IsFree(w) /\ Knows(p, w, 0, 0)
    BY <1>1 DEF IInv, ProducerOK
  <1>4. Stored(p, storage(w), ValueOf(p), "plain")
    <2>1. /\ storage(w) \in Locations /\ ValueOf(p) \in Contents(storage(w))
          /\ TypeOK /\ Views
      BY <1>1, <1>2, LocationsOf, ValueOfIs DEF IInv
    <2> QED
      BY <1>1, <2>1, ReadersAre, StoreEffect
  <1>5. TypeOK'
    BY <1>1, <1>4 DEF IInv, TypeOK, Readers, Stored
  <1>6. Numbers'
    BY <1>2, <1>4, ReadersAre, StorageStored
  <1>7. OthersKept(p, w)
    BY <1>1, <1>4, <1>5, ProducerStores
  <1>8. /\ Len(memory'[storage(w)]) = FreeAt(w) + 1
        /\ memory'[storage(w)][FreeAt(w) + 1].value = ValueOf(p)
        /\ memory'[sequence(w)] = memory[sequence(w)]
        /\ Len(memory[sequence(w)]) = FreeAt(w)
        /\ view'[p][storage(w)] = FreeAt(w) + 1
        /\ view'[p][sequence(w)] = view[p][sequence(w)]
        /\ view[p][sequence(w)] >= FreeAt(w) + 0
    <2>1. /\ sequence(w) \in Locations /\ sequence(w) # storage(w)
      BY <1>2, LocationsOf
    <2>2. /\ Len(memory[storage(w)]) = FreeAt(w)
          /\ Len(memory[sequence(w)]) = FreeAt(w)
      BY <1>2, <1>3 DEF IsFree, Reached, Newest
    <2>3. view[p][sequence(w)] >= FreeAt(w) + 0
      BY <1>3 DEF Knows
    <2> QED
      BY <1>4, <2>1, <2>2, <2>3 DEF Stored
  <1>9. Working(p)' /\ pc'[p] = "publish" /\ write'[p] = w
    BY <1>1 DEF IInv, TypeOK, Working
  <1>10. ProducerOK(p)'
    <2>1. /\ IsConstructed(w)' /\ Knows(p, w, 0, 1)'
      BY <1>2, <1>8 DEF IsConstructed, Reached, Newest, Knows
    <2>2. \A q \in Producers : Working(q)' /\ write'[q] = w => q = p
      BY <1>1, <1>2 DEF Working, IInv, TypeOK
    <2>3. ValueOf(p)' = ValueOf(p) /\ w <= Claimed
      BY <1>1, <1>2, ClaimedIs DEF ValueOf
    <2> QED
      BY <1>1, <1>2, <1>7, <1>9, <2>1, <2>2, <2>3
         DEF ProducerOK, IsConstructed, Reached, Newest, Knows, OthersKept
  <1>11. Positions'
    BY <1>1, <1>7, <1>9 DEF Positions, Window, OthersKept
  <1>12. Fifo'
    <2>1. ASSUME NEW n \in Len(retired) .. Claimed - 1,
                 Len(memory'[storage(n)]) = FreeAt(n) + 1
          PROVE  memory'[storage(n)][Len(memory'[storage(n)])].value
                   = reserved[n + 1]
      BY <1>2, <1>7, <1>8, <2>1 DEF OthersKept
    <2> QED
      BY <1>1, <1>7, <2>1 DEF Fifo, Value, Newest, OthersKept
  <1> QED
    BY <1>4, <1>5, <1>6, <1>7, <1>10, <1>11, <1>12
       DEF IInv, Stored, OthersKept

LEMMA PublishKeepsIInv ==
    ASSUME IInv, NEW p \in Producers, Publish(p)
    PROVE  IInv'
  <1> PICK w : w = write[p]
    OBVIOUS
  <1>1. /\ pc[p] = "publish" /\ Working(p)
        /\ Store(p, sequence(w), w + 1, "release")
        /\ pc' = [pc EXCEPT ![p] = "idle"]
        /\ pushed' = [pushed EXCEPT ![p] = @ + 1] /\ pushed[p] < MaxPushes
        /\ UNCHANGED <<write, popping, read, reserved, retired>>
    BY DEF Publish, Working, GoTo, consumerVars, history, IInv, ProducerOK,
           ProducerSequenceStore
  <1>2. /\ w \in Window /\ w \in Len(retired) .. Claimed - 1 /\ w \in Nat
        /\ reserved[w + 1] = ValueOf(p) /\ FreeAt(w) \in Nat
        /\ \A q \in Producers : Working(q) /\ write[q] = w => q = p
    BY <1>1, HeldPosition, ClaimedIs
  <1>3. IsConstructed(w) /\ Knows(p, w, 0, 1)
    BY <1>1 DEF IInv, ProducerOK
  <1>4. Stored(p, sequence(w), w + 1, "release")
    <2>1. /\ sequence(w) \in Locations /\ w + 1 \in Contents(sequence(w))
          /\ TypeOK /\ Views
      BY <1>2, LocationsOf DEF IInv
    <2> QED
      BY <1>1, <2>1, ReadersAre, StoreEffect
  <1>5. TypeOK'
    <2>1. pushed' \in [Producers -> 0 .. MaxPushes]
      BY <1>1, MaxPushesAssumption DEF IInv, TypeOK
    <2> QED
      BY <1>1, <1>4, <2>1 DEF IInv, TypeOK, Readers, Stored
  <1>6. /\ Len(memory[sequence(w)]) = FreeAt(w)
        /\ Len(memory'[sequence(w)]) = FreeAt(w) + 1
        /\ memory'[storage(w)] = memory[storage(w)]
        /\ Len(memory[storage(w)]) = FreeAt(w) + 1
        /\ view'[p][storage(w)] >= FreeAt(w) + 1
    <2>1. /\ storage(w) \in Locations /\ storage(w) # sequence(w)
      BY <1>2, LocationsOf
    <2>2. /\ Len(memory[storage(w)]) = FreeAt(w) + 1
          /\ Len(memory[sequence(w)]) = FreeAt(w)
      BY <1>2, <1>3 DEF IsConstructed, Reached, Newest
    <2>3. view[p][storage(w)] >= FreeAt(w) + 1
      BY <1>3 DEF Knows
    <2> QED
      BY <1>4, <2>1, <2>2, <2>3 DEF Stored
  <1>7. Numbers'
    <2>1. ASSUME NEW m \in Nat, sequence(m) = sequence(w)
          PROVE  /\ FreeAt(m) = FreeAt(w) + 1 => w + 1 = m
                 /\ FreeAt(m) + 1 = FreeAt(w) + 1 => w + 1 = m + 1
      <3>1. FreeAt(m) # FreeAt(w) + 1 /\ (FreeAt(m) = FreeAt(w) <=> m = w)
        BY <1>2, <2>1, MessageOfPosition
      <3>2. FreeAt(m) \in Nat
        BY FreeAtIs
      <3> QED
        BY <1>2, <3>1, <3>2
    <2>2. FreeAt(w) + 1 \in Nat
      BY <1>2
    <2> QED
      BY <1>2, <1>4, <1>6, <2>1, <2>2, ReadersAre, SequenceStored
  <1>8. OthersKept(p, w)
    <2>1. \A q \in Producers : q # p => pushed'[q] = pushed[q]
      BY <1>1 DEF IInv, TypeOK
    <2> QED
      BY <1>1, <1>4, <1>5, <2>1, ProducerStores
  <1>9. ~Working(p)' /\ pc'[p] = "idle" /\ write'[p] = w
    BY <1>1 DEF IInv, TypeOK, Working
  <1>10. ProducerOK(p)'
    <2>1. w <= Claimed
      BY <1>2, ClaimedIs
    <2> QED
      BY <1>8, <1>9, <2>1 DEF ProducerOK, OthersKept
  <1>11. Positions'
    <2>1. IsPublished(w)'
      BY <1>6 DEF IsPublished, Reached, Newest
    <2> QED
      BY <1>1, <1>2, <1>8, <2>1 DEF Positions, Window, OthersKept
  <1>12. Fifo'
    <2>1. Value(storage(w)) = reserved[w + 1]
      BY <1>2, <1>6 DEF IInv, Fifo, Newest
    <2>2. ASSUME NEW n \in Len(retired) .. Claimed - 1,
                 Len(memory'[storage(n)]) = FreeAt(n) + 1
          PROVE  memory'[storage(n)][Len(memory'[storage(n)])].value
                   = reserved[n + 1]
      BY <1>6, <1>8, <2>1, <2>2 DEF Value, Newest, OthersKept
    <2> QED
      BY <1>1, <1>8, <2>2 DEF Fifo, Value, Newest, OthersKept
  <1> QED
    BY <1>4, <1>5, <1>7, <1>8, <1>10, <1>11, <1>12
       DEF IInv, Stored, OthersKept

-----------------------------------------------------------------------------
(* The steps of the consumer. *)

LEMMA TryPopKeepsIInv ==
    ASSUME IInv, Capacity >= 2, TryPop
    PROVE  IInv'
  <1> PICK r : r = read
    OBVIOUS
  <1> PICK i \in Visible(Consumer, sequence(r)) :
        /\ Load(Consumer, sequence(r), i, "acquire")
        /\ popping' = (memory[sequence(r)][i].value = r + 1)
    BY DEF TryPop, ConsumerSequenceLoad
  <1>1. /\ ~popping /\ popping' \in BOOLEAN
        /\ UNCHANGED <<pc, write, pushed, read, reserved, retired>>
    BY DEF TryPop, producerVars, history
  <1>2. /\ r \in Nat /\ Claimed \in Nat /\ Len(retired) = r /\ r <= Claimed
        /\ FreeAt(r) \in Nat /\ sequence(r) \in Locations
        /\ storage(r) \in Locations /\ r \in Window
    BY <1>1, ClaimedIs, FreeAtIs, LocationsOf, CapacityAssumption
       DEF IInv, Indices, Window
  <1>3. Consumer \in Readers
    BY DEF Readers
  <1>4. i \in 1 .. Len(memory[sequence(r)]) /\ Len(memory[sequence(r)]) \in Nat
    <2>1. /\ view[Consumer][sequence(r)] \in 1 .. Len(memory[sequence(r)])
          /\ Len(memory[sequence(r)]) \in Nat
      BY <1>2, MessagesAre DEF IInv, Views, Newest
    <2> QED
      BY <2>1 DEF Visible, Newest
  <1>5. /\ memory' = memory /\ view' \in [Readers -> [Locations -> Nat]]
        /\ \A u \in Readers : u # Consumer => view'[u] = view[u]
        /\ view'[Consumer][sequence(r)] >= i
        /\ \A x \in Locations :
             view'[Consumer][x] >= memory[sequence(r)][i].view[x]
        /\ Views'
    BY <1>2, <1>3, LoadEffect DEF IInv
  <1>6. TypeOK'
    BY <1>1, <1>5 DEF IInv, TypeOK, Readers
  <1>7. Claimed' = Claimed /\ Numbers' /\ Fifo' /\ Positions'
    BY <1>1, <1>5
       DEF IInv, Numbers, Fifo, Positions, Newest, Value, Claimed, Working,
           Window, IsFree, IsPublished, IsTaken, Reached
  <1>8. Indices'
    BY <1>1, <1>2, <1>7 DEF IInv, Indices
  <1>9. ASSUME NEW q \in Producers PROVE ProducerOK(q)'
    <2>1. view'[q] = view[q] /\ ProducerOK(q)
      BY <1>5, ReadersAre DEF IInv
    <2>2. Working(q) =>
            /\ write[q] >= Len(retired)
            /\ \A s \in Producers :
                 Working(s)' /\ write'[s] = write[q] => s = q
      BY <1>1, <1>2, HeldPosition DEF Working
    <2> QED
      BY <1>1, <1>2, <1>5, <1>7, <2>1, <2>2, ProducerStays
  <1>10. ConsumerOK'
    <2> SUFFICES ASSUME popping'
                 PROVE  IsPublished(r)' /\ Knows(Consumer, r, 1, 1)'
                          /\ r < Claimed'
      BY <1>1, <1>2 DEF ConsumerOK
    <2>1. i = FreeAt(r) + 1
      BY <1>2, <1>4, NumberTellsMessage
    <2>2. Knows(Consumer, r, 1, 1)'
      <3>1. memory[sequence(r)][i].view[storage(r)] >= i
        BY <1>2, <1>4 DEF IInv, Numbers, Newest
      <3>2. /\ memory[sequence(r)][i].view[storage(r)] \in Nat
            /\ view'[Consumer][storage(r)] \in Nat
            /\ view'[Consumer][storage(r)] >= memory[sequence(r)][i].view[storage(r)]
        <4>1. memory[sequence(r)][i].view \in [Locations -> Nat]
          BY <1>2, <1>4, MessagesAre DEF IInv
        <4> QED
          BY <1>2, <1>3, <1>5, <4>1
      <3>3. view'[Consumer][storage(r)] >= FreeAt(r) + 1
        BY <1>2, <2>1, <3>1, <3>2
      <3> QED
        BY <1>5, <2>1, <3>3 DEF Knows
    <2>3. IsPublished(r) /\ r < Claimed
      <3>1. ~IsFree(r) /\ ~IsConstructed(r)
        BY <1>2, <1>4, <2>1 DEF IsFree, IsConstructed, Reached, Newest
      <3>2. ~\E p \in Producers : Working(p) /\ write[p] = r
        BY <3>1, HeldPosition
      <3>3. \/ r >= Claimed /\ IsFree(r)
            \/ r \in Len(retired) .. Claimed - 1 /\ IsPublished(r)
            \/ r < Len(retired) /\ IsTaken(r)
            \/ \E p \in Producers : Working(p) /\ write[p] = r
        BY <1>2 DEF IInv, Positions
      <3> QED
        BY <1>2, <3>1, <3>2, <3>3
    <2> QED
      BY <1>5, <1>7, <2>2, <2>3 DEF IsPublished, Reached, Newest
  <1> QED
    BY <1>5, <1>6, <1>7, <1>8, <1>9, <1>10 DEF IInv

\* What a store of the consumer to its cell leaves as it is.
ProducersKept(r) ==
    /\ Claimed' = Claimed
    /\ \A q \in Producers : ProducerOK(q)'
    /\ \A q \in Producers : Working(q)' <=> Working(q)
    /\ \A n \in Window : n # r =>
         /\ IsFree(n)' <=> IsFree(n)
         /\ IsPublished(n)' <=> IsPublished(n)
         /\ IsTaken(n)' <=> IsTaken(n)
         /\ memory'[storage(n)] = memory[storage(n)]

LEMMA ConsumerStores ==
    ASSUME IInv, NEW r, r = read, popping,
           NEW l \in {sequence(r), storage(r)}, NEW v, NEW order,
           Stored(Consumer, l, v, order), Len(retired') = r + 1,
           UNCHANGED <<pc, write, pushed, reserved>>
    PROVE  ProducersKept(r)
  <1>1. /\ r \in Nat /\ Claimed \in Nat /\ Len(retired) \in Nat
        /\ r <= Len(retired) /\ Claimed <= r + Capacity /\ r \in Window
    BY ClaimedIs, CapacityAssumption DEF Window
  <1>2. /\ Claimed' = Claimed
        /\ \A n \in Window : n # r =>
             /\ memory'[sequence(n)] = memory[sequence(n)]
             /\ memory'[storage(n)] = memory[storage(n)]
    <2>1. Consumer \in Readers
      BY DEF Readers
    <2> QED
      BY <1>1, <2>1, OtherCells
  <1>3. \A q \in Producers : Working(q)' <=> Working(q)
    BY DEF Working
  <1>4. ASSUME NEW q \in Producers PROVE ProducerOK(q)'
    <2>1. view'[q] = view[q] /\ ProducerOK(q)
      BY ReadersAre DEF IInv, Stored, Readers
    <2>2. ASSUME Working(q)
          PROVE  /\ write[q] \in Window /\ write[q] # r
                 /\ write[q] >= r + 1
                 /\ \A s \in Producers :
                      Working(s)' /\ write'[s] = write[q] => s = q
      <3>1. /\ write[q] \in Window /\ write[q] \in Len(retired) .. Claimed - 1
            /\ \A s \in Producers : Working(s) /\ write[s] = write[q] => s = q
            /\ IsFree(write[q]) \/ IsConstructed(write[q])
        BY <2>2, HeldPosition
      <3>2. write[q] # r
        BY <1>1, <3>1, PopIsElsewhere
      <3>3. write[q] >= r + 1
        BY <1>1, <3>1, <3>2
      <3> QED
        BY <1>3, <3>1, <3>2, <3>3
    <2>3. Claimed' \in Nat /\ Claimed <= Claimed' /\ Len(retired') \in Nat
      BY <1>1, <1>2
    <2>4. Working(q) =>
            /\ memory'[sequence(write[q])] = memory[sequence(write[q])]
            /\ memory'[storage(write[q])] = memory[storage(write[q])]
            /\ write[q] >= Len(retired')
      BY <1>2, <2>2
    <2> QED
      BY <2>1, <2>2, <2>3, <2>4, ProducerStays
  <1>5. ASSUME NEW n \in Window, n # r
        PROVE  /\ IsFree(n)' <=> IsFree(n)
               /\ IsPublished(n)' <=> IsPublished(n)
               /\ IsTaken(n)' <=> IsTaken(n)
    BY <1>2, <1>5 DEF IsFree, IsPublished, IsTaken, Reached, Newest
  <1> QED
    BY <1>2, <1>3, <1>4, <1>5 DEF ProducersKept

LEMMA TakeKeepsIInv ==
    ASSUME IInv, Take
    PROVE  IInv'
  <1> PICK r : r = read
    OBVIOUS
  <1>1. /\ popping /\ Len(retired) = r
        /\ Store(Consumer, storage(r), Raw, "plain")
        /\ retired' = Append(retired, Value(storage(r)))
        /\ UNCHANGED <<pc, write, pushed, popping, read, reserved>>
    BY DEF Take, producerVars, consumerVars
  <1>2. /\ r \in Nat /\ Claimed \in Nat /\ Len(reserved) = Claimed
        /\ FreeAt(r) \in Nat /\ Claimed <= r + Capacity /\ r \in Window
        /\ sequence(r) \in Locations /\ storage(r) \in Locations
        /\ sequence(r) # storage(r) /\ Consumer \in Readers
        /\ Raw \in Contents(storage(r))
    <2>1. /\ r \in Nat /\ Claimed \in Nat /\ Len(reserved) = Claimed
          /\ Claimed <= r + Capacity /\ Len(retired) <= Claimed
      BY ClaimedIs
    <2> QED
      BY <2>1, FreeAtIs, LocationsOf, CapacityAssumption, SMTT(30) DEF Window, Readers
  <1>3. IsPublished(r) /\ Knows(Consumer, r, 1, 1) /\ r < Claimed
    BY <1>1 DEF IInv, ConsumerOK
  <1>4. Stored(Consumer, storage(r), Raw, "plain")
    BY <1>1, <1>2, StoreEffect DEF IInv
  <1>5. Value(storage(r)) = reserved[r + 1] /\ reserved[r + 1] \in Values
    <2>1. r \in Len(retired) .. Claimed - 1 /\ r + 1 \in 1 .. Len(reserved)
      BY <1>1, <1>2, <1>3
    <2>2. reserved \in Seq(Values)
      BY DEF IInv, TypeOK
    <2>3. Newest(storage(r)) = FreeAt(r) + 1
      BY <1>3 DEF IsPublished, Reached
    <2> QED
      BY <2>1, <2>2, <2>3 DEF IInv, Fifo
  <1>6. /\ retired' \in Seq(Values) /\ Len(retired') = r + 1
        /\ retired'[r + 1] = reserved[r + 1]
        /\ \A i \in 1 .. r : retired'[i] = retired[i]
    <2>1. retired \in Seq(Values)
      BY DEF IInv, TypeOK
    <2> QED
      BY <1>1, <1>2, <1>5, <2>1
  <1>7. TypeOK'
    BY <1>1, <1>4, <1>6 DEF IInv, TypeOK, Readers, Stored
  <1>8. Numbers'
    BY <1>2, <1>4, StorageStored
  <1>9. ProducersKept(r)
    BY <1>1, <1>4, <1>6, ConsumerStores
  <1>10. Indices'
    BY <1>1, <1>2, <1>3, <1>6, <1>9 DEF IInv, Indices, ProducersKept
  <1>11. IsTaken(r)' /\ Knows(Consumer, r, 1, 2)'
    <2>1. /\ Len(memory'[storage(r)]) = FreeAt(r) + 2
          /\ Len(memory'[sequence(r)]) = FreeAt(r) + 1
          /\ view'[Consumer][storage(r)] = FreeAt(r) + 2
          /\ view'[Consumer][sequence(r)] >= FreeAt(r) + 1
      BY <1>2, <1>3, <1>4 DEF IsPublished, Reached, Newest, Knows, Stored
    <2> QED
      BY <1>2, <2>1 DEF IsTaken, Reached, Newest, Knows
  <1>12. ConsumerOK'
    BY <1>1, <1>2, <1>6, <1>11
       DEF ConsumerOK, IsTaken, Reached, Newest, Knows
  <1>13. Positions'
    <2>1. ASSUME NEW n \in Window
          PROVE  \/ n >= Claimed' /\ IsFree(n)'
                 \/ n \in Len(retired') .. Claimed' - 1 /\ IsPublished(n)'
                 \/ n < Len(retired') /\ IsTaken(n)'
                 \/ \E p \in Producers : Working(p)' /\ write'[p] = n
      <3>1. CASE n = r
        BY <1>2, <1>6, <1>11, <3>1
      <3>2. CASE n # r
        <4>1. n \in Nat /\ n >= r + 1
          BY <1>2, <3>2 DEF Window
        <4>2. \/ n >= Claimed /\ IsFree(n)
              \/ n \in Len(retired) .. Claimed - 1 /\ IsPublished(n)
              \/ \E p \in Producers : Working(p) /\ write[p] = n
          BY <1>1, <1>2, <4>1 DEF IInv, Positions
        <4> QED
          BY <1>1, <1>2, <1>6, <1>9, <3>2, <4>1, <4>2 DEF ProducersKept
      <3> QED
        BY <3>1, <3>2
    <2> QED
      BY <1>1, <2>1 DEF Positions, Window
  <1>14. Fifo'
    <2>1. ASSUME NEW n \in r + 1 .. Claimed - 1,
                 Len(memory'[storage(n)]) = FreeAt(n) + 1
          PROVE  memory'[storage(n)][Len(memory'[storage(n)])].value
                   = reserved[n + 1]
      <3>1. n \in Window /\ n # r /\ n \in Len(retired) .. Claimed - 1
        BY <1>1, <1>2, CapacityAssumption DEF Window
      <3>2. memory'[storage(n)] = memory[storage(n)]
        BY <1>9, <3>1 DEF ProducersKept
      <3> QED
        BY <2>1, <3>1, <3>2 DEF IInv, Fifo, Value, Newest
    <2>2. \A i \in 1 .. r + 1 : retired'[i] = reserved[i]
      <3>1. \A i \in 1 .. r : retired[i] = reserved[i]
        BY <1>1 DEF IInv, Fifo
      <3> QED
        BY <1>2, <1>6, <3>1
    <2> QED
      BY <1>1, <1>6, <1>9, <2>1, <2>2 DEF Fifo, Value, Newest, ProducersKept
  <1> QED
    BY <1>4, <1>7, <1>8, <1>9, <1>10, <1>12, <1>13, <1>14
       DEF IInv, Stored, ProducersKept

LEMMA ReleaseKeepsIInv ==
    ASSUME IInv, Release
    PROVE  IInv'
  <1> PICK r : r = read
    OBVIOUS
  <1>1. /\ popping /\ Len(retired) = r + 1
        /\ Store(Consumer, sequence(r), r + Capacity, "release")
        /\ read' = r + 1 /\ popping' = FALSE
        /\ UNCHANGED <<pc, write, pushed, reserved, retired>>
    BY DEF Release, producerVars, history, ConsumerSequenceStore
  <1>2. /\ r \in Nat /\ Claimed \in Nat /\ Len(reserved) = Claimed
        /\ FreeAt(r) \in Nat /\ Claimed <= r + Capacity /\ r \in Window
        /\ Len(retired) <= Claimed
        /\ sequence(r) \in Locations /\ storage(r) \in Locations
        /\ sequence(r) # storage(r) /\ Consumer \in Readers
        /\ r + Capacity \in Nat /\ Contents(sequence(r)) = Nat
    <2>1. /\ r \in Nat /\ Claimed \in Nat /\ Len(reserved) = Claimed
          /\ Claimed <= r + Capacity /\ Len(retired) <= Claimed
      BY ClaimedIs
    <2> QED
      BY <2>1, FreeAtIs, LocationsOf, CapacityAssumption, SMTT(30) DEF Window, Readers
  <1>3. IsTaken(r) /\ Knows(Consumer, r, 1, 2)
    BY <1>1, <1>2 DEF IInv, ConsumerOK
  <1>4. Stored(Consumer, sequence(r), r + Capacity, "release")
    BY <1>1, <1>2, StoreEffect DEF IInv
  <1>5. TypeOK'
    <2>1. read' \in Nat
      BY <1>1, <1>2
    <2>2. popping' \in BOOLEAN
      BY <1>1, Zenon
    <2> QED
      BY <1>1, <1>4, <2>1, <2>2 DEF IInv, TypeOK, Readers, Stored
  <1>6. ProducersKept(r)
    BY <1>1, <1>4, ConsumerStores
  <1>7. /\ Len(memory[sequence(r)]) + 1 = FreeAt(r) + 2
        /\ Len(memory'[sequence(r)]) = FreeAt(r) + 2
        /\ Len(memory'[storage(r)]) = FreeAt(r) + 2
        /\ view'[Consumer][storage(r)] >= FreeAt(r) + 2
    BY <1>2, <1>3, <1>4 DEF IsTaken, Reached, Newest, Knows, Stored
  <1>8. /\ FreeAt(r + Capacity) = FreeAt(r) + 2
        /\ sequence(r + Capacity) = sequence(r)
        /\ storage(r + Capacity) = storage(r)
    BY <1>2, FreeInNextRound
  <1>9. Numbers'
    <2>1. ASSUME NEW m \in Nat, sequence(m) = sequence(r)
          PROVE  /\ FreeAt(m) = FreeAt(r) + 2 => r + Capacity = m
                 /\ FreeAt(m) + 1 = FreeAt(r) + 2 => r + Capacity = m + 1
      <3>1. FreeAt(m) # FreeAt(r) + 1 /\ FreeAt(m) \in Nat
        BY <1>2, <2>1, MessageOfPosition, FreeAtIs
      <3>2. FreeAt(m) = FreeAt(r + Capacity) <=> m = r + Capacity
        BY <1>2, <1>8, <2>1, MessageOfPosition
      <3> QED
        BY <1>2, <1>8, <3>1, <3>2
    <2>2. FreeAt(r) + 2 \in Nat
      BY <1>2
    <2> QED
      BY <1>2, <1>4, <1>7, <2>1, <2>2, SequenceStored
  <1>10. Indices'
    BY <1>1, <1>2, <1>6, CapacityAssumption DEF IInv, Indices, ProducersKept
  <1>11. ConsumerOK'
    BY <1>1 DEF ConsumerOK
  <1>12. Positions'
    <2>1. ASSUME NEW n \in r + 1 .. r + Capacity
          PROVE  \/ n >= Claimed' /\ IsFree(n)'
                 \/ n \in Len(retired') .. Claimed' - 1 /\ IsPublished(n)'
                 \/ n < Len(retired') /\ IsTaken(n)'
                 \/ \E p \in Producers : Working(p)' /\ write'[p] = n
      <3>1. CASE n = r + Capacity
        <4>1. IsFree(r + Capacity)'
          BY <1>2, <1>7, <1>8 DEF IsFree, Reached, Newest
        <4> QED
          BY <1>2, <1>6, <3>1, <4>1 DEF ProducersKept
      <3>2. CASE n # r + Capacity
        <4>1. n \in Window /\ n # r
          BY <1>2, <3>2, CapacityAssumption DEF Window
        <4>2. \/ n >= Claimed /\ IsFree(n)
              \/ n \in Len(retired) .. Claimed - 1 /\ IsPublished(n)
              \/ n < Len(retired) /\ IsTaken(n)
              \/ \E p \in Producers : Working(p) /\ write[p] = n
          BY <4>1 DEF IInv, Positions
        <4> QED
          BY <1>1, <1>6, <4>1, <4>2 DEF ProducersKept
      <3> QED
        BY <3>1, <3>2
    <2>2. (r + 1) + Capacity - 1 = r + Capacity
      BY <1>2, CapacityAssumption
    <2> QED
      BY <1>1, <2>1, <2>2 DEF Positions, Window
  <1>13. Fifo'
    <2>1. ASSUME NEW n \in r + 1 .. Claimed - 1,
                 Len(memory'[storage(n)]) = FreeAt(n) + 1
          PROVE  memory'[storage(n)][Len(memory'[storage(n)])].value
                   = reserved[n + 1]
      <3>1. n \in Window /\ n # r /\ n \in Len(retired) .. Claimed - 1
        BY <1>1, <1>2, CapacityAssumption DEF Window
      <3>2. memory'[storage(n)] = memory[storage(n)]
        BY <1>6, <3>1 DEF ProducersKept
      <3> QED
        BY <2>1, <3>1, <3>2 DEF IInv, Fifo, Value, Newest
    <2>2. \A i \in 1 .. r + 1 : retired[i] = reserved[i]
      BY <1>1 DEF IInv, Fifo
    <2> QED
      BY <1>1, <1>6, <2>1, <2>2 DEF Fifo, Value, Newest, ProducersKept
  <1> QED
    BY <1>4, <1>5, <1>6, <1>9, <1>10, <1>11, <1>12, <1>13
       DEF IInv, Stored, ProducersKept

-----------------------------------------------------------------------------
(* The theorems. *)

LEMMA InitIInv == Init => IInv
  <1> SUFFICES ASSUME Init PROVE IInv
    OBVIOUS
  <1>1. /\ DOMAIN memory = Locations
        /\ \A l \in Locations : \E v \in Contents(l) :
             memory[l] = <<[value |-> v, view |-> Nothing]>>
        /\ memory[write_index][1].value = 0
        /\ \A n \in Nat : memory[sequence(n)][1].value = SlotOf(n)
    <2> DEFINE start(l) == CASE l = write_index -> 0
                             [] l[1] = "sequence" -> l[2]
                             [] OTHER -> Raw
    <2>1. memory = [l \in Locations |-> <<[value |-> start(l), view |-> Nothing]>>]
      BY DEF Init, StartWith
    <2>2. \A l : l = write_index => start(l) = 0
      <3>1. write_index[1] # "sequence"
        BY DEF write_index
      <3> QED
        BY <3>1
    <2>5. \A l : l # write_index /\ l[1] = "sequence" => start(l) = l[2]
      OBVIOUS
    <2>6. \A l : l # write_index /\ l[1] # "sequence" => start(l) = Raw
      OBVIOUS
    <2> HIDE DEF start
    <2>3. ASSUME NEW n \in Nat PROVE start(sequence(n)) = SlotOf(n)
      <3>1. /\ sequence(n) # write_index /\ sequence(n)[1] = "sequence"
            /\ sequence(n)[2] = SlotOf(n)
        BY LocationsOf DEF sequence
      <3> QED
        BY <2>5, <3>1
    <2>4. ASSUME NEW l \in Locations PROVE start(l) \in Contents(l)
      <3>1. l # write_index /\ l[1] = "sequence" => l[2] \in Nat
        BY DEF Locations, Cells
      <3>2. CASE l = write_index
        BY <2>2, <3>2 DEF Contents
      <3>3. CASE l # write_index /\ l[1] = "sequence"
        BY <2>5, <3>1, <3>3 DEF Contents
      <3>4. CASE l # write_index /\ l[1] # "sequence"
        BY <2>6, <3>4 DEF Contents
      <3> QED
        BY <3>2, <3>3, <3>4
    <2> QED
      BY <2>1, <2>2, <2>3, <2>4, LocationsOf
  <1>2. \A l \in Locations : Len(memory[l]) = 1 /\ memory[l][1].view = Nothing
    <2> SUFFICES ASSUME NEW l \in Locations
                 PROVE  Len(memory[l]) = 1 /\ memory[l][1].view = Nothing
      OBVIOUS
    <2>1. PICK v : memory[l] = <<[value |-> v, view |-> Nothing]>>
      BY <1>1
    <2> QED
      BY <2>1
  <1>3. /\ Nothing \in [Locations -> Nat] /\ \A l \in Locations : Nothing[l] = 1
        /\ view = [t \in Readers |-> Nothing]
    BY DEF Nothing, Init, StartWith, Readers
  <1>4. /\ write_index \in Locations /\ Claimed = 0
        /\ \A n \in Nat : sequence(n) \in Locations /\ storage(n) \in Locations
    BY <1>1, <1>2, LocationsOf DEF Claimed, Value, Newest
  <1>5. TypeOK
    <2>1. ASSUME NEW l \in Locations
          PROVE  memory[l] \in
                   Seq([value : Contents(l), view : [Locations -> Nat]]) \ {<<>>}
      <3> DEFINE Message == [value : Contents(l), view : [Locations -> Nat]]
      <3>1. PICK v \in Contents(l) :
              memory[l] = <<[value |-> v, view |-> Nothing]>>
        BY <1>1
      <3>2. [value |-> v, view |-> Nothing] \in Message
        BY <1>3
      <3>3. \A m \in Message : <<m>> \in Seq(Message) \ {<<>>}
        <4> HIDE DEF Message
        <4> QED
          OBVIOUS
      <3> QED
        BY <3>1, <3>2, <3>3
    <2>2. popping \in BOOLEAN
      BY Zenon DEF Init
    <2> QED
      BY <1>1, <1>3, <2>1, <2>2, MaxPushesAssumption DEF Init, TypeOK, Readers
  <1>6. Views
    BY <1>2, <1>3 DEF Views, Newest, Readers
  <1>7. ASSUME NEW n \in Nat
        PROVE  /\ FreeAt(n) >= 1 /\ FreeAt(n) \in Nat
               /\ FreeAt(n) = 1 => n = SlotOf(n)
               /\ n < Capacity => FreeAt(n) = 1
    <2>1. n \div Capacity \in Nat /\ n = Capacity * (n \div Capacity) + SlotOf(n)
      BY CapacityAssumption, DivMod DEF SlotOf
    <2>2. n < Capacity => n \div Capacity = 0
      <3>1. n = Capacity * 0 + n
        BY CapacityAssumption
      <3> QED
        BY <3>1, CapacityAssumption, DivModUnique
    <2>3. n \div Capacity = 0 => n = SlotOf(n)
      <3>1. \A s : n = Capacity * 0 + s /\ s \in Nat => n = s
        BY CapacityAssumption
      <3>2. SlotOf(n) \in Nat
        BY CapacityAssumption, DivMod DEF SlotOf
      <3> QED
        BY <2>1, <3>1, <3>2
    <2> QED
      BY <2>1, <2>2, <2>3 DEF FreeAt
  <1>8. Numbers
    <2>1. \A i \in 1 .. Newest(write_index) : memory[write_index][i].value = i - 1
      BY <1>1, <1>2, <1>4 DEF Newest
    <2>2. ASSUME NEW n \in Nat
          PROVE  /\ FreeAt(n) <= 1 => memory[sequence(n)][FreeAt(n)].value = n
                 /\ ~(FreeAt(n) + 1 <= 1)
                 /\ \A i \in 1 .. 1 :
                      /\ memory[sequence(n)][i].view[sequence(n)] >= i
                      /\ memory[sequence(n)][i].view[storage(n)] >= i
      <3>1. FreeAt(n) <= 1 => FreeAt(n) = 1 /\ SlotOf(n) = n
        BY <1>7
      <3> QED
        BY <1>1, <1>2, <1>3, <1>4, <1>7, <3>1
    <2> QED
      BY <1>2, <1>4, <2>1, <2>2 DEF Numbers, Newest
  <1>9. Indices
    BY <1>4, CapacityAssumption DEF Init, Indices
  <1>10. ConsumerOK
    BY DEF Init, ConsumerOK
  <1>11. Positions
    <2>1. ASSUME NEW n \in Window
          PROVE  n >= Claimed /\ IsFree(n)
      <3>1. n \in Nat /\ n < Capacity
        BY CapacityAssumption DEF Init, Window
      <3> QED
        <4>1. FreeAt(n) = 1 /\ FreeAt(n) + 0 = 1 /\ n >= 0
          BY <1>7, <3>1
        <4>2. Len(memory[sequence(n)]) = 1 /\ Len(memory[storage(n)]) = 1
          BY <1>2, <1>4, <3>1
        <4> QED
          BY <1>4, <4>1, <4>2 DEF IsFree, Reached, Newest
    <2> QED
      BY <2>1 DEF Positions
  <1>12. Fifo
    BY <1>4 DEF Init, Fifo
  <1>13. \A p \in Producers : ProducerOK(p)
    <2> SUFFICES ASSUME NEW p \in Producers PROVE ProducerOK(p)
      OBVIOUS
    <2>1. pc[p] = "idle" /\ write[p] = 0
      BY DEF Init
    <2> QED
      BY <1>4, <2>1 DEF ProducerOK, Working
  <1> QED
    BY <1>5, <1>6, <1>8, <1>9, <1>10, <1>11, <1>12, <1>13 DEF IInv

LEMMA NextKeepsIInv ==
    ASSUME Capacity >= 2, IInv, [Next]_vars
    PROVE  IInv'
  <1>1. ASSUME NEW p \in Producers,
               LoadWrite(p) \/ LoadSequence(p) \/ Claim(p) \/ Construct(p)
                 \/ Publish(p)
        PROVE  IInv'
    BY <1>1, LoadWriteKeepsIInv, LoadSequenceKeepsIInv, ClaimKeepsIInv,
       ConstructKeepsIInv, PublishKeepsIInv
  <1>2. CASE TryPop \/ Take \/ Release
    BY <1>2, TryPopKeepsIInv, TakeKeepsIInv, ReleaseKeepsIInv
  <1>3. CASE UNCHANGED vars
    <2>1. UNCHANGED <<memory, view, pc, write, pushed, popping, read, reserved,
                      retired>>
      BY <1>3 DEF vars, producerVars, consumerVars, history
    <2>2. TypeOK' /\ Views' /\ Numbers' /\ Indices' /\ Fifo'
      BY <2>1 DEF IInv, TypeOK, Views, Numbers, Indices, Fifo, Claimed, Value,
                  Newest
    <2>3. ConsumerOK' /\ Positions'
      BY <2>1 DEF IInv, ConsumerOK, Positions, Window, IsFree, IsPublished,
                  IsTaken, Reached, Knows, Claimed, Value, Newest, Working
    <2>4. ASSUME NEW p \in Producers PROVE ProducerOK(p)'
      BY <2>1 DEF IInv, ProducerOK, IsFree, IsConstructed, Reached, Knows,
                  Claimed, Value, Newest, Working, ValueOf
    <2> QED
      BY <2>2, <2>3, <2>4 DEF IInv
  <1> QED
    BY <1>1, <1>2, <1>3 DEF Next

\* The inductive invariant holds in every reachable state: messages, views and
\* program counters fit together at every position.
THEOREM InvariantHolds ==
    ASSUME Capacity >= 2
    PROVE  Spec => []IInv
  <1>1. IInv /\ [Next]_vars => IInv'
    BY NextKeepsIInv
  <1> QED
    BY <1>1, InitIInv, PTL DEF Spec

\* The acquire and release accesses of the sequences suffice for any number of
\* producers and pushes and every Capacity >= 2: two accesses to the storage of
\* a cell, or two stores to its sequence, are never unordered.
THEOREM NoDataRace ==
    ASSUME Capacity >= 2
    PROVE  Spec => []AccessesOrdered
  <1>1. IInv => AccessesOrdered
    <2> SUFFICES ASSUME IInv PROVE AccessesOrdered
      OBVIOUS
    <2>1. ASSUME NEW t \in Readers, NEW x \in Locations, NEW k,
                 view[t][x] >= k, Len(memory[x]) = k
          PROVE  UpToDate(t, x)
      <3>1. view[t][x] \in 1 .. Len(memory[x]) /\ Len(memory[x]) \in Nat
        BY MessagesAre DEF IInv, Views, Newest, Readers
      <3> QED
        BY <2>1, <3>1 DEF UpToDate, Newest
    <2>2. ASSUME NEW p \in Producers
          PROVE  /\ pc[p] = "construct" => UpToDate(p, storage(write[p]))
                 /\ pc[p] = "publish" => UpToDate(p, sequence(write[p]))
      <3>1. /\ storage(write[p]) \in Locations /\ sequence(write[p]) \in Locations
        BY LocationsOf DEF IInv, TypeOK
      <3>2. ProducerOK(p)
        BY DEF IInv
      <3> QED
        BY <2>1, <3>1, <3>2, ReadersAre
           DEF ProducerOK, Knows, IsFree, IsConstructed, Reached, Newest
    <2>3. ASSUME popping
          PROVE  /\ UpToDate(Consumer, storage(read))
                 /\ UpToDate(Consumer, sequence(read))
      <3>1. /\ storage(read) \in Locations /\ sequence(read) \in Locations
            /\ Consumer \in Readers
        BY LocationsOf DEF IInv, TypeOK, Readers
      <3>2. \/ IsPublished(read) /\ Knows(Consumer, read, 1, 1)
            \/ IsTaken(read) /\ Knows(Consumer, read, 1, 2)
        BY <2>3 DEF IInv, ConsumerOK, Indices
      <3> QED
        BY <2>1, <3>1, <3>2 DEF IsPublished, IsTaken, Reached, Knows, Newest
    <2> QED
      BY <2>2, <2>3 DEF AccessesOrdered, IInv
  <1> QED
    BY <1>1, InvariantHolds, PTL

-----------------------------------------------------------------------------
(* MpscMemory implements ReservationFifo: the exchange of write_index        *)
(* reserves a place, the store of the sequence completes it, the destruction *)
(* of the object takes it; no load and no other store touches the places.    *)

PlaceSet == [value : Values, complete : BOOLEAN]

Place(n) == [value |-> reserved[n + 1],
             complete |-> Value(sequence(n)) = n + 1]

LEMMA RemainingPositions ==
    ASSUME IInv, NEW n \in Len(retired) .. Claimed - 1
    PROVE  n \in Nat /\ n \in Window
  <1>1. /\ Claimed \in Nat /\ read \in Nat /\ Len(retired) \in Nat
        /\ read <= Len(retired) /\ Claimed <= read + Capacity
    BY ClaimedIs
  <1> QED
    BY <1>1, CapacityAssumption DEF Window

\* What the places are.
PlacesOK ==
    /\ Places \in Seq(PlaceSet)
    /\ Len(Places) \in Nat /\ Len(Places) = Claimed - Len(retired)
    /\ \A i \in 1 .. Len(Places) : Places[i] = Place(Len(retired) + i - 1)

LEMMA PlacesAre == ASSUME IInv PROVE PlacesOK
  <1> DEFINE size == Claimed - Len(retired)
  <1>1. /\ size \in Nat /\ Len(retired) \in Nat /\ Claimed \in Nat
        /\ Len(reserved) = Claimed
    BY ClaimedIs
  <1>2. Places = [i \in 1 .. size |-> Place(Len(retired) + i - 1)]
    BY DEF Places, Place, Claimed
  <1>3. \A i \in 1 .. size : Place(Len(retired) + i - 1) \in PlaceSet
    <2> TAKE i \in 1 .. size
    <2>1. Len(retired) + i - 1 + 1 \in 1 .. Len(reserved)
      BY <1>1
    <2>2. reserved[Len(retired) + i - 1 + 1] \in Values
      BY <2>1 DEF IInv, TypeOK
    <2> QED
      BY <2>2 DEF Place, PlaceSet
  <1> HIDE DEF size
  <1>4. Places \in [1 .. size -> PlaceSet]
    BY <1>2, <1>3
  <1>5. Places \in Seq(PlaceSet) /\ Len(Places) = size
    BY <1>1, <1>4
  <1> QED
    BY <1>1, <1>2, <1>5 DEF size, PlacesOK

\* The same after a step.
ValueNext(l) == memory'[l][Len(memory'[l])].value

PlaceNext(n) == [value |-> reserved'[n + 1],
                 complete |-> ValueNext(sequence(n)) = n + 1]

PlacesOKNext ==
    /\ Places' \in Seq(PlaceSet)
    /\ Len(Places') \in Nat /\ Len(Places') = Claimed' - Len(retired')
    /\ \A i \in 1 .. Len(Places') :
         Places'[i] = PlaceNext(Len(retired') + i - 1)

LEMMA PlacesAreNext == IInv' => PlacesOKNext
  <1>1. IInv' => PlacesOK'
    BY PlacesAre, PTL
  <1>2. PlacesOK' => PlacesOKNext
    BY DEF PlacesOK, PlacesOKNext, PlaceSet, Values, Place, PlaceNext,
           ValueNext, Value, Newest, sequence, SlotOf
  <1> QED
    BY <1>1, <1>2

LEMMA InitPlaces == Init => Promise!Init
  <1> SUFFICES ASSUME Init PROVE Promise!Init
    OBVIOUS
  <1>1. IInv
    BY InitIInv
  <1>2. Claimed = 0 /\ Len(retired) = 0
    <2>1. Len(reserved) = 0 /\ Len(retired) = 0
      BY DEF Init
    <2> QED
      BY <1>1, <2>1, ClaimedIs
  <1>3. Len(Places) = 0 /\ Places \in Seq(PlaceSet)
    BY <1>1, <1>2, PlacesAre DEF PlacesOK
  <1>4. Places = <<>>
    BY <1>3
  <1> QED
    BY <1>4 DEF Init, Promise!Init

\* The newest values after a store.
LEMMA NewestAfterStore ==
    ASSUME TypeOK, NEW t, NEW l \in Locations, NEW v, NEW order,
           Store(t, l, v, order)
    PROVE  /\ ValueNext(l) = v
           /\ \A x \in Locations : x # l => memory'[x] = memory[x]
  <1> DEFINE own == [view[t] EXCEPT ![l] = Newest(l) + 1]
  <1> PICK m : m = [value |-> v,
                    view |-> IF order = "release" THEN own ELSE Nothing]
    OBVIOUS
  <1>0. m.value = v /\ memory' = [memory EXCEPT ![l] = Append(memory[l], m)]
    BY DEF Store
  <1> HIDE DEF own
  <1>1. memory[l] \in Seq([value : Contents(l), view : [Locations -> Nat]])
    BY MessagesAre
  <1>2. memory'[l] = Append(memory[l], m)
    BY <1>0 DEF TypeOK
  <1>3. Len(memory'[l]) = Len(memory[l]) + 1 /\ memory'[l][Len(memory[l]) + 1] = m
    <2> PICK s : s = memory[l]
      OBVIOUS
    <2> PICK S : s \in Seq(S)
      BY <1>1
    <2>1. /\ Len(Append(s, m)) = Len(s) + 1
          /\ Append(s, m)[Len(s) + 1] = m
      OBVIOUS
    <2> QED
      BY <1>2, <2>1
  <1> QED
    BY <1>0, <1>3 DEF ValueNext, TypeOK

\* A step that leaves the claims, the values that have left and the sequences
\* of the remaining positions is a stutter of the promise.
LEMMA Stutters ==
    ASSUME IInv, IInv', UNCHANGED <<reserved, retired>>,
           memory'[write_index] = memory[write_index],
           \A n \in Len(retired) .. Claimed - 1 :
             memory'[sequence(n)] = memory[sequence(n)]
    PROVE  UNCHANGED <<Places, retired>>
  <1>1. PlacesOK /\ PlacesOKNext /\ Claimed' = Claimed
    BY PlacesAre, PlacesAreNext DEF Claimed, Value, Newest
  <1>2. Len(Places') = Len(Places) /\ Len(retired) \in Nat /\ Claimed \in Nat
    BY <1>1, ClaimedIs DEF PlacesOK, PlacesOKNext
  <1>3. ASSUME NEW i \in 1 .. Len(Places)
        PROVE  Places'[i] = Places[i]
    <2> PICK n : n = Len(retired) + i - 1
      OBVIOUS
    <2>1. n \in Len(retired) .. Claimed - 1
      BY <1>1, <1>2 DEF PlacesOK
    <2>2. PlaceNext(n) = Place(n)
      BY <2>1 DEF Place, PlaceNext, ValueNext, Value, Newest
    <2>3. Places[i] = Place(n) /\ Places'[i] = PlaceNext(n)
      BY <1>1, <1>2 DEF PlacesOK, PlacesOKNext
    <2> QED
      BY <2>2, <2>3
  <1>4. Places \in Seq(PlaceSet) /\ Places' \in Seq(PlaceSet)
    BY <1>1 DEF PlacesOK, PlacesOKNext
  <1> QED
    BY <1>2, <1>3, <1>4

\* A cell that is free for n has the number n, not n + 1.
LEMMA NumberOfFree ==
    ASSUME IInv, NEW n \in Nat, Newest(sequence(n)) = FreeAt(n)
    PROVE  (Value(sequence(n)) = n + 1) = FALSE
  <1>1. Value(sequence(n)) = n
    BY FreeAtIs DEF IInv, Numbers, Value
  <1> QED
    BY <1>1

LEMMA ClaimReserves ==
    ASSUME IInv, IInv', NEW p \in Producers, Claim(p)
    PROVE  Promise!Next
  <1> PICK w : w = Claimed
    OBVIOUS
  <1> PICK v : v = ValueOf(p)
    OBVIOUS
  <1> DEFINE new == [value |-> v, complete |-> FALSE]
  <1>1. /\ pc[p] = "cas" /\ write[p] = w
        /\ Store(p, write_index, w + 1, Relaxed)
        /\ reserved' = Append(reserved, v) /\ retired' = retired
        /\ pushed[p] < MaxPushes
    BY DEF Claim, MayClaim, Claimed, IInv, ProducerOK
  <1>2. v \in Values /\ w \in Window /\ IsFree(w)
    BY <1>1, ValueOfIs, ClaimedCellIsFree
  <1>3. /\ w \in Nat /\ Len(reserved) = w /\ reserved \in Seq(Values)
        /\ Len(retired) \in Nat /\ read \in Nat /\ read <= Len(retired)
        /\ Len(retired) <= w /\ w < read + Capacity
    <2>1. /\ w \in Nat /\ Len(reserved) = w /\ reserved \in Seq(Values)
          /\ Len(retired) \in Nat /\ read \in Nat /\ read <= Len(retired)
          /\ Len(retired) <= w
      BY ClaimedIs DEF IInv, TypeOK
    <2> QED
      BY <1>2, <2>1, CapacityAssumption DEF Window
  <1>4. \A n \in Nat : memory'[sequence(n)] = memory[sequence(n)]
    BY <1>1, LocationsOf, NewestAfterStore DEF IInv
  <1>5. Claimed' = w + 1
    <2>1. ValueNext(write_index) = w + 1
      BY <1>1, <1>3, LocationsOf, NewestAfterStore DEF IInv
    <2> QED
      BY <2>1 DEF Claimed, ValueNext, Value, Newest
  <1>6. PlacesOK /\ PlacesOKNext
    BY PlacesAre, PlacesAreNext
  <1>7. /\ Len(Places) \in Nat /\ Len(Places) = w - Len(retired)
        /\ Len(Places') = Len(Places) + 1 /\ Len(Places) < Capacity
    BY <1>1, <1>3, <1>5, <1>6, CapacityAssumption DEF PlacesOK, PlacesOKNext
  <1>8. PlaceNext(w) = new
    <2>1. Newest(sequence(w)) = FreeAt(w)
      BY <1>2, <1>3, FreeAtIs DEF IsFree, Reached
    <2>2. (Value(sequence(w)) = w + 1) = FALSE
      BY <1>3, <2>1, NumberOfFree
    <2>3. ValueNext(sequence(w)) = Value(sequence(w))
      BY <1>3, <1>4 DEF ValueNext, Value, Newest
    <2>4. reserved'[w + 1] = v
      BY <1>1, <1>2, <1>3
    <2> QED
      BY <2>2, <2>3, <2>4, Zenon DEF PlaceNext
  <1>9. \A n \in 0 .. w - 1 : PlaceNext(n) = Place(n)
    <2> TAKE n \in 0 .. w - 1
    <2>1. reserved'[n + 1] = reserved[n + 1] /\ n \in Nat
      BY <1>1, <1>2, <1>3
    <2>2. ValueNext(sequence(n)) = Value(sequence(n))
      BY <1>4, <2>1 DEF ValueNext, Value, Newest
    <2> QED
      BY <2>1, <2>2 DEF Place, PlaceNext
  <1>10. Places' = Append(Places, new)
    <2>1. ASSUME NEW i \in 1 .. Len(Places)
          PROVE  Places'[i] = Places[i]
      <3>1. Len(retired) + i - 1 \in 0 .. w - 1 /\ i \in 1 .. Len(Places')
        BY <1>3, <1>7
      <3>2. /\ Places[i] = Place(Len(retired) + i - 1)
            /\ Places'[i] = PlaceNext(Len(retired) + i - 1)
        BY <1>1, <1>6, <3>1 DEF PlacesOK, PlacesOKNext
      <3> QED
        BY <1>9, <3>1, <3>2
    <2>2. Places'[Len(Places) + 1] = new
      <3>1. /\ Len(retired) + (Len(Places) + 1) - 1 = w
            /\ Len(Places) + 1 \in 1 .. Len(Places')
        BY <1>3, <1>7
      <3>2. Places'[Len(Places) + 1] =
              PlaceNext(Len(retired) + (Len(Places) + 1) - 1)
        BY <1>1, <1>6, <3>1 DEF PlacesOKNext
      <3> QED
        BY <1>8, <3>1, <3>2
    <2>3. new \in PlaceSet /\ Places \in Seq(PlaceSet) /\ Places' \in Seq(PlaceSet)
      BY <1>2, <1>6 DEF PlaceSet, PlacesOK, PlacesOKNext
    <2> HIDE DEF new
    <2> QED
      BY <1>7, <2>1, <2>2, <2>3
  <1> QED
    BY <1>1, <1>2, <1>7, <1>10 DEF Promise!Next, Promise!Reserve

\* A place in which one field is replaced.
LEMMA CompletedPlace ==
    ASSUME NEW v, NEW b, NEW t
    PROVE  [[value |-> v, complete |-> b] EXCEPT !.complete = t]
             = [value |-> v, complete |-> t]
  BY SMT

LEMMA PublishCompletes ==
    ASSUME IInv, IInv', NEW p \in Producers, Publish(p)
    PROVE  Promise!Next
  <1> PICK w : w = write[p]
    OBVIOUS
  <1> PICK k : k = w - Len(retired) + 1
    OBVIOUS
  <1>1. /\ pc[p] = "publish" /\ Working(p)
        /\ Store(p, sequence(w), w + 1, "release")
        /\ UNCHANGED <<reserved, retired>>
    BY DEF Publish, Working, history, ProducerSequenceStore
  <1>2. /\ w \in Nat /\ w \in Window /\ w \in Len(retired) .. Claimed - 1
        /\ Len(retired) \in Nat /\ Claimed \in Nat
        /\ sequence(w) \in Locations /\ sequence(w) # write_index
        /\ write_index \in Locations
    BY <1>1, HeldPosition, ClaimedIs, RemainingPositions, LocationsOf
  <1>3. /\ ValueNext(sequence(w)) = w + 1
        /\ \A x \in Locations : x # sequence(w) => memory'[x] = memory[x]
    BY <1>1, <1>2, NewestAfterStore DEF IInv
  <1>4. Claimed' = Claimed
    BY <1>2, <1>3 DEF Claimed, Value, Newest
  <1>5. PlacesOK /\ PlacesOKNext
    BY PlacesAre, PlacesAreNext
  <1>6. /\ Len(Places) \in Nat /\ Len(Places') = Len(Places)
        /\ Len(Places) = Claimed - Len(retired)
    BY <1>1, <1>4, <1>5 DEF PlacesOK, PlacesOKNext
  <1>7. k \in 1 .. Len(Places) /\ Len(retired) + k - 1 = w
    BY <1>2, <1>6
  <1>8. /\ Places[k] = Place(w) /\ ~Places[k].complete
        /\ Places'[k] = [Places[k] EXCEPT !.complete = TRUE]
    <2>1. IsConstructed(w)
      BY <1>1 DEF IInv, ProducerOK
    <2>2. Newest(sequence(w)) = FreeAt(w)
      <3>1. FreeAt(w) \in Nat
        BY <1>2, FreeAtIs
      <3> QED
        BY <2>1, <3>1 DEF IsConstructed, Reached
    <2>3. (Value(sequence(w)) = w + 1) = FALSE
      BY <1>2, <2>2, NumberOfFree
    <2>4. /\ Places[k] = Place(w) /\ Places'[k] = PlaceNext(w)
      BY <1>1, <1>5, <1>6, <1>7 DEF PlacesOK, PlacesOKNext
    <2>5. Place(w) = [value |-> reserved[w + 1], complete |-> FALSE]
      BY <2>3, Zenon DEF Place
    <2>6. (ValueNext(sequence(w)) = w + 1) = TRUE
      BY <1>3
    <2>7. PlaceNext(w) = [value |-> reserved[w + 1], complete |-> TRUE]
      BY <1>1, <2>6, Zenon DEF PlaceNext
    <2>8. [Place(w) EXCEPT !.complete = TRUE]
            = [value |-> reserved[w + 1], complete |-> TRUE]
      <3>1. [[value |-> reserved[w + 1], complete |-> FALSE]
               EXCEPT !.complete = TRUE]
              = [value |-> reserved[w + 1], complete |-> TRUE]
        BY CompletedPlace
      <3> QED
        BY <2>5, <3>1, Zenon
    <2>9. ~Place(w).complete
      BY <2>5
    <2> QED
      BY <2>4, <2>7, <2>8, <2>9, Zenon
  <1>9. ASSUME NEW i \in 1 .. Len(Places), i # k
        PROVE  Places'[i] = Places[i]
    <2> PICK n : n = Len(retired) + i - 1
      OBVIOUS
    <2>1. n \in Len(retired) .. Claimed - 1 /\ n # w
      BY <1>2, <1>6, <1>7, <1>9
    <2>2. n \in Nat /\ n \in Window /\ read \in Nat
      BY <2>1, RemainingPositions, ClaimedIs
    <2>3. sequence(n) # sequence(w) /\ sequence(n) \in Locations
      BY <1>2, <2>1, <2>2, WindowDiffers, LocationsOf
    <2>4. PlaceNext(n) = Place(n)
      BY <1>1, <1>3, <2>3 DEF Place, PlaceNext, ValueNext, Value, Newest
    <2>5. Places[i] = Place(n) /\ Places'[i] = PlaceNext(n)
      BY <1>1, <1>5, <1>6 DEF PlacesOK, PlacesOKNext
    <2> QED
      BY <2>4, <2>5
  <1>10. Places' = [Places EXCEPT ![k].complete = TRUE]
    <2>1. Places \in Seq(PlaceSet) /\ Places' \in Seq(PlaceSet)
      BY <1>5 DEF PlacesOK, PlacesOKNext
    <2> QED
      BY <1>6, <1>7, <1>8, <1>9, <2>1
  <1> QED
    BY <1>1, <1>7, <1>8, <1>10 DEF Promise!Next, Promise!Complete

LEMMA TakeTakes ==
    ASSUME IInv, IInv', Take
    PROVE  Promise!Next
  <1> PICK r : r = read
    OBVIOUS
  <1>1. /\ popping /\ Len(retired) = r
        /\ Store(Consumer, storage(r), Raw, "plain")
        /\ retired' = Append(retired, Value(storage(r)))
        /\ reserved' = reserved
    BY DEF Take
  <1>2. /\ r \in Nat /\ Claimed \in Nat /\ FreeAt(r) \in Nat
        /\ storage(r) \in Locations /\ storage(r) # write_index
        /\ write_index \in Locations
    BY ClaimedIs, FreeAtIs, LocationsOf
  <1>3. IsPublished(r) /\ r < Claimed
    BY <1>1 DEF IInv, ConsumerOK
  <1>4. Value(sequence(r)) = r + 1 /\ Value(storage(r)) = reserved[r + 1]
    <2>1. Newest(sequence(r)) = FreeAt(r) + 1 /\ Newest(storage(r)) = FreeAt(r) + 1
      BY <1>3 DEF IsPublished, Reached
    <2>2. r \in Len(retired) .. Claimed - 1
      BY <1>1, <1>2, <1>3
    <2> QED
      BY <1>2, <2>1, <2>2 DEF IInv, Numbers, Fifo, Value
  <1>5. \A x \in Locations : x # storage(r) => memory'[x] = memory[x]
    BY <1>1, <1>2, NewestAfterStore DEF IInv
  <1>6. Claimed' = Claimed
    BY <1>2, <1>5 DEF Claimed, Value, Newest
  <1>7. Len(retired') = r + 1
    BY <1>1, <1>2 DEF IInv, TypeOK
  <1>8. PlacesOK /\ PlacesOKNext
    BY PlacesAre, PlacesAreNext
  <1>9. /\ Len(Places) = Claimed - r /\ Len(Places') = Len(Places) - 1
        /\ Len(Places) \in Nat /\ Len(Places) >= 1
        /\ Places \in Seq(PlaceSet) /\ Places' \in Seq(PlaceSet)
    BY <1>1, <1>2, <1>3, <1>6, <1>7, <1>8 DEF PlacesOK, PlacesOKNext
  <1>10. Head(Places) = Place(r)
    <2>1. Head(Places) = Places[1] /\ 1 \in 1 .. Len(Places) /\ r + 1 - 1 = r
      BY <1>2, <1>9
    <2> QED
      BY <1>1, <1>8, <2>1 DEF PlacesOK
  <1>11. Head(Places).complete /\ Head(Places).value = Value(storage(r))
    <2>1. (Value(sequence(r)) = r + 1) = TRUE
      BY <1>4
    <2>2. /\ Place(r).complete = (Value(sequence(r)) = r + 1)
          /\ Place(r).value = reserved[r + 1]
      BY DEF Place
    <2> QED
      BY <1>4, <1>10, <2>1, <2>2
  <1>12. Places' = Tail(Places)
    <2>1. ASSUME NEW i \in 1 .. Len(Places')
          PROVE  Places'[i] = Places[i + 1]
      <3>1. i + 1 \in 1 .. Len(Places) /\ r + i \in Nat
        BY <1>2, <1>9
      <3>2. r + (i + 1) - 1 = r + i /\ r + 1 + i - 1 = r + i
        BY <1>2, <1>9
      <3>3. Places'[i] = PlaceNext(r + i) /\ Places[i + 1] = Place(r + i)
        BY <1>1, <1>7, <1>8, <3>1, <3>2 DEF PlacesOK, PlacesOKNext
      <3>4. memory'[sequence(r + i)] = memory[sequence(r + i)]
        BY <1>2, <1>5, <3>1, LocationsOf, SameLocations
      <3> QED
        BY <1>1, <3>3, <3>4 DEF Place, PlaceNext, ValueNext, Value, Newest
    <2> QED
      BY <1>9, <2>1
  <1>13. Places # <<>>
    BY <1>9
  <1> QED
    BY <1>1, <1>11, <1>12, <1>13 DEF Promise!Next, Promise!Take

LEMMA StepRefines ==
    ASSUME IInv, IInv', [Next]_vars
    PROVE  [Promise!Next]_<<Places, retired>>
  <1> DEFINE Refined == Promise!Next \/ UNCHANGED <<Places, retired>>
  <1>1. ASSUME UNCHANGED <<memory, reserved, retired>> PROVE Refined
    BY <1>1, Stutters
  <1>2. ASSUME NEW p \in Producers, Construct(p) PROVE Refined
    <2>1. /\ Working(p) /\ Store(p, storage(write[p]), ValueOf(p), "plain")
          /\ UNCHANGED <<reserved, retired>>
      BY <1>2 DEF Construct, Working, history
    <2>2. write[p] \in Nat /\ storage(write[p]) \in Locations
          /\ write_index \in Locations /\ storage(write[p]) # write_index
      BY LocationsOf DEF IInv, TypeOK
    <2>3. \A x \in Locations : x # storage(write[p]) => memory'[x] = memory[x]
      BY <2>1, <2>2, NewestAfterStore DEF IInv
    <2>4. \A n \in Len(retired) .. Claimed - 1 :
            memory'[sequence(n)] = memory[sequence(n)]
      BY <2>2, <2>3, RemainingPositions, LocationsOf, SameLocations
    <2> QED
      BY <2>1, <2>2, <2>3, <2>4, Stutters
  <1>3. ASSUME Release PROVE Refined
    <2>1. /\ popping /\ Len(retired) = read + 1
          /\ Store(Consumer, sequence(read), read + Capacity,
                   ConsumerSequenceStore)
          /\ UNCHANGED <<reserved, retired>>
      BY <1>3 DEF Release, history
    <2>2. read \in Nat /\ Claimed <= read + Capacity /\ Claimed \in Nat
          /\ read \in Window
          /\ sequence(read) \in Locations /\ write_index \in Locations
          /\ sequence(read) # write_index
      BY ClaimedIs, LocationsOf, CapacityAssumption DEF Window
    <2>3. \A x \in Locations : x # sequence(read) => memory'[x] = memory[x]
      BY <2>1, <2>2, NewestAfterStore DEF IInv
    <2>4. ASSUME NEW n \in Len(retired) .. Claimed - 1
          PROVE  memory'[sequence(n)] = memory[sequence(n)]
      <3>1. n \in Nat /\ n \in Window /\ n # read
        BY <2>1, <2>2, RemainingPositions
      <3>2. sequence(n) # sequence(read) /\ sequence(n) \in Locations
        BY <2>2, <3>1, WindowDiffers, LocationsOf
      <3> QED
        BY <2>3, <3>2
    <2> QED
      BY <2>1, <2>2, <2>3, <2>4, Stutters
  <1>4. ASSUME NEW p \in Producers, LoadWrite(p) \/ LoadSequence(p) PROVE Refined
    BY <1>1, <1>4 DEF LoadWrite, LoadSequence, Load, history
  <1>5. CASE TryPop
    BY <1>1, <1>5 DEF TryPop, Load, history
  <1>6. ASSUME NEW p \in Producers, Claim(p) \/ Publish(p) PROVE Refined
    BY <1>6, ClaimReserves, PublishCompletes
  <1>7. CASE Take
    BY <1>7, TakeTakes
  <1>8. CASE UNCHANGED vars
    BY <1>1, <1>8 DEF vars, history
  <1> QED
    BY <1>2, <1>3, <1>4, <1>5, <1>6, <1>7, <1>8 DEF Next

\* Also with stale loads the queue is the bounded FIFO of ReservationFifo: the
\* memory orders of the code lose, repeat and reorder no value.
THEOREM KeepsThePromise ==
    ASSUME Capacity >= 2
    PROVE  Spec => ImplementsReservationFifo
  <1>1. IInv /\ IInv' /\ [Next]_vars => [Promise!Next]_<<Places, retired>>
    BY StepRefines
  <1> QED
    BY <1>1, InitPlaces, InvariantHolds, PTL
       DEF Spec, ImplementsReservationFifo, Promise!Spec
=============================================================================
