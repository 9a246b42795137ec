-------------------- MODULE BoundedBlockingQueue_proofs --------------------
(***************************************************************************)
(* Proofs that the safety properties of BoundedBlockingQueue hold for all   *)
(* finite sets of producers and consumers and every Capacity.               *)
(***************************************************************************)
EXTENDS BoundedBlockingQueue, SharedLemmas, SequenceTheorems

-----------------------------------------------------------------------------
LEMMA ThreadsFinite == IsFiniteSet(Threads)
  BY ThreadsAssumption, FS_Union DEF Threads

-----------------------------------------------------------------------------
(* The invariant in terms of counts. *)

\* The balances of sleepers and wakeups.
LEMMA Balances ==
    /\ NoLostNotEmpty <=>
         (~swallowed /\ (\E t \in Threads : pc[t] = "waitNotEmpty") =>
            Len(queue) <= Count(Threads, pc, "notifyNotEmpty") + Count(Threads, pc, "popAgain"))
    /\ NoLostNotFull <=>
         (~swallowed /\ ~closed /\ (\E t \in Threads : pc[t] = "waitNotFull") =>
            Capacity <= Len(queue) + Count(Threads, pc, "notifyNotFull")
                                   + Count(Threads, pc, "pushAgain"))
  BY Zenon DEF NoLostNotEmpty, NoLostNotFull, At, Count

LEMMA BalancesNext ==
    /\ NoLostNotEmpty' <=>
         (~swallowed' /\ (\E t \in Threads : pc'[t] = "waitNotEmpty") =>
            Len(queue') <= Count(Threads, pc', "notifyNotEmpty") + Count(Threads, pc', "popAgain"))
    /\ NoLostNotFull' <=>
         (~swallowed' /\ ~closed' /\ (\E t \in Threads : pc'[t] = "waitNotFull") =>
            Capacity <= Len(queue') + Count(Threads, pc', "notifyNotFull")
                                    + Count(Threads, pc', "pushAgain"))
  BY Zenon DEF NoLostNotEmpty, NoLostNotFull, At, Count

\* The threads in the middle of close().
LEMMA Closing ==
    CloseIsComing <=>
      (closed =>
        /\ (\E t \in Threads : pc[t] = "waitNotEmpty") =>
             \E t \in Threads : pc[t] = "closeNotEmpty"
        /\ (\E t \in Threads : pc[t] = "waitNotFull") =>
             \E t \in Threads : pc[t] \in {"closeNotEmpty", "closeNotFull"})
  BY DEF CloseIsComing, At

LEMMA ClosingNext ==
    CloseIsComing' <=>
      (closed' =>
        /\ (\E t \in Threads : pc'[t] = "waitNotEmpty") =>
             \E t \in Threads : pc'[t] = "closeNotEmpty"
        /\ (\E t \in Threads : pc'[t] = "waitNotFull") =>
             \E t \in Threads : pc'[t] \in {"closeNotEmpty", "closeNotFull"})
  BY DEF CloseIsComing, At

\* The part of TypeOK that is not about pc, and the histories.
DataOK ==
    /\ queue \in Seq(Values) /\ Len(queue) <= Capacity
    /\ closed \in BOOLEAN
    /\ accepted \in [Producers -> 0 .. MaxPushes]
    /\ popped \in Seq(Values)
    /\ ended \in BOOLEAN
    /\ thrown \in 0 .. MaxThrows /\ swallowed \in BOOLEAN
    /\ EndIsFinal /\ SwallowedOnlyByThrow

\* May t be at `step`?
MayBeAt(t, step) ==
    /\ step \in Steps
    /\ t \in Producers =>
         step \notin {"waitNotEmpty", "popAgain", "notifyNotFull"}
    /\ t \in Consumers =>
         step \notin {"waitNotFull", "pushAgain", "notifyNotEmpty"}

\* A thread at one of these steps stands for one wakeup.
WakesTaker(step) == IF step \in {"notifyNotEmpty", "popAgain"} THEN 1 ELSE 0
WakesPutter(step) == IF step \in {"notifyNotFull", "pushAgain"} THEN 1 ELSE 0

LEMMA TypeParts ==
    TypeOK /\ EndIsFinal /\ SwallowedOnlyByThrow <=>
      /\ DataOK
      /\ pc \in [Threads -> Steps]
      /\ \A t \in Threads : MayBeAt(t, pc[t])
  BY DEF TypeOK, DataOK, MayBeAt, Threads

LEMMA TypePartsNext ==
    TypeOK' /\ EndIsFinal' /\ SwallowedOnlyByThrow' <=>
      /\ DataOK'
      /\ pc' \in [Threads -> Steps]
      /\ \A t \in Threads : MayBeAt(t, pc'[t])
  BY DEF TypeOK, DataOK, MayBeAt, Threads

-----------------------------------------------------------------------------
(* Steps in which one thread moves and nobody is woken by another one. *)

\* What such a step does to pc.
LEMMA MoveFrame ==
    ASSUME TypeOK, NEW t \in Threads, NEW to \in Steps, GoTo(t, to)
    PROVE  /\ pc' \in [Threads -> Steps]
           /\ pc'[t] = to
           /\ \A u \in Threads : u # t => pc'[u] = pc[u]
  BY DEF TypeOK, GoTo

LEMMA MoveCounts ==
    ASSUME TypeOK, NEW t \in Threads, NEW to \in Steps, GoTo(t, to), NEW step
    PROVE  Count(Threads, pc', step) = Count(Threads, pc, step) + (IF to = step THEN 1 ELSE 0)
                                              - (IF pc[t] = step THEN 1 ELSE 0)
  <1>1. pc \in [Threads -> Steps]
    BY DEF TypeOK
  <1> QED
    BY <1>1, MoveFrame, CountAfterMove, ThreadsFinite DEF OnlyMover

\* The invariant survives if the step uses up no wakeup without taking a value
\* or a place, adds no value or place without a wakeup, and lets a thread sleep
\* only where it has nothing to wait for; or if nobody sleeps.
LEMMA MoveKeepsIInv ==
    ASSUME IInv, NEW t \in Threads, NEW to, GoTo(t, to), MayBeAt(t, to), DataOK',
           pc[t] \notin {"closeNotEmpty", "closeNotFull"},
           closed => closed', swallowed => swallowed',
           ~swallowed' /\ Len(queue') # 0 /\ At("waitNotEmpty") # {} =>
             Len(queue') + WakesTaker(pc[t]) <= Len(queue) + WakesTaker(to),
           (~swallowed' /\ ~closed' /\ Len(queue') < Capacity
              /\ At("waitNotFull") # {}) =>
             Len(queue) + WakesPutter(pc[t]) <= Len(queue') + WakesPutter(to),
           to = "waitNotEmpty" => ~closed' /\ Len(queue') = 0,
           to = "waitNotFull" => ~closed' /\ Capacity <= Len(queue'),
           closed' /\ ~closed => to = "closeNotEmpty"
    PROVE  IInv'
  <1>1. /\ TypeOK /\ to \in Steps /\ pc[t] \in Steps
        /\ Len(queue) \in Nat /\ Len(queue') \in Nat /\ Capacity \in Nat
    BY CapacityAssumption DEF IInv, TypeOK, MayBeAt, DataOK
  <1>2. /\ pc' \in [Threads -> Steps]
        /\ pc'[t] = to
        /\ \A u \in Threads : u # t => pc'[u] = pc[u]
    BY <1>1, MoveFrame
  <1>3. TypeOK' /\ EndIsFinal' /\ SwallowedOnlyByThrow'
    BY <1>2, TypeParts, TypePartsNext DEF IInv
  <1>4. NoLostNotEmpty'
    <2> DEFINE woken == Count(Threads, pc, "notifyNotEmpty") + Count(Threads, pc, "popAgain")
               wokenNext == Count(Threads, pc', "notifyNotEmpty") + Count(Threads, pc', "popAgain")
    <2>1. wokenNext = woken + WakesTaker(to) - WakesTaker(pc[t])
      <3>1. /\ Count(Threads, pc', "notifyNotEmpty") = Count(Threads, pc, "notifyNotEmpty")
                 + (IF to = "notifyNotEmpty" THEN 1 ELSE 0)
                 - (IF pc[t] = "notifyNotEmpty" THEN 1 ELSE 0)
            /\ Count(Threads, pc', "popAgain") = Count(Threads, pc, "popAgain")
                 + (IF to = "popAgain" THEN 1 ELSE 0)
                 - (IF pc[t] = "popAgain" THEN 1 ELSE 0)
        BY <1>1, MoveCounts
      <3>2. /\ WakesTaker(to) = (IF to = "notifyNotEmpty" THEN 1 ELSE 0)
                                + (IF to = "popAgain" THEN 1 ELSE 0)
            /\ WakesTaker(pc[t]) = (IF pc[t] = "notifyNotEmpty" THEN 1 ELSE 0)
                                   + (IF pc[t] = "popAgain" THEN 1 ELSE 0)
        BY DEF WakesTaker
      <3>3. /\ Count(Threads, pc, "notifyNotEmpty") \in Nat /\ Count(Threads, pc, "popAgain") \in Nat
            /\ Count(Threads, pc', "notifyNotEmpty") \in Nat /\ Count(Threads, pc', "popAgain") \in Nat
        BY CountIsNat, ThreadsFinite
      <3> QED
        BY <3>1, <3>2, <3>3
    <2>2. woken \in Nat /\ wokenNext \in Nat
      BY CountIsNat, ThreadsFinite
    <2>3. ~swallowed /\ (\E u \in Threads : pc[u] = "waitNotEmpty")
            => Len(queue) <= woken
      BY Balances DEF IInv
    <2> HIDE DEF woken, wokenNext
    <2>4. ~swallowed' /\ (\E u \in Threads : pc'[u] = "waitNotEmpty")
            => Len(queue') <= wokenNext
      <3>1. CASE Len(queue') = 0
        BY <1>1, <2>2, <3>1
      <3>2. CASE Len(queue') # 0
        <4>1. (\E u \in Threads : pc'[u] = "waitNotEmpty")
                => /\ \E u \in Threads : pc[u] = "waitNotEmpty"
                   /\ At("waitNotEmpty") # {}
          BY <1>2, <3>2 DEF At
        <4>2. WakesTaker(to) \in Nat /\ WakesTaker(pc[t]) \in Nat
          BY DEF WakesTaker
        <4> QED
          BY <1>1, <2>1, <2>2, <2>3, <3>2, <4>1, <4>2
      <3> QED
        BY <3>1, <3>2
    <2> QED
      BY <2>4, BalancesNext DEF wokenNext
  <1>5. NoLostNotFull'
    <2> DEFINE woken == Count(Threads, pc, "notifyNotFull") + Count(Threads, pc, "pushAgain")
               wokenNext == Count(Threads, pc', "notifyNotFull") + Count(Threads, pc', "pushAgain")
    <2>1. wokenNext = woken + WakesPutter(to) - WakesPutter(pc[t])
      <3>1. /\ Count(Threads, pc', "notifyNotFull") = Count(Threads, pc, "notifyNotFull")
                 + (IF to = "notifyNotFull" THEN 1 ELSE 0)
                 - (IF pc[t] = "notifyNotFull" THEN 1 ELSE 0)
            /\ Count(Threads, pc', "pushAgain") = Count(Threads, pc, "pushAgain")
                 + (IF to = "pushAgain" THEN 1 ELSE 0)
                 - (IF pc[t] = "pushAgain" THEN 1 ELSE 0)
        BY <1>1, MoveCounts
      <3>2. /\ WakesPutter(to) = (IF to = "notifyNotFull" THEN 1 ELSE 0)
                                + (IF to = "pushAgain" THEN 1 ELSE 0)
            /\ WakesPutter(pc[t]) = (IF pc[t] = "notifyNotFull" THEN 1 ELSE 0)
                                   + (IF pc[t] = "pushAgain" THEN 1 ELSE 0)
        BY DEF WakesPutter
      <3>3. /\ Count(Threads, pc, "notifyNotFull") \in Nat /\ Count(Threads, pc, "pushAgain") \in Nat
            /\ Count(Threads, pc', "notifyNotFull") \in Nat /\ Count(Threads, pc', "pushAgain") \in Nat
        BY CountIsNat, ThreadsFinite
      <3> QED
        BY <3>1, <3>2, <3>3
    <2>2. woken \in Nat /\ wokenNext \in Nat
      BY CountIsNat, ThreadsFinite
    <2>3. ~swallowed /\ ~closed /\ (\E u \in Threads : pc[u] = "waitNotFull")
            => Capacity <= Len(queue) + woken
      BY Balances, CountIsNat, ThreadsFinite, <1>1 DEF IInv
    <2> HIDE DEF woken, wokenNext
    <2>4. ~swallowed' /\ ~closed' /\ (\E u \in Threads : pc'[u] = "waitNotFull")
            => Capacity <= Len(queue') + wokenNext
      <3>1. CASE Capacity <= Len(queue')
        BY <1>1, <2>2, <3>1
      <3>2. CASE Len(queue') < Capacity
        <4>1. (\E u \in Threads : pc'[u] = "waitNotFull")
                => /\ \E u \in Threads : pc[u] = "waitNotFull"
                   /\ At("waitNotFull") # {}
          BY <1>1, <1>2, <3>2 DEF At
        <4>2. WakesPutter(to) \in Nat /\ WakesPutter(pc[t]) \in Nat
          BY DEF WakesPutter
        <4> QED
          BY <1>1, <2>1, <2>2, <2>3, <3>2, <4>1, <4>2, SMTT(30)
      <3> QED
        BY <1>1, <3>1, <3>2
    <2> QED
      BY <1>1, <2>4, BalancesNext, CountIsNat, ThreadsFinite DEF wokenNext
  <1>6. CloseIsComing'
    <2>1. CASE to = "closeNotEmpty"
      BY <1>2, <2>1, ClosingNext
    <2>2. CASE to # "closeNotEmpty"
      <3>1. \A step \in {"closeNotEmpty", "closeNotFull"} : \A u \in Threads :
              pc[u] = step => pc'[u] = step
        BY <1>2
      <3>2. closed' =>
              \A step \in {"waitNotEmpty", "waitNotFull"} : \A u \in Threads :
                pc'[u] = step => pc[u] = step
        BY <1>2
      <3> QED
        BY <2>2, <3>1, <3>2, Closing, ClosingNext DEF IInv
    <2> QED
      BY <2>1, <2>2
  <1> QED
    BY <1>3, <1>4, <1>5, <1>6 DEF IInv

-----------------------------------------------------------------------------
(* Steps in which one thread wakes another. *)

\* t has notified and w wakes up.
Wakes(t, w, to) == pc' = [pc EXCEPT ![t] = "idle", ![w] = to]

LEMMA WakesFrame ==
    ASSUME TypeOK, NEW t \in Threads, NEW w \in Threads, NEW to \in Steps,
           t # w, Wakes(t, w, to)
    PROVE  /\ pc' \in [Threads -> Steps]
           /\ pc'[t] = "idle" /\ pc'[w] = to
           /\ \A u \in Threads : u # t /\ u # w => pc'[u] = pc[u]
  <1>1. "idle" \in Steps
    BY DEF Steps
  <1> QED
    BY <1>1 DEF Wakes, TypeOK

\* The notifier's wakeup becomes the waiter's.
LEMMA WakesKeepsIInv ==
    ASSUME IInv, NEW t \in Threads, NEW w \in Threads, t # w, NEW to,
           MayBeAt(t, "idle"), MayBeAt(w, to), Wakes(t, w, to),
           DataOK', queue' = queue, closed' = closed, swallowed' = swallowed,
           \/ /\ pc[t] = "notifyNotEmpty"
              /\ pc[w] = "waitNotEmpty" /\ to = "popAgain"
           \/ /\ pc[t] = "notifyNotFull"
              /\ pc[w] = "waitNotFull" /\ to = "pushAgain"
    PROVE  IInv'
  <1>1. /\ TypeOK /\ pc \in [Threads -> Steps] /\ Len(queue) \in Nat
        /\ to \in Steps
    BY DEF IInv, TypeOK, MayBeAt
  <1>2. /\ pc' \in [Threads -> Steps] /\ pc'[t] = "idle" /\ pc'[w] = to
        /\ \A u \in Threads : u # t /\ u # w => pc'[u] = pc[u]
    BY <1>1, WakesFrame
  <1>3. TypeOK' /\ EndIsFinal' /\ SwallowedOnlyByThrow'
    BY <1>2, TypeParts, TypePartsNext DEF IInv
  <1>4. ASSUME NEW step
        PROVE  Count(Threads, pc', step) = Count(Threads, pc, step)
                                    + (IF pc'[t] = step THEN 1 ELSE 0)
                                    - (IF pc[t] = step THEN 1 ELSE 0)
                                    + (IF pc'[w] = step THEN 1 ELSE 0)
                                    - (IF pc[w] = step THEN 1 ELSE 0)
    BY <1>1, <1>2, CountAfterTwoMoves, ThreadsFinite DEF OnlyMovers
  <1>5. /\ Count(Threads, pc', "notifyNotEmpty") + Count(Threads, pc', "popAgain")
             = Count(Threads, pc, "notifyNotEmpty") + Count(Threads, pc, "popAgain")
        /\ Count(Threads, pc', "notifyNotFull") + Count(Threads, pc', "pushAgain")
             = Count(Threads, pc, "notifyNotFull") + Count(Threads, pc, "pushAgain")
    <2>1. CASE pc[t] = "notifyNotEmpty" /\ pc[w] = "waitNotEmpty" /\ to = "popAgain"
      <3>1. /\ Count(Threads, pc', "notifyNotEmpty") = Count(Threads, pc, "notifyNotEmpty") - 1
            /\ Count(Threads, pc', "popAgain") = Count(Threads, pc, "popAgain") + 1
            /\ Count(Threads, pc', "notifyNotFull") = Count(Threads, pc, "notifyNotFull")
            /\ Count(Threads, pc', "pushAgain") = Count(Threads, pc, "pushAgain")
        BY <1>2, <1>4, <2>1, CountIsNat, ThreadsFinite
      <3> QED
        BY <3>1, CountIsNat, ThreadsFinite
    <2>2. CASE pc[t] = "notifyNotFull" /\ pc[w] = "waitNotFull" /\ to = "pushAgain"
      <3>1. /\ Count(Threads, pc', "notifyNotFull") = Count(Threads, pc, "notifyNotFull") - 1
            /\ Count(Threads, pc', "pushAgain") = Count(Threads, pc, "pushAgain") + 1
            /\ Count(Threads, pc', "notifyNotEmpty") = Count(Threads, pc, "notifyNotEmpty")
            /\ Count(Threads, pc', "popAgain") = Count(Threads, pc, "popAgain")
        BY <1>2, <1>4, <2>2, CountIsNat, ThreadsFinite
      <3> QED
        BY <3>1, CountIsNat, ThreadsFinite
    <2> QED
      BY <2>1, <2>2
  <1>6. NoLostNotEmpty' /\ NoLostNotFull'
    <2>1. \A step \in {"waitNotEmpty", "waitNotFull"} : \A u \in Threads :
            pc'[u] = step => pc[u] = step
      BY <1>2
    <2>2. NoLostNotEmpty'
      BY <1>5, <2>1, Balances, BalancesNext DEF IInv
    <2>3. /\ Count(Threads, pc, "notifyNotFull") \in Nat /\ Count(Threads, pc, "pushAgain") \in Nat
          /\ Count(Threads, pc', "notifyNotFull") \in Nat /\ Count(Threads, pc', "pushAgain") \in Nat
      BY CountIsNat, ThreadsFinite
    <2>4. NoLostNotFull'
      BY <1>1, <1>5, <2>1, <2>3, CapacityAssumption, Balances, BalancesNext DEF IInv
    <2> QED
      BY <2>2, <2>4
  <1>7. CloseIsComing'
    BY <1>1, <1>2, Closing, ClosingNext DEF IInv
  <1> QED
    BY <1>3, <1>6, <1>7 DEF IInv

-----------------------------------------------------------------------------
(* The steps of producers. *)

LEMMA EmplaceBlocksKeepsIInv ==
    ASSUME IInv, NEW p \in Producers, EmplaceBlocks(p)
    PROVE  IInv'
  <1>1. /\ p \in Threads /\ pc[p] \in {"idle", "pushAgain"}
        /\ GoTo(p, "waitNotFull") /\ MayBeAt(p, "waitNotFull")
    BY ThreadsAssumption DEF EmplaceBlocks, Pushing, Threads, MayBeAt, Steps
  <1>2. DataOK'
    BY TypeParts DEF EmplaceBlocks, exceptions,
                     IInv, DataOK, EndIsFinal, SwallowedOnlyByThrow
  <1>3. /\ queue' = queue /\ closed' = closed /\ swallowed' = swallowed
        /\ ~closed /\ ~(Len(queue) < Capacity) /\ Capacity <= Len(queue)
        /\ Len(queue) \in Nat
    BY CapacityAssumption
       DEF EmplaceBlocks, Full, exceptions, IInv, TypeOK
  <1>4. WakesTaker(pc[p]) = 0 /\ WakesTaker("waitNotFull") = 0
    BY <1>1 DEF WakesTaker
  <1> QED
    BY <1>1, <1>2, <1>3, <1>4, MoveKeepsIInv

LEMMA EmplaceRejectedKeepsIInv ==
    ASSUME IInv, NEW p \in Producers, EmplaceRejected(p)
    PROVE  IInv'
  <1>1. /\ p \in Threads /\ pc[p] \in {"idle", "pushAgain"}
        /\ GoTo(p, "idle") /\ MayBeAt(p, "idle")
    BY DEF EmplaceRejected, Pushing, Threads, MayBeAt, Steps
  <1>2. DataOK'
    BY TypeParts DEF EmplaceRejected, exceptions,
                     IInv, DataOK, EndIsFinal, SwallowedOnlyByThrow
  <1>3. /\ queue' = queue /\ closed' = closed /\ swallowed' = swallowed
        /\ closed /\ Len(queue) \in Nat
    BY DEF EmplaceRejected, exceptions, IInv, TypeOK
  <1>4. WakesTaker(pc[p]) = 0 /\ WakesTaker("idle") = 0
    BY <1>1 DEF WakesTaker
  <1> QED
    BY <1>1, <1>2, <1>3, <1>4, MoveKeepsIInv

\* A call that throws before it has slept uses up no wakeup.
LEMMA EmplaceThrowsKeepsIInv ==
    ASSUME IInv, NEW p \in Producers, EmplaceThrows(p)
    PROVE  IInv'
  <1>1. /\ p \in Threads /\ pc[p] \in {"idle", "pushAgain"}
        /\ GoTo(p, "idle") /\ MayBeAt(p, "idle")
    BY DEF EmplaceThrows, Throw, Pushing, Threads, MayBeAt, Steps
  <1>2. DataOK'
    BY TypeParts, BoundsAssumption
       DEF EmplaceThrows, Throw, IInv, DataOK, EndIsFinal, SwallowedOnlyByThrow
  <1>3. /\ queue' = queue /\ closed' = closed /\ Len(queue) \in Nat
    BY DEF EmplaceThrows, IInv, TypeOK
  <1>4. (swallowed => swallowed') /\ (~swallowed' => pc[p] = "idle")
    BY Zenon DEF EmplaceThrows, Throw
  <1>5. WakesTaker("idle") = 0 /\ WakesPutter("idle") = 0
    BY DEF WakesTaker, WakesPutter
  <1> QED
    BY <1>1, <1>2, <1>3, <1>4, <1>5, MoveKeepsIInv

\* Both emplace and try_emplace.
LEMMA PutBackKeepsIInv ==
    ASSUME IInv, NEW p \in Producers, Pushing(p), MayAppend(p), PutBack(p)
    PROVE  IInv'
  <1>1. /\ p \in Threads /\ pc[p] \in {"idle", "pushAgain"}
        /\ GoTo(p, "notifyNotEmpty") /\ MayBeAt(p, "notifyNotEmpty")
    BY ThreadsAssumption
       DEF PutBack, AfterPush, Pushing, Threads, MayBeAt, Steps
  <1>2. /\ Len(queue) \in Nat /\ Len(queue) < Capacity
        /\ queue' \in Seq(Values) /\ Len(queue') = Len(queue) + 1
        /\ accepted' \in [Producers -> 0 .. MaxPushes]
    <2>1. accepted[p] \in 0 .. MaxPushes /\ accepted[p] + 1 \in 1 .. MaxPushes
      BY BoundsAssumption DEF Pushing, IInv, TypeOK
    <2>2. <<p, accepted[p] + 1>> \in Values
      BY <2>1 DEF Values
    <2>3. queue \in Seq(Values) /\ ~(Len(queue) >= Capacity)
      BY DEF MayAppend, Full, IInv, TypeOK
    <2>4. accepted' \in [Producers -> 0 .. MaxPushes]
      BY <2>1 DEF PutBack, IInv, TypeOK
    <2>5. queue' = Append(queue, <<p, accepted[p] + 1>>)
      BY DEF PutBack
    <2> QED
      BY <2>2, <2>3, <2>4, <2>5, CapacityAssumption
  <1>3. closed' = closed /\ swallowed' = swallowed /\ ~closed
    BY DEF PutBack, MayAppend, exceptions
  <1>4. DataOK'
    BY <1>2, <1>3, TypeParts, CapacityAssumption
       DEF PutBack, exceptions, IInv, DataOK, EndIsFinal, SwallowedOnlyByThrow
  <1>5. /\ WakesTaker(pc[p]) = 0 /\ WakesTaker("notifyNotEmpty") = 1
        /\ WakesPutter(pc[p]) \in {0, 1} /\ WakesPutter("notifyNotEmpty") = 0
    BY <1>1 DEF WakesTaker, WakesPutter
  <1> QED
    BY <1>1, <1>2, <1>3, <1>4, <1>5, MoveKeepsIInv

-----------------------------------------------------------------------------
(* The steps of consumers. *)

LEMMA PopBlocksKeepsIInv ==
    ASSUME IInv, NEW c \in Consumers, PopBlocks(c)
    PROVE  IInv'
  <1>1. /\ c \in Threads /\ pc[c] \in {"idle", "popAgain"}
        /\ GoTo(c, "waitNotEmpty") /\ MayBeAt(c, "waitNotEmpty")
    BY ThreadsAssumption DEF PopBlocks, Popping, Threads, MayBeAt, Steps
  <1>2. DataOK'
    BY TypeParts DEF PopBlocks, exceptions,
                     IInv, DataOK, EndIsFinal, SwallowedOnlyByThrow
  <1>3. /\ queue' = queue /\ closed' = closed /\ swallowed' = swallowed
        /\ ~closed /\ Len(queue) = 0
    BY DEF PopBlocks, exceptions
  <1>4. WakesPutter(pc[c]) = 0 /\ WakesPutter("waitNotEmpty") = 0
    BY <1>1 DEF WakesPutter
  <1> QED
    BY <1>1, <1>2, <1>3, <1>4, MoveKeepsIInv

LEMMA PopEndsKeepsIInv ==
    ASSUME IInv, NEW c \in Consumers, PopEnds(c)
    PROVE  IInv'
  <1>1. /\ c \in Threads /\ pc[c] \in {"idle", "popAgain"}
        /\ GoTo(c, "idle") /\ MayBeAt(c, "idle")
    BY DEF PopEnds, Popping, Threads, MayBeAt, Steps
  <1>2. DataOK'
    BY TypeParts DEF PopEnds, exceptions,
                     IInv, DataOK, EndIsFinal, SwallowedOnlyByThrow
  <1>3. /\ queue' = queue /\ closed' = closed /\ swallowed' = swallowed
        /\ closed /\ Len(queue) = 0
    BY DEF PopEnds, exceptions
  <1> QED
    BY <1>1, <1>2, <1>3, MoveKeepsIInv

LEMMA PopThrowsKeepsIInv ==
    ASSUME IInv, NEW c \in Consumers, PopThrows(c)
    PROVE  IInv'
  <1>1. /\ c \in Threads /\ pc[c] \in {"idle", "popAgain"}
        /\ GoTo(c, "idle") /\ MayBeAt(c, "idle")
    BY DEF PopThrows, Throw, Popping, Threads, MayBeAt, Steps
  <1>2. DataOK'
    BY TypeParts, BoundsAssumption
       DEF PopThrows, OnThrow, Throw,
           IInv, DataOK, EndIsFinal, SwallowedOnlyByThrow
  <1>3. /\ queue' = queue /\ closed' = closed /\ Len(queue) \in Nat
    BY DEF PopThrows, OnThrow, IInv, TypeOK
  <1>4. (swallowed => swallowed') /\ (~swallowed' => pc[c] = "idle")
    BY Zenon DEF PopThrows, Throw
  <1>5. WakesTaker("idle") = 0 /\ WakesPutter("idle") = 0
    BY DEF WakesTaker, WakesPutter
  <1> QED
    BY <1>1, <1>2, <1>3, <1>4, <1>5, MoveKeepsIInv

\* Both wait_and_pop and try_pop.
LEMMA TakeFrontKeepsIInv ==
    ASSUME IInv, NEW c \in Consumers, Popping(c), TakeFront(c)
    PROVE  IInv'
  <1>1. /\ c \in Threads /\ pc[c] \in {"idle", "popAgain"}
        /\ GoTo(c, "notifyNotFull") /\ MayBeAt(c, "notifyNotFull")
    BY ThreadsAssumption
       DEF TakeFront, AfterPop, Popping, Threads, MayBeAt, Steps
  <1>2. /\ Len(queue) \in Nat \ {0} /\ Len(queue) <= Capacity
        /\ queue' \in Seq(Values) /\ Len(queue') = Len(queue) - 1
        /\ popped' \in Seq(Values)
    <2>1. queue \in Seq(Values) /\ queue # <<>> /\ popped \in Seq(Values)
      BY DEF TakeFront, IInv, TypeOK
    <2>2. queue' = Tail(queue) /\ popped' = Append(popped, Head(queue))
      BY DEF TakeFront
    <2> QED
      BY <2>1, <2>2 DEF IInv, TypeOK
  <1>3. closed' = closed /\ swallowed' = swallowed
    BY DEF TakeFront, exceptions
  <1>4. ~ended
    BY <1>2 DEF TakeFront, IInv, EndIsFinal
  <1>5. DataOK'
    BY <1>2, <1>3, <1>4, TypeParts, CapacityAssumption
       DEF TakeFront, exceptions, IInv, DataOK, EndIsFinal, SwallowedOnlyByThrow
  <1>6. /\ WakesTaker(pc[c]) \in {0, 1} /\ WakesTaker("notifyNotFull") = 0
        /\ WakesPutter(pc[c]) = 0 /\ WakesPutter("notifyNotFull") = 1
    BY <1>1 DEF WakesTaker, WakesPutter
  <1> QED
    BY <1>1, <1>2, <1>3, <1>5, <1>6, MoveKeepsIInv

-----------------------------------------------------------------------------
(* Wakeups. *)

LEMMA SpuriousWakeupKeepsIInv ==
    ASSUME IInv, NEW t \in Threads, SpuriousWakeup(t)
    PROVE  IInv'
  <1>1. DataOK' /\ queue' = queue /\ closed' = closed /\ swallowed' = swallowed
    BY TypeParts DEF SpuriousWakeup, exceptions,
                     IInv, DataOK, EndIsFinal, SwallowedOnlyByThrow
  <1>2. Len(queue) \in Nat /\ MayBeAt(t, pc[t])
    BY TypeParts DEF IInv, TypeOK
  <1>3. CASE pc[t] = "waitNotFull" /\ GoTo(t, "pushAgain")
    <2>1. MayBeAt(t, "pushAgain")
      BY <1>2, <1>3 DEF MayBeAt, Steps
    <2>2. /\ WakesTaker(pc[t]) = 0 /\ WakesTaker("pushAgain") = 0
          /\ WakesPutter(pc[t]) = 0 /\ WakesPutter("pushAgain") = 1
      BY <1>3 DEF WakesTaker, WakesPutter
    <2> QED
      BY <1>1, <1>2, <1>3, <2>1, <2>2, MoveKeepsIInv
  <1>4. CASE pc[t] = "waitNotEmpty" /\ GoTo(t, "popAgain")
    <2>1. MayBeAt(t, "popAgain")
      BY <1>2, <1>4 DEF MayBeAt, Steps
    <2>2. /\ WakesTaker(pc[t]) = 0 /\ WakesTaker("popAgain") = 1
          /\ WakesPutter(pc[t]) = 0 /\ WakesPutter("popAgain") = 0
      BY <1>4 DEF WakesTaker, WakesPutter
    <2> QED
      BY <1>1, <1>2, <1>4, <2>1, <2>2, MoveKeepsIInv
  <1> QED
    BY <1>3, <1>4 DEF SpuriousWakeup

LEMMA CloseKeepsIInv ==
    ASSUME IInv, NEW t \in Threads, Close(t)
    PROVE  IInv'
  <1>1. /\ pc[t] = "idle" /\ GoTo(t, "closeNotEmpty")
        /\ MayBeAt(t, "closeNotEmpty")
    BY DEF Close, MayBeAt, Steps
  <1>2. DataOK' /\ queue' = queue /\ closed' = TRUE /\ swallowed' = swallowed
    BY TypeParts DEF Close, exceptions,
                     IInv, DataOK, EndIsFinal, SwallowedOnlyByThrow
  <1>3. Len(queue) \in Nat
    BY DEF IInv, TypeOK
  <1>4. WakesTaker("idle") = 0 /\ WakesTaker("closeNotEmpty") = 0
    BY DEF WakesTaker
  <1> QED
    BY <1>1, <1>2, <1>3, <1>4, MoveKeepsIInv

\* notify_one hands one wakeup from the notifier to the waiter it wakes.
LEMMA NotifyNotEmptyKeepsIInv ==
    ASSUME IInv, NEW p \in Producers, NotifyNotEmpty(p)
    PROVE  IInv'
  <1>1. /\ p \in Threads /\ pc[p] = "notifyNotEmpty" /\ MayBeAt(p, "idle")
        /\ Len(queue) \in Nat
    BY DEF NotifyNotEmpty, Threads, MayBeAt, Steps, IInv, TypeOK
  <1>2. DataOK' /\ queue' = queue /\ closed' = closed /\ swallowed' = swallowed
    BY TypeParts DEF NotifyNotEmpty, exceptions,
                     IInv, DataOK, EndIsFinal, SwallowedOnlyByThrow
  <1>3. CASE At("waitNotEmpty") = {} /\ GoTo(p, "idle")
    <2>1. WakesPutter(pc[p]) = 0 /\ WakesPutter("idle") = 0
      BY <1>1 DEF WakesPutter
    <2> QED
      BY <1>1, <1>2, <1>3, <2>1, MoveKeepsIInv
  <1>4. ASSUME NEW w \in At("waitNotEmpty"),
               pc' = [pc EXCEPT ![p] = "idle", ![w] = "popAgain"]
        PROVE  IInv'
    <2>1. w \in Threads /\ pc[w] = "waitNotEmpty"
      BY DEF At
    <2>2. MayBeAt(w, pc[w])
      BY <2>1, TypeParts DEF IInv
    <2>3. MayBeAt(w, "popAgain")
      BY <2>1, <2>2 DEF MayBeAt, Steps
    <2> QED
      BY <1>1, <1>2, <1>4, <2>1, <2>3, WakesKeepsIInv DEF Wakes
  <1> QED
    BY <1>3, <1>4 DEF NotifyNotEmpty, NotifyOne

LEMMA NotifyNotFullKeepsIInv ==
    ASSUME IInv, NEW c \in Consumers, NotifyNotFull(c)
    PROVE  IInv'
  <1>1. /\ c \in Threads /\ pc[c] = "notifyNotFull" /\ MayBeAt(c, "idle")
        /\ Len(queue) \in Nat
    BY DEF NotifyNotFull, Threads, MayBeAt, Steps, IInv, TypeOK
  <1>2. DataOK' /\ queue' = queue /\ closed' = closed /\ swallowed' = swallowed
    BY TypeParts DEF NotifyNotFull, exceptions,
                     IInv, DataOK, EndIsFinal, SwallowedOnlyByThrow
  <1>3. CASE At("waitNotFull") = {} /\ GoTo(c, "idle")
    <2>1. WakesTaker(pc[c]) = 0 /\ WakesTaker("idle") = 0
      BY <1>1 DEF WakesTaker
    <2> QED
      BY <1>1, <1>2, <1>3, <2>1, MoveKeepsIInv
  <1>4. ASSUME NEW w \in At("waitNotFull"),
               pc' = [pc EXCEPT ![c] = "idle", ![w] = "pushAgain"]
        PROVE  IInv'
    <2>1. w \in Threads /\ pc[w] = "waitNotFull"
      BY DEF At
    <2>2. MayBeAt(w, pc[w])
      BY <2>1, TypeParts DEF IInv
    <2>3. MayBeAt(w, "pushAgain")
      BY <2>1, <2>2 DEF MayBeAt, Steps
    <2> QED
      BY <1>1, <1>2, <1>4, <2>1, <2>3, WakesKeepsIInv DEF Wakes
  <1> QED
    BY <1>3, <1>4 DEF NotifyNotFull, NotifyOne

\* notify_all: everybody who sleeps is counted as awake afterwards.
LEMMA WakeAllFrame ==
    ASSUME TypeOK, NEW t \in Threads, NEW next \in Steps, NEW to \in Steps,
           NEW from, pc[t] # from, to # from, WakeAll(t, next, from, to)
    PROVE  /\ pc' \in [Threads -> Steps] /\ pc'[t] = next
           /\ \A u \in Threads : u # t /\ pc[u] = from => pc'[u] = to
           /\ \A u \in Threads : u # t /\ pc[u] # from => pc'[u] = pc[u]
  BY DEF WakeAll, Woken, At, TypeOK

LEMMA NotifyAllNotEmptyKeepsIInv ==
    ASSUME IInv, NEW t \in Threads, NotifyAllNotEmpty(t)
    PROVE  IInv'
  <1>1. /\ TypeOK /\ pc[t] = "closeNotEmpty" /\ MayBeAt(t, "closeNotFull")
        /\ "closeNotFull" \in Steps /\ "popAgain" \in Steps
        /\ \A u \in Threads : pc[u] = "waitNotEmpty" => MayBeAt(u, "popAgain")
    BY TypeParts DEF NotifyAllNotEmpty, MayBeAt, Steps, IInv
  <1>2. DataOK' /\ queue' = queue /\ closed' = closed /\ swallowed' = swallowed
    BY TypeParts DEF NotifyAllNotEmpty, exceptions,
                     IInv, DataOK, EndIsFinal, SwallowedOnlyByThrow
  <1>3. /\ pc' \in [Threads -> Steps] /\ pc'[t] = "closeNotFull"
        /\ \A u \in Threads :
             u # t /\ pc[u] = "waitNotEmpty" => pc'[u] = "popAgain"
        /\ \A u \in Threads : u # t /\ pc[u] # "waitNotEmpty" => pc'[u] = pc[u]
    BY <1>1, WakeAllFrame DEF NotifyAllNotEmpty
  <1>4. TypeOK' /\ EndIsFinal' /\ SwallowedOnlyByThrow'
    BY <1>1, <1>2, <1>3, TypeParts, TypePartsNext DEF IInv
  <1>5. \A u \in Threads : pc'[u] # "waitNotEmpty"
    BY <1>1, <1>3
  <1>6. /\ \A u \in Threads : pc'[u] = "notifyNotFull" <=> pc[u] = "notifyNotFull"
        /\ \A u \in Threads : pc'[u] = "pushAgain" <=> pc[u] = "pushAgain"
        /\ \A u \in Threads : pc'[u] = "waitNotFull" <=> pc[u] = "waitNotFull"
    BY <1>1, <1>3
  <1>7. /\ Count(Threads, pc', "notifyNotFull") = Count(Threads, pc, "notifyNotFull")
        /\ Count(Threads, pc', "pushAgain") = Count(Threads, pc, "pushAgain")
    BY <1>6, SameCount
  <1>8. NoLostNotEmpty' /\ NoLostNotFull'
    BY <1>2, <1>5, <1>6, <1>7, Balances, BalancesNext DEF IInv
  <1>9. CloseIsComing'
    BY <1>3, <1>5, ClosingNext
  <1> QED
    BY <1>4, <1>8, <1>9 DEF IInv

LEMMA NotifyAllNotFullKeepsIInv ==
    ASSUME IInv, NEW t \in Threads, NotifyAllNotFull(t)
    PROVE  IInv'
  <1>1. /\ TypeOK /\ pc[t] = "closeNotFull" /\ MayBeAt(t, "idle")
        /\ "idle" \in Steps /\ "pushAgain" \in Steps
        /\ \A u \in Threads : pc[u] = "waitNotFull" => MayBeAt(u, "pushAgain")
    BY TypeParts DEF NotifyAllNotFull, MayBeAt, Steps, IInv
  <1>2. DataOK' /\ queue' = queue /\ closed' = closed /\ swallowed' = swallowed
    BY TypeParts DEF NotifyAllNotFull, exceptions,
                     IInv, DataOK, EndIsFinal, SwallowedOnlyByThrow
  <1>3. /\ pc' \in [Threads -> Steps] /\ pc'[t] = "idle"
        /\ \A u \in Threads :
             u # t /\ pc[u] = "waitNotFull" => pc'[u] = "pushAgain"
        /\ \A u \in Threads : u # t /\ pc[u] # "waitNotFull" => pc'[u] = pc[u]
    BY <1>1, WakeAllFrame DEF NotifyAllNotFull
  <1>4. TypeOK' /\ EndIsFinal' /\ SwallowedOnlyByThrow'
    BY <1>1, <1>2, <1>3, TypeParts, TypePartsNext DEF IInv
  <1>5. \A u \in Threads : pc'[u] # "waitNotFull"
    BY <1>1, <1>3
  <1>6. /\ \A u \in Threads : pc'[u] = "notifyNotEmpty" <=> pc[u] = "notifyNotEmpty"
        /\ \A u \in Threads : pc'[u] = "popAgain" <=> pc[u] = "popAgain"
        /\ \A u \in Threads : pc'[u] = "waitNotEmpty" <=> pc[u] = "waitNotEmpty"
        /\ \A u \in Threads : pc'[u] = "closeNotEmpty" <=> pc[u] = "closeNotEmpty"
    BY <1>1, <1>3
  <1>7. /\ Count(Threads, pc', "notifyNotEmpty") = Count(Threads, pc, "notifyNotEmpty")
        /\ Count(Threads, pc', "popAgain") = Count(Threads, pc, "popAgain")
    BY <1>6, SameCount
  <1>8. NoLostNotEmpty' /\ NoLostNotFull'
    BY <1>2, <1>5, <1>6, <1>7, Balances, BalancesNext DEF IInv
  <1>9. CloseIsComing'
    BY <1>2, <1>5, <1>6, Closing, ClosingNext DEF IInv
  <1> QED
    BY <1>4, <1>8, <1>9 DEF IInv

-----------------------------------------------------------------------------
(* The theorems. *)

LEMMA InitIInv == Init => IInv
  <1> SUFFICES ASSUME Init PROVE IInv
    OBVIOUS
  <1> USE DEF Init
  <1>1. TypeOK
    <2>1. queue \in Seq(Values) /\ Len(queue) <= Capacity /\ popped \in Seq(Values)
      BY CapacityAssumption
    <2>2. pc \in [Threads -> Steps] /\ \A t \in Threads : pc[t] = "idle"
      BY DEF Steps
    <2>3. accepted \in [Producers -> 0 .. MaxPushes] /\ thrown \in 0 .. MaxThrows
      BY BoundsAssumption
    <2> QED
      BY <2>1, <2>2, <2>3 DEF TypeOK, Threads
  <1>2. NoLostNotEmpty /\ NoLostNotFull
    BY Balances
  <1> QED
    BY <1>1, <1>2, Closing DEF IInv, EndIsFinal, SwallowedOnlyByThrow

LEMMA NextKeepsIInv == IInv /\ [Next]_vars => IInv'
  <1> SUFFICES ASSUME IInv, [Next]_vars PROVE IInv'
    OBVIOUS
  <1>1. ASSUME NEW p \in Producers, Emplace(p) PROVE IInv'
    BY <1>1, EmplaceBlocksKeepsIInv, EmplaceRejectedKeepsIInv,
       EmplaceThrowsKeepsIInv, PutBackKeepsIInv DEF Emplace, EmplaceAppends
  <1>2. ASSUME NEW p \in Producers, TryEmplace(p) PROVE IInv'
    BY <1>2, PutBackKeepsIInv DEF TryEmplace
  <1>3. ASSUME NEW c \in Consumers, WaitAndPop(c) PROVE IInv'
    BY <1>3, PopBlocksKeepsIInv, PopEndsKeepsIInv, PopThrowsKeepsIInv,
       TakeFrontKeepsIInv DEF WaitAndPop, PopTakes
  <1>4. ASSUME NEW c \in Consumers, TryPop(c) PROVE IInv'
    BY <1>4, TakeFrontKeepsIInv DEF TryPop, Popping
  <1>5. CASE UNCHANGED vars
    BY <1>5 DEF vars, exceptions, IInv, TypeOK, NoLostNotEmpty, NoLostNotFull,
                EndIsFinal, CloseIsComing, SwallowedOnlyByThrow, At
  <1> QED
    BY <1>1, <1>2, <1>3, <1>4, <1>5, NotifyNotEmptyKeepsIInv,
       NotifyNotFullKeepsIInv, CloseKeepsIInv, NotifyAllNotEmptyKeepsIInv,
       NotifyAllNotFullKeepsIInv, SpuriousWakeupKeepsIInv DEF Next

\* The inductive invariant holds in every reachable state.
THEOREM InvariantHolds == Spec => []IInv
  BY InitIInv, NextKeepsIInv, PTL DEF Spec

\* Each variable has its type, the queue never holds more than Capacity values.
THEOREM TypeCorrect == Spec => []TypeOK
  <1>1. IInv => TypeOK
    BY DEF IInv
  <1> QED
    BY <1>1, InvariantHolds, PTL

\* No wakeup of a consumer is lost, whichever waiter notify_one picks, whoever
\* else takes the value first and however often waiters wake spuriously; unless
\* a call throws after it has been woken up.
THEOREM NotEmptyReachesPops == Spec => []NoLostNotEmpty
  <1>1. IInv => NoLostNotEmpty
    BY DEF IInv
  <1> QED
    BY <1>1, InvariantHolds, PTL

\* Nor is a wakeup of a producer lost while the queue is open.
THEOREM NotFullReachesPushes == Spec => []NoLostNotFull
  <1>1. IInv => NoLostNotFull
    BY DEF IInv
  <1> QED
    BY <1>1, InvariantHolds, PTL

\* "Closed and empty" is final.
THEOREM EndStaysFinal == Spec => []EndIsFinal
  <1>1. IInv => EndIsFinal
    BY DEF IInv
  <1> QED
    BY <1>1, InvariantHolds, PTL

\* No thread is left asleep by close().
THEOREM CloseReachesEverybody == Spec => []CloseIsComing
  <1>1. IInv => CloseIsComing
    BY DEF IInv
  <1> QED
    BY <1>1, InvariantHolds, PTL

\* Where no element operation throws, wait_and_pop sleeps on nothing but an
\* empty queue once all calls have come to rest; the run in which one throws
\* shows that the condition is needed.
THEOREM BlockedPopFindsNothing == Spec => [](thrown = 0 => BlockedPopMeansEmpty)
  <1>1. IInv => (thrown = 0 => BlockedPopMeansEmpty)
    <2> SUFFICES ASSUME IInv, thrown = 0, Quiet, At("waitNotEmpty") # {}
                 PROVE  queue = <<>>
      BY DEF BlockedPopMeansEmpty
    <2>1. ~swallowed /\ queue \in Seq(Values)
      BY DEF IInv, TypeOK, SwallowedOnlyByThrow
    <2>2. Count(Threads, pc, "notifyNotEmpty") = 0 /\ Count(Threads, pc, "popAgain") = 0
      BY CountZero, ThreadsFinite DEF Quiet
    <2>3. Len(queue) <= 0
      BY <2>1, <2>2, Balances DEF IInv, At
    <2> QED
      BY <2>1, <2>3
  <1> QED
    BY <1>1, InvariantHolds, PTL

\* The queue is a bounded FIFO that can be drained after it has been closed,
\* whatever throws and whoever wakes.
THEOREM KeepsThePromise == Spec => Promise!Spec
  <1>1. Init => Promise!Init
    BY DEF Init, Promise!Init
  <1>2. IInv /\ [Next]_vars => [Promise!Next]_<<queue, closed, popped>>
    <2> SUFFICES ASSUME IInv, [Next]_vars
                 PROVE  Promise!Next \/ UNCHANGED <<queue, closed, popped>>
      OBVIOUS
    <2>1. ASSUME NEW p \in Producers, Pushing(p), MayAppend(p), PutBack(p)
          PROVE  Promise!Next
      <3>1. <<p, accepted[p] + 1>> \in Values
        BY <2>1, BoundsAssumption DEF Pushing, Values, IInv, TypeOK
      <3>2. Promise!Put(<<p, accepted[p] + 1>>)
        BY <2>1, CapacityAssumption
           DEF PutBack, MayAppend, Full, Promise!Put, IInv, TypeOK
      <3> QED
        BY <3>1, <3>2 DEF Promise!Next
    <2>2. ASSUME NEW c \in Consumers, TakeFront(c)
          PROVE  Promise!Next
      BY <2>2 DEF TakeFront, Promise!Take, Promise!Next
    <2>3. ASSUME NEW t \in Threads, Close(t)
          PROVE  Promise!Next
      BY <2>3 DEF Close, Promise!Close, Promise!Next
    <2>4. ASSUME NEW p \in Producers,
                 EmplaceBlocks(p) \/ EmplaceRejected(p) \/ EmplaceThrows(p)
                   \/ NotifyNotEmpty(p)
          PROVE  UNCHANGED <<queue, closed, popped>>
      BY <2>4 DEF EmplaceBlocks, EmplaceRejected, EmplaceThrows, NotifyNotEmpty
    <2>5. ASSUME NEW c \in Consumers,
                 PopBlocks(c) \/ PopEnds(c) \/ PopThrows(c) \/ NotifyNotFull(c)
          PROVE  UNCHANGED <<queue, closed, popped>>
      BY <2>5 DEF PopBlocks, PopEnds, PopThrows, OnThrow, NotifyNotFull
    <2>6. ASSUME NEW t \in Threads,
                 NotifyAllNotEmpty(t) \/ NotifyAllNotFull(t) \/ SpuriousWakeup(t)
          PROVE  UNCHANGED <<queue, closed, popped>>
      BY <2>6 DEF NotifyAllNotEmpty, NotifyAllNotFull, SpuriousWakeup
    <2>7. CASE UNCHANGED vars
      BY <2>7 DEF vars
    <2> QED
      BY <2>1, <2>2, <2>3, <2>4, <2>5, <2>6, <2>7
         DEF Next, Emplace, EmplaceAppends, TryEmplace,
             WaitAndPop, PopTakes, TryPop
  <1> QED
    BY <1>1, <1>2, InvariantHolds, PTL DEF Spec, Promise!Spec

-----------------------------------------------------------------------------
(* The order of the values. *)

LEMMA HistoryGrows ==
    ASSUME IInv, ValuesInOrder, NEW p \in Producers,
           Pushing(p), MayAppend(p), PutBack(p)
    PROVE  ValuesInOrder'
  <1> DEFINE h == History
             g == History'
             n == Len(History)
             v == <<p, accepted[p] + 1>>
  <1>1. /\ h \in Seq(Values) /\ n \in Nat /\ v \in Values
        /\ accepted \in [Producers -> 0 .. MaxPushes]
        /\ accepted' = [accepted EXCEPT ![p] = @ + 1]
    BY BoundsAssumption DEF IInv, TypeOK, History, Values, Pushing, PutBack
  <1>2. g = Append(h, v)
    <2>1. queue \in Seq(Values) /\ popped \in Seq(Values)
      BY DEF IInv, TypeOK
    <2>2. popped \o Append(queue, v) = Append(popped \o queue, v)
      BY <1>1, <2>1, AppendIsConcat, ConcatAssociative, ConcatProperties, SMTT(30)
    <2> QED
      BY <2>2 DEF PutBack, History
  <1>3. Len(g) = n + 1 /\ g[n + 1] = v /\ \A i \in 1 .. n : g[i] = h[i]
    BY <1>1, <1>2
  <1>4. \A i \in 1 .. n : h[i] \in Producers \X (1 .. MaxPushes)
    BY <1>1 DEF Values
  <1>5. /\ \A q \in Producers : \A k \in 1 .. accepted[q] :
             \E i \in 1 .. n : h[i] = <<q, k>>
        /\ \A i \in 1 .. n : h[i][2] <= accepted[h[i][1]]
        /\ \A i, j \in 1 .. n :
             i < j /\ h[i][1] = h[j][1] => h[i][2] < h[j][2]
    BY DEF ValuesInOrder
  <1> HIDE DEF h, g, n
  <1>6. ASSUME NEW q \in Producers, NEW k \in 1 .. accepted'[q]
        PROVE  \E i \in 1 .. n + 1 : g[i] = <<q, k>>
    <2>1. CASE k \in 1 .. accepted[q]
      <3>1. PICK i \in 1 .. n : h[i] = <<q, k>>
        BY <1>5, <2>1
      <3>2. i \in 1 .. n + 1 /\ g[i] = <<q, k>>
        BY <1>1, <1>3, <3>1
      <3> QED
        BY <3>2
    <2>2. CASE k \notin 1 .. accepted[q]
      <3>1. q = p /\ k = accepted[p] + 1
        BY <1>1, <1>6, <2>2
      <3> QED
        BY <1>1, <1>3, <3>1
    <2> QED
      BY <2>1, <2>2
  <1>7. ASSUME NEW i \in 1 .. n + 1
        PROVE  g[i][2] <= accepted'[g[i][1]]
    <2>1. CASE i = n + 1
      BY <1>1, <1>3, <2>1
    <2>2. CASE i # n + 1
      <3>1. i \in 1 .. n
        BY <1>1, <2>2
      <3>2. /\ g[i] = h[i] /\ h[i][1] \in Producers /\ h[i][2] \in 1 .. MaxPushes
            /\ h[i][2] <= accepted[h[i][1]]
        BY <1>3, <1>4, <1>5, <3>1
      <3> QED
        BY <1>1, <3>2
    <2> QED
      BY <2>1, <2>2
  <1>8. ASSUME NEW i \in 1 .. n + 1, NEW j \in 1 .. n + 1,
               i < j, g[i][1] = g[j][1]
        PROVE  g[i][2] < g[j][2]
    <2>1. i \in 1 .. n
      BY <1>1, <1>8
    <2>2. /\ g[i] = h[i] /\ h[i][1] \in Producers /\ h[i][2] \in 1 .. MaxPushes
          /\ h[i][2] <= accepted[h[i][1]]
      BY <1>3, <1>4, <1>5, <2>1
    <2>3. CASE j = n + 1
      BY <1>1, <1>3, <1>8, <2>2, <2>3
    <2>4. CASE j # n + 1
      <3>1. j \in 1 .. n
        BY <1>1, <2>4
      <3> QED
        BY <1>3, <1>5, <1>8, <2>1, <3>1
    <2> QED
      BY <2>3, <2>4
  <1>9. TypeOK'
    BY PutBackKeepsIInv DEF IInv
  <1> QED
    BY <1>3, <1>6, <1>7, <1>8, <1>9 DEF ValuesInOrder, g

\* What leaves the queue becomes part of what was popped.
LEMMA HistoryStays ==
    ASSUME IInv, NEW c \in Consumers, TakeFront(c)
    PROVE  History' = History /\ accepted' = accepted
  <1>1. queue \in Seq(Values) /\ queue # <<>> /\ popped \in Seq(Values)
    BY DEF IInv, TypeOK, TakeFront
  <1>2. /\ Head(queue) \in Values /\ Tail(queue) \in Seq(Values)
        /\ queue = <<Head(queue)>> \o Tail(queue)
    BY <1>1
  <1>3. Append(popped, Head(queue)) = popped \o <<Head(queue)>>
    BY <1>1, <1>2, AppendIsConcat
  <1>4. (popped \o <<Head(queue)>>) \o Tail(queue) = popped \o queue
    BY <1>1, <1>2, ConcatAssociative
  <1> QED
    BY <1>3, <1>4 DEF TakeFront, History

LEMMA NextKeepsOrder == IInv /\ ValuesInOrder /\ [Next]_vars => ValuesInOrder'
  <1> SUFFICES ASSUME IInv, ValuesInOrder, [Next]_vars PROVE ValuesInOrder'
    OBVIOUS
  <1>1. ASSUME History' = History, accepted' = accepted
        PROVE  ValuesInOrder'
    BY <1>1, NextKeepsIInv DEF ValuesInOrder, IInv
  <1>2. ASSUME queue' = queue, popped' = popped, accepted' = accepted
        PROVE  ValuesInOrder'
    BY <1>1, <1>2 DEF History
  <1>3. ASSUME NEW p \in Producers, Emplace(p) \/ TryEmplace(p) \/ NotifyNotEmpty(p)
        PROVE  ValuesInOrder'
    BY <1>2, <1>3, HistoryGrows
       DEF Emplace, EmplaceBlocks, EmplaceRejected, EmplaceThrows,
           EmplaceAppends, TryEmplace, NotifyNotEmpty
  <1>4. ASSUME NEW c \in Consumers, WaitAndPop(c) \/ TryPop(c) \/ NotifyNotFull(c)
        PROVE  ValuesInOrder'
    BY <1>1, <1>2, <1>4, HistoryStays
       DEF WaitAndPop, PopBlocks, PopEnds, PopThrows, OnThrow, PopTakes, TryPop,
           NotifyNotFull
  <1>5. ASSUME NEW t \in Threads, \/ Close(t) \/ NotifyAllNotEmpty(t)
                                  \/ NotifyAllNotFull(t) \/ SpuriousWakeup(t)
        PROVE  ValuesInOrder'
    BY <1>2, <1>5 DEF Close, NotifyAllNotEmpty, NotifyAllNotFull, SpuriousWakeup
  <1>6. CASE UNCHANGED vars
    BY <1>2, <1>6 DEF vars
  <1> QED
    BY <1>3, <1>4, <1>5, <1>6 DEF Next

\* No value is lost, repeated or overtaken by one of the same producer.
THEOREM ValuesKeepOrder == Spec => []ValuesInOrder
  <1>1. Init => ValuesInOrder
    <2>1. ASSUME Init
          PROVE  History = <<>> /\ \A p \in Producers : accepted[p] = 0
      BY <2>1 DEF Init, History
    <2>2. Init => TypeOK
      BY InitIInv DEF IInv
    <2> QED
      BY <2>1, <2>2 DEF ValuesInOrder
  <1> QED
    BY <1>1, InvariantHolds, NextKeepsOrder, PTL DEF Spec
=============================================================================
