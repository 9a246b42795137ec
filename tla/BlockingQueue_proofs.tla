------------------------ MODULE BlockingQueue_proofs ------------------------
(***************************************************************************)
(* Proofs that the safety properties of BlockingQueue hold for all finite   *)
(* sets of producers and consumers.                                        *)
(***************************************************************************)
EXTENDS BlockingQueue, SharedLemmas, SequenceTheorems

LEMMA ThreadsFinite == IsFiniteSet(Threads)
  BY ThreadsAssumption, FS_Union DEF Threads

-----------------------------------------------------------------------------
(* The invariant in terms of counts. *)

\* The threads that stand for one value in the queue.
Wakeups(f) == Count(Threads, f, "notifyOne") + Count(Threads, f, "popAgain")

\* The part of NoLostWakeup that is not TypeOK.
LEMMA Balance ==
    NoLostWakeup <=>
      /\ TypeOK
      /\ ~swallowed /\ (\E t \in Threads : pc[t] = "wait") =>
           Len(queue) <= Wakeups(pc)
  BY Zenon DEF NoLostWakeup, At, Wakeups, Count

LEMMA BalanceNext ==
    NoLostWakeup' <=>
      /\ TypeOK'
      /\ ~swallowed' /\ (\E t \in Threads : pc'[t] = "wait") =>
           Len(queue') <= Wakeups(pc')
  BY Zenon DEF NoLostWakeup, At, Wakeups, Count

LEMMA Closing ==
    CloseIsComing <=>
      (closed /\ (\E t \in Threads : pc[t] = "wait")
         => \E t \in Threads : pc[t] = "notifyAll")
  BY DEF CloseIsComing, At

LEMMA ClosingNext ==
    CloseIsComing' <=>
      (closed' /\ (\E t \in Threads : pc'[t] = "wait")
         => \E t \in Threads : pc'[t] = "notifyAll")
  BY DEF CloseIsComing, At

\* The part of TypeOK that is not about pc.
DataOK ==
    /\ queue \in Seq(Values) /\ closed \in BOOLEAN
    /\ accepted \in [Producers -> 0 .. MaxPushes]
    /\ popped \in Seq(Values)
    /\ thrown \in 0 .. MaxThrows /\ swallowed \in BOOLEAN

\* May t be at `step`?
MayBeAt(t, step) ==
    /\ step \in Steps
    /\ t \in Producers => step \notin {"wait", "popAgain"}
    /\ t \in Consumers => step # "notifyOne"

\* How many wakeups a thread at `step` stands for.
Wakes(step) == IF step \in {"notifyOne", "popAgain"} THEN 1 ELSE 0

LEMMA TypeParts ==
    TypeOK <=> /\ DataOK
               /\ pc \in [Threads -> Steps]
               /\ \A t \in Threads : MayBeAt(t, pc[t])
  BY DEF TypeOK, DataOK, MayBeAt, Threads

LEMMA TypePartsNext ==
    TypeOK' <=> /\ DataOK'
                /\ pc' \in [Threads -> Steps]
                /\ \A t \in Threads : MayBeAt(t, pc'[t])
  BY DEF TypeOK, DataOK, MayBeAt, Threads

LEMMA WakeupsIsNat == ASSUME NEW f PROVE Wakeups(f) \in Nat
  BY CountIsNat, ThreadsFinite DEF Wakeups

LEMMA WakeupsAfterMove ==
    ASSUME NEW f, NEW g, NEW u \in Threads, OnlyMover(Threads, f, g, u)
    PROVE  Wakeups(g) = Wakeups(f) + Wakes(g[u]) - Wakes(f[u])
  <1>1. /\ Count(Threads, g, "notifyOne") = Count(Threads, f, "notifyOne")
             + (IF g[u] = "notifyOne" THEN 1 ELSE 0)
             - (IF f[u] = "notifyOne" THEN 1 ELSE 0)
        /\ Count(Threads, g, "popAgain") = Count(Threads, f, "popAgain")
             + (IF g[u] = "popAgain" THEN 1 ELSE 0)
             - (IF f[u] = "popAgain" THEN 1 ELSE 0)
    BY CountAfterMove, ThreadsFinite
  <1>2. /\ Wakes(g[u]) = (IF g[u] = "notifyOne" THEN 1 ELSE 0)
                         + (IF g[u] = "popAgain" THEN 1 ELSE 0)
        /\ Wakes(f[u]) = (IF f[u] = "notifyOne" THEN 1 ELSE 0)
                         + (IF f[u] = "popAgain" THEN 1 ELSE 0)
    BY DEF Wakes
  <1>3. /\ Count(Threads, f, "notifyOne") \in Nat
        /\ Count(Threads, f, "popAgain") \in Nat
        /\ Count(Threads, g, "notifyOne") \in Nat
        /\ Count(Threads, g, "popAgain") \in Nat
    BY CountIsNat, ThreadsFinite
  <1> QED
    BY <1>1, <1>2, <1>3 DEF Wakeups

-----------------------------------------------------------------------------
(* Steps in which one thread moves and nobody is woken by another one. *)

\* The invariant survives if the step uses up no wakeup without taking a value
\* and adds no value without a wakeup, and lets a thread sleep only on an empty
\* queue; or if nobody sleeps.
LEMMA MoveKeepsIInv ==
    ASSUME IInv, NEW t \in Threads, NEW to, GoTo(t, to), MayBeAt(t, to), DataOK',
           pc[t] # "notifyAll", closed => closed', swallowed => swallowed',
           ~swallowed' /\ Len(queue') # 0 /\ At("wait") # {} =>
             Len(queue') + Wakes(pc[t]) <= Len(queue) + Wakes(to),
           to = "wait" => ~closed' /\ Len(queue') = 0,
           closed' /\ ~closed => to = "notifyAll"
    PROVE  IInv'
  <1>1. /\ TypeOK /\ pc \in [Threads -> Steps] /\ to \in Steps
        /\ Len(queue) \in Nat /\ Len(queue') \in Nat
    BY Balance DEF IInv, TypeOK, MayBeAt, DataOK
  <1>2. /\ pc' \in [Threads -> Steps] /\ pc'[t] = to
        /\ \A u \in Threads : u # t => pc'[u] = pc[u]
    BY <1>1 DEF GoTo
  <1>3. TypeOK'
    BY <1>1, <1>2, TypeParts, TypePartsNext
  <1>4. ~swallowed' /\ (\E u \in Threads : pc'[u] = "wait")
          => Len(queue') <= Wakeups(pc')
    <2>1. CASE Len(queue') = 0
      <3>1. Wakeups(pc') \in Nat
        BY WakeupsIsNat
      <3> QED
        BY <2>1, <3>1
    <2>2. CASE Len(queue') # 0
      <3>1. (\E u \in Threads : pc'[u] = "wait")
              => /\ \E u \in Threads : pc[u] = "wait"
                 /\ At("wait") # {}
        BY <1>2, <2>2 DEF At
      <3>2. ~swallowed /\ (\E u \in Threads : pc[u] = "wait")
              => Len(queue) <= Wakeups(pc)
        BY Balance DEF IInv
      <3>3. Wakeups(pc') = Wakeups(pc) + Wakes(to) - Wakes(pc[t])
        <4>1. OnlyMover(Threads, pc, pc', t)
          BY <1>2 DEF OnlyMover
        <4> QED
          BY <1>2, <4>1, WakeupsAfterMove
      <3>4. /\ Wakes(to) \in Nat /\ Wakes(pc[t]) \in Nat
            /\ Wakeups(pc) \in Nat /\ Wakeups(pc') \in Nat
        BY WakeupsIsNat DEF Wakes
      <3> QED
        BY <1>1, <2>2, <3>1, <3>2, <3>3, <3>4
    <2> QED
      BY <2>1, <2>2
  <1>5. CloseIsComing'
    <2>1. CASE to = "notifyAll"
      BY <1>2, <2>1, ClosingNext
    <2>2. CASE to # "notifyAll"
      <3>1. \A u \in Threads : pc[u] = "notifyAll" => pc'[u] = "notifyAll"
        BY <1>2
      <3>2. closed' => \A u \in Threads : pc'[u] = "wait" => pc[u] = "wait"
        BY <1>2
      <3> QED
        BY <2>2, <3>1, <3>2, Closing, ClosingNext DEF IInv
    <2> QED
      BY <2>1, <2>2
  <1> QED
    BY <1>3, <1>4, <1>5, BalanceNext DEF IInv

-----------------------------------------------------------------------------
(* The steps of producers. *)

LEMMA EmplaceKeepsIInv ==
    ASSUME IInv, NEW p \in Producers, Emplace(p)
    PROVE  IInv'
  <1>1. /\ p \in Threads /\ pc[p] = "idle" /\ GoTo(p, "notifyOne")
        /\ MayBeAt(p, "notifyOne")
    BY ThreadsAssumption DEF Emplace, AfterPush, Threads, MayBeAt, Steps
  <1>2. TypeOK
    BY Balance DEF IInv
  <1>3. /\ Len(queue) \in Nat /\ queue' \in Seq(Values)
        /\ Len(queue') = Len(queue) + 1
        /\ accepted' \in [Producers -> 0 .. MaxPushes]
    <2>1. accepted[p] \in 0 .. MaxPushes /\ accepted[p] + 1 \in 1 .. MaxPushes
      BY <1>2, BoundsAssumption DEF Emplace, TypeOK
    <2>2. <<p, accepted[p] + 1>> \in Values
      BY <2>1 DEF Values
    <2>3. accepted' \in [Producers -> 0 .. MaxPushes]
      BY <1>2, <2>1 DEF Emplace, TypeOK
    <2>4. queue \in Seq(Values) /\ queue' = Append(queue, <<p, accepted[p] + 1>>)
      BY <1>2 DEF Emplace, TypeOK
    <2> QED
      BY <2>2, <2>3, <2>4
  <1>4. closed' = closed /\ swallowed' = swallowed /\ ~closed
    BY DEF Emplace, Accepting, exceptions
  <1>5. DataOK'
    BY <1>2, <1>3, <1>4 DEF Emplace, exceptions, TypeOK, DataOK
  <1>6. Wakes("idle") = 0 /\ Wakes("notifyOne") = 1
    BY DEF Wakes
  <1> QED
    BY <1>1, <1>3, <1>4, <1>5, <1>6, MoveKeepsIInv

\* The notifier's wakeup becomes the waiter's.
LEMMA HandOver ==
    ASSUME TypeOK, NEW p \in Threads, NEW w \in Threads,
           pc[p] = "notifyOne", pc[w] = "wait",
           pc' = [pc EXCEPT ![p] = "idle", ![w] = "popAgain"]
    PROVE  /\ pc' \in [Threads -> Steps]
           /\ pc'[p] = "idle" /\ pc'[w] = "popAgain"
           /\ \A u \in Threads : u # p /\ u # w => pc'[u] = pc[u]
  BY DEF TypeOK, Steps

LEMMA WakeupsAfterTwoMoves ==
    ASSUME NEW f, NEW g, NEW p \in Threads, NEW w \in Threads, p # w,
           OnlyMovers(Threads, f, g, p, w)
    PROVE  Wakeups(g) = Wakeups(f) + Wakes(g[p]) - Wakes(f[p])
                                   + Wakes(g[w]) - Wakes(f[w])
  <1>1. PICK h : /\ h[p] = g[p] /\ h[w] = f[w]
                 /\ OnlyMover(Threads, f, h, p) /\ OnlyMover(Threads, h, g, w)
    <2> DEFINE H == [t \in Threads |-> IF t = p THEN g[p] ELSE f[t]]
    <2>1. /\ H[p] = g[p] /\ H[w] = f[w]
          /\ \A t \in Threads : t # p => H[t] = f[t]
          /\ \A t \in Threads : t # w => g[t] = H[t]
      BY DEF OnlyMovers
    <2> QED
      BY <2>1 DEF OnlyMover
  <1>2. /\ Wakeups(h) = Wakeups(f) + Wakes(h[p]) - Wakes(f[p])
        /\ Wakeups(g) = Wakeups(h) + Wakes(g[w]) - Wakes(h[w])
    BY <1>1, WakeupsAfterMove
  <1> QED
    BY <1>1, <1>2

LEMMA NotifyOneKeepsIInv ==
    ASSUME IInv, NEW p \in Producers, NotifyOne(p)
    PROVE  IInv'
  <1>1. /\ TypeOK /\ p \in Threads /\ pc[p] = "notifyOne" /\ MayBeAt(p, "idle")
        /\ Len(queue) \in Nat
    BY ThreadsAssumption, Balance
       DEF NotifyOne, Threads, MayBeAt, Steps, IInv, TypeOK
  <1>2. DataOK' /\ queue' = queue /\ closed' = closed /\ swallowed' = swallowed
    BY <1>1 DEF NotifyOne, exceptions, TypeOK, DataOK
  <1>3. CASE At("wait") = {} /\ GoTo(p, "idle")
    BY <1>1, <1>2, <1>3, MoveKeepsIInv
  <1>4. ASSUME NEW w \in At("wait"),
               pc' = [pc EXCEPT ![p] = "idle", ![w] = "popAgain"]
        PROVE  IInv'
    <2>1. w \in Threads /\ pc[w] = "wait"
      BY DEF At
    <2>2. MayBeAt(w, "popAgain")
      BY <1>1, <2>1, TypeParts DEF MayBeAt, Steps
    <2>3. /\ pc' \in [Threads -> Steps]
          /\ pc'[p] = "idle" /\ pc'[w] = "popAgain"
          /\ \A u \in Threads : u # p /\ u # w => pc'[u] = pc[u]
      BY <1>1, <1>4, <2>1, HandOver
    <2> HIDE <1>4
    <2>4. TypeOK'
      BY <1>1, <1>2, <2>2, <2>3, TypeParts, TypePartsNext
    <2>5. Wakeups(pc') = Wakeups(pc)
      <3>1. OnlyMovers(Threads, pc, pc', p, w)
        BY <2>3 DEF OnlyMovers
      <3>2. Wakeups(pc') = Wakeups(pc) + Wakes(pc'[p]) - Wakes(pc[p])
                                       + Wakes(pc'[w]) - Wakes(pc[w])
        BY <1>1, <2>1, <3>1, WakeupsAfterTwoMoves
      <3>3. /\ Wakes(pc'[p]) = 0 /\ Wakes(pc[p]) = 1
            /\ Wakes(pc'[w]) = 1 /\ Wakes(pc[w]) = 0
        BY <1>1, <2>1, <2>3 DEF Wakes
      <3>4. Wakeups(pc) \in Nat
        BY WakeupsIsNat
      <3> QED
        BY <3>2, <3>3, <3>4
    <2>6. \A u \in Threads : pc'[u] = "wait" => pc[u] = "wait"
      BY <2>3
    <2>7. NoLostWakeup'
      BY <1>2, <2>4, <2>5, <2>6, Balance, BalanceNext DEF IInv
    <2>8. \A u \in Threads : pc[u] = "notifyAll" => pc'[u] = "notifyAll"
      BY <1>1, <2>1, <2>3
    <2>9. CloseIsComing'
      BY <1>2, <2>6, <2>8, Closing, ClosingNext DEF IInv
    <2> QED
      BY <2>7, <2>9 DEF IInv
  <1> QED
    BY <1>3, <1>4 DEF NotifyOne

-----------------------------------------------------------------------------
(* The steps of consumers. *)

LEMMA PopBlocksKeepsIInv ==
    ASSUME IInv, NEW c \in Consumers, PopBlocks(c)
    PROVE  IInv'
  <1>1. /\ c \in Threads /\ pc[c] \in {"idle", "popAgain"}
        /\ GoTo(c, "wait") /\ MayBeAt(c, "wait")
    BY ThreadsAssumption DEF PopBlocks, Popping, Threads, MayBeAt, Steps
  <1>2. DataOK'
    BY Balance DEF PopBlocks, exceptions, IInv, TypeOK, DataOK
  <1>3. /\ queue' = queue /\ closed' = closed /\ swallowed' = swallowed
        /\ ~closed /\ Len(queue') = 0
    BY DEF PopBlocks, exceptions
  <1> QED
    BY <1>1, <1>2, <1>3, MoveKeepsIInv

LEMMA PopEndsKeepsIInv ==
    ASSUME IInv, NEW c \in Consumers, PopEnds(c)
    PROVE  IInv'
  <1>1. /\ c \in Threads /\ pc[c] \in {"idle", "popAgain"}
        /\ GoTo(c, "idle") /\ MayBeAt(c, "idle")
    BY DEF PopEnds, Popping, Threads, MayBeAt, Steps
  <1>2. DataOK'
    BY Balance DEF PopEnds, exceptions, IInv, TypeOK, DataOK
  <1>3. /\ queue' = queue /\ closed' = closed /\ swallowed' = swallowed
        /\ closed /\ Len(queue') = 0
    BY DEF PopEnds, exceptions
  <1> QED
    BY <1>1, <1>2, <1>3, MoveKeepsIInv

\* A call that throws before it has slept uses up no wakeup.
LEMMA PopThrowsKeepsIInv ==
    ASSUME IInv, NEW c \in Consumers, PopThrows(c)
    PROVE  IInv'
  <1>1. /\ c \in Threads /\ pc[c] \in {"idle", "popAgain"}
        /\ GoTo(c, "idle") /\ MayBeAt(c, "idle")
    BY DEF PopThrows, Throw, Popping, Threads, MayBeAt, Steps
  <1>2. DataOK'
    BY Balance, BoundsAssumption DEF PopThrows, Throw, IInv, TypeOK, DataOK
  <1>3. queue' = queue /\ closed' = closed /\ Len(queue) \in Nat
    BY Balance DEF PopThrows, IInv, TypeOK
  <1>4. (swallowed => swallowed') /\ (~swallowed' => pc[c] = "idle")
    BY Zenon DEF PopThrows, Throw
  <1>5. Wakes("idle") = 0
    BY DEF Wakes
  <1> QED
    BY <1>1, <1>2, <1>3, <1>4, <1>5, MoveKeepsIInv

\* Both wait_and_pop and try_pop.
LEMMA TakeFrontKeepsIInv ==
    ASSUME IInv, NEW c \in Consumers, Popping(c), TakeFront(c)
    PROVE  IInv'
  <1>1. /\ c \in Threads /\ pc[c] \in {"idle", "popAgain"}
        /\ GoTo(c, "idle") /\ MayBeAt(c, "idle")
    BY DEF TakeFront, Popping, Threads, MayBeAt, Steps
  <1>2. TypeOK
    BY Balance DEF IInv
  <1>3. /\ Len(queue) \in Nat \ {0}
        /\ queue' \in Seq(Values) /\ Len(queue') = Len(queue) - 1
        /\ popped' \in Seq(Values)
    <2>1. queue \in Seq(Values) /\ queue # <<>> /\ popped \in Seq(Values)
      BY <1>2 DEF TakeFront, TypeOK
    <2>2. queue' = Tail(queue) /\ popped' = Append(popped, Head(queue))
      BY DEF TakeFront
    <2> QED
      BY <2>1, <2>2
  <1>4. closed' = closed /\ swallowed' = swallowed
    BY DEF TakeFront, exceptions
  <1>5. DataOK'
    BY <1>2, <1>3, <1>4 DEF TakeFront, exceptions, TypeOK, DataOK
  <1>6. Wakes(pc[c]) \in {0, 1} /\ Wakes("idle") = 0
    BY DEF Wakes
  <1> QED
    BY <1>1, <1>3, <1>4, <1>5, <1>6, MoveKeepsIInv

-----------------------------------------------------------------------------
(* close and spurious wakeups. *)

LEMMA CloseKeepsIInv ==
    ASSUME IInv, NEW t \in Threads, Close(t)
    PROVE  IInv'
  <1>1. pc[t] = "idle" /\ GoTo(t, "notifyAll") /\ MayBeAt(t, "notifyAll")
    BY DEF Close, MayBeAt, Steps
  <1>2. DataOK' /\ queue' = queue /\ closed' = TRUE /\ swallowed' = swallowed
    BY Balance DEF Close, exceptions, IInv, TypeOK, DataOK
  <1>3. Len(queue) \in Nat
    BY Balance DEF IInv, TypeOK
  <1>4. Wakes("idle") = 0 /\ Wakes("notifyAll") = 0
    BY DEF Wakes
  <1> QED
    BY <1>1, <1>2, <1>3, <1>4, MoveKeepsIInv

LEMMA SpuriousWakeupKeepsIInv ==
    ASSUME IInv, NEW t \in Threads, SpuriousWakeup(t)
    PROVE  IInv'
  <1>1. DataOK' /\ queue' = queue /\ closed' = closed /\ swallowed' = swallowed
    BY Balance DEF SpuriousWakeup, exceptions, IInv, TypeOK, DataOK
  <1>2. Len(queue) \in Nat /\ MayBeAt(t, pc[t])
    BY Balance, TypeParts DEF IInv, TypeOK
  <1>3. pc[t] = "wait" /\ GoTo(t, "popAgain") /\ MayBeAt(t, "popAgain")
    BY <1>2 DEF SpuriousWakeup, MayBeAt, Steps
  <1>4. Wakes("wait") = 0 /\ Wakes("popAgain") = 1
    BY DEF Wakes
  <1> QED
    BY <1>1, <1>2, <1>3, <1>4, MoveKeepsIInv

\* After notify_all nobody sleeps.
LEMMA NotifyAllKeepsIInv ==
    ASSUME IInv, NEW t \in Threads, NotifyAll(t)
    PROVE  IInv'
  <1>1. /\ TypeOK /\ pc[t] = "notifyAll" /\ MayBeAt(t, "idle")
        /\ "idle" \in Steps /\ "popAgain" \in Steps
        /\ \A u \in Threads : pc[u] = "wait" => MayBeAt(u, "popAgain")
    BY Balance, TypeParts DEF NotifyAll, MayBeAt, Steps, IInv
  <1>2. DataOK' /\ closed' = closed
    BY <1>1 DEF NotifyAll, exceptions, TypeOK, DataOK
  <1>3. /\ pc' \in [Threads -> Steps] /\ pc'[t] = "idle"
        /\ \A u \in Threads : u # t /\ pc[u] = "wait" => pc'[u] = "popAgain"
        /\ \A u \in Threads : u # t /\ pc[u] # "wait" => pc'[u] = pc[u]
    BY <1>1 DEF NotifyAll, Woken, At, TypeOK
  <1>4. TypeOK'
    BY <1>1, <1>2, <1>3, TypeParts, TypePartsNext
  <1>5. \A u \in Threads : pc'[u] # "wait"
    BY <1>1, <1>3
  <1> QED
    BY <1>4, <1>5, BalanceNext, ClosingNext DEF IInv

-----------------------------------------------------------------------------
(* The theorems. *)

LEMMA InitIInv == Init => IInv
  <1> SUFFICES ASSUME Init PROVE IInv
    OBVIOUS
  <1> USE DEF Init
  <1>1. TypeOK
    <2>1. pc \in [Threads -> Steps] /\ \A t \in Threads : pc[t] = "idle"
      BY DEF Steps
    <2>2. accepted \in [Producers -> 0 .. MaxPushes] /\ thrown \in 0 .. MaxThrows
      BY BoundsAssumption
    <2>3. queue \in Seq(Values) /\ popped \in Seq(Values)
      OBVIOUS
    <2> QED
      BY <2>1, <2>2, <2>3 DEF TypeOK, Threads
  <1>2. \A t \in Threads : pc[t] # "wait"
    OBVIOUS
  <1> QED
    BY <1>1, <1>2, Balance, Closing DEF IInv

LEMMA NextKeepsIInv == IInv /\ [Next]_vars => IInv'
  <1> SUFFICES ASSUME IInv, [Next]_vars PROVE IInv'
    OBVIOUS
  <1>1. ASSUME NEW c \in Consumers, WaitAndPop(c) PROVE IInv'
    BY <1>1, PopBlocksKeepsIInv, PopEndsKeepsIInv, PopThrowsKeepsIInv,
       TakeFrontKeepsIInv DEF WaitAndPop, PopTakes
  <1>2. ASSUME NEW c \in Consumers, TryPop(c) PROVE IInv'
    BY <1>2, TakeFrontKeepsIInv DEF TryPop, Popping
  <1>3. CASE UNCHANGED vars
    BY <1>3 DEF vars, exceptions, IInv, TypeOK, NoLostWakeup, CloseIsComing, At
  <1> QED
    BY <1>1, <1>2, <1>3, EmplaceKeepsIInv, NotifyOneKeepsIInv, CloseKeepsIInv,
       NotifyAllKeepsIInv, SpuriousWakeupKeepsIInv DEF Next

\* The inductive invariant holds in every reachable state.
THEOREM InvariantHolds == Spec => []IInv
  BY InitIInv, NextKeepsIInv, PTL DEF Spec

\* Each variable has its type.
THEOREM TypeCorrect == Spec => []TypeOK
  <1>1. IInv => TypeOK
    BY DEF IInv, NoLostWakeup
  <1> QED
    BY <1>1, InvariantHolds, PTL

\* No wakeup of a consumer is lost, whichever waiter notify_one picks, whoever
\* else takes the value first and however often waiters wake spuriously; unless
\* a call throws after it has been woken up.
THEOREM NoWakeupLost == Spec => []NoLostWakeup
  <1>1. IInv => NoLostWakeup
    BY DEF IInv
  <1> QED
    BY <1>1, InvariantHolds, PTL

\* No thread is left asleep by close().
THEOREM CloseReachesEverybody == Spec => []CloseIsComing
  <1>1. IInv => CloseIsComing
    BY DEF IInv
  <1> QED
    BY <1>1, InvariantHolds, PTL

-----------------------------------------------------------------------------
(* The order of the values. *)

LEMMA HistoryGrows ==
    ASSUME IInv, ValuesInOrder, NEW p \in Producers, Emplace(p)
    PROVE  ValuesInOrder'
  <1> DEFINE h == History
             g == History'
             n == Len(History)
             v == <<p, accepted[p] + 1>>
  <1>1. /\ h \in Seq(Values) /\ n \in Nat /\ v \in Values
        /\ accepted \in [Producers -> 0 .. MaxPushes]
        /\ accepted' = [accepted EXCEPT ![p] = @ + 1]
    BY BoundsAssumption DEF ValuesInOrder, TypeOK, History, Values, Emplace
  <1>2. g = Append(h, v)
    <2>1. queue \in Seq(Values) /\ popped \in Seq(Values)
      BY DEF ValuesInOrder, TypeOK
    <2>2. popped \o Append(queue, v) = Append(popped \o queue, v)
      BY <1>1, <2>1, AppendIsConcat, ConcatAssociative, ConcatProperties, SMTT(30)
    <2> QED
      BY <2>2 DEF Emplace, History
  <1>3. Len(g) = n + 1 /\ g[n + 1] = v /\ \A i \in 1 .. n : g[i] = h[i]
    BY <1>1, <1>2
  <1>4. \A i \in 1 .. n : h[i] \in Producers \X (1 .. MaxPushes)
    BY <1>1 DEF Values
  <1>5. /\ \A q \in Producers : \A k \in 1 .. accepted[q] :
             \E i \in 1 .. n : h[i] = <<q, k>>
        /\ \A i \in 1 .. n : h[i][2] <= accepted[h[i][1]]
        /\ \A i, j \in 1 .. n :
             i < j /\ h[i][1] = h[j][1] => h[i][2] < h[j][2]
    BY DEF ValuesInOrder
  <1> HIDE DEF h, g, n
  <1>6. ASSUME NEW q \in Producers, NEW k \in 1 .. accepted'[q]
        PROVE  \E i \in 1 .. n + 1 : g[i] = <<q, k>>
    <2>1. CASE k \in 1 .. accepted[q]
      <3>1. PICK i \in 1 .. n : h[i] = <<q, k>>
        BY <1>5, <2>1
      <3>2. i \in 1 .. n + 1 /\ g[i] = <<q, k>>
        BY <1>1, <1>3, <3>1
      <3> QED
        BY <3>2
    <2>2. CASE k \notin 1 .. accepted[q]
      <3>1. q = p /\ k = accepted[p] + 1
        BY <1>1, <1>6, <2>2
      <3> QED
        BY <1>1, <1>3, <3>1
    <2> QED
      BY <2>1, <2>2
  <1>7. ASSUME NEW i \in 1 .. n + 1
        PROVE  g[i][2] <= accepted'[g[i][1]]
    <2>1. CASE i = n + 1
      BY <1>1, <1>3, <2>1
    <2>2. CASE i # n + 1
      <3>1. i \in 1 .. n
        BY <1>1, <2>2
      <3>2. /\ g[i] = h[i] /\ h[i][1] \in Producers /\ h[i][2] \in 1 .. MaxPushes
            /\ h[i][2] <= accepted[h[i][1]]
        BY <1>3, <1>4, <1>5, <3>1
      <3> QED
        BY <1>1, <3>2
    <2> QED
      BY <2>1, <2>2
  <1>8. ASSUME NEW i \in 1 .. n + 1, NEW j \in 1 .. n + 1,
               i < j, g[i][1] = g[j][1]
        PROVE  g[i][2] < g[j][2]
    <2>1. i \in 1 .. n
      BY <1>1, <1>8
    <2>2. /\ g[i] = h[i] /\ h[i][1] \in Producers /\ h[i][2] \in 1 .. MaxPushes
          /\ h[i][2] <= accepted[h[i][1]]
      BY <1>3, <1>4, <1>5, <2>1
    <2>3. CASE j = n + 1
      BY <1>1, <1>3, <1>8, <2>2, <2>3
    <2>4. CASE j # n + 1
      <3>1. j \in 1 .. n
        BY <1>1, <2>4
      <3> QED
        BY <1>3, <1>5, <1>8, <2>1, <3>1
    <2> QED
      BY <2>3, <2>4
  <1>9. TypeOK'
    BY EmplaceKeepsIInv DEF IInv, NoLostWakeup
  <1> QED
    BY <1>3, <1>6, <1>7, <1>8, <1>9 DEF ValuesInOrder, g

\* What leaves the queue becomes part of what was popped.
LEMMA HistoryStays ==
    ASSUME TypeOK, NEW c \in Consumers, TakeFront(c)
    PROVE  History' = History /\ accepted' = accepted
  <1>1. queue \in Seq(Values) /\ queue # <<>> /\ popped \in Seq(Values)
    BY DEF TypeOK, TakeFront
  <1>2. /\ Head(queue) \in Values /\ Tail(queue) \in Seq(Values)
        /\ queue = <<Head(queue)>> \o Tail(queue)
    BY <1>1
  <1>3. Append(popped, Head(queue)) = popped \o <<Head(queue)>>
    BY <1>1, <1>2, AppendIsConcat
  <1>4. (popped \o <<Head(queue)>>) \o Tail(queue) = popped \o queue
    BY <1>1, <1>2, ConcatAssociative
  <1> QED
    BY <1>3, <1>4 DEF TakeFront, History

LEMMA NextKeepsOrder == IInv /\ ValuesInOrder /\ [Next]_vars => ValuesInOrder'
  <1> SUFFICES ASSUME IInv, ValuesInOrder, [Next]_vars PROVE ValuesInOrder'
    OBVIOUS
  <1>1. ASSUME History' = History, accepted' = accepted
        PROVE  ValuesInOrder'
    BY <1>1, NextKeepsIInv DEF ValuesInOrder, IInv, NoLostWakeup
  <1>2. ASSUME queue' = queue, popped' = popped, accepted' = accepted
        PROVE  ValuesInOrder'
    BY <1>1, <1>2 DEF History
  <1>3. ASSUME NEW p \in Producers, Emplace(p) \/ NotifyOne(p)
        PROVE  ValuesInOrder'
    BY <1>2, <1>3, HistoryGrows DEF NotifyOne
  <1>4. ASSUME NEW c \in Consumers, WaitAndPop(c) \/ TryPop(c)
        PROVE  ValuesInOrder'
    BY <1>1, <1>2, <1>4, HistoryStays
       DEF WaitAndPop, PopBlocks, PopEnds, PopThrows, PopTakes, TryPop,
           ValuesInOrder
  <1>5. ASSUME NEW t \in Threads, Close(t) \/ NotifyAll(t) \/ SpuriousWakeup(t)
        PROVE  ValuesInOrder'
    BY <1>2, <1>5 DEF Close, NotifyAll, SpuriousWakeup
  <1>6. CASE UNCHANGED vars
    BY <1>2, <1>6 DEF vars
  <1> QED
    BY <1>3, <1>4, <1>5, <1>6 DEF Next

\* No value is lost, repeated or overtaken by one of the same producer.
THEOREM ValuesKeepOrder == Spec => []ValuesInOrder
  <1>1. Init => ValuesInOrder
    <2>1. ASSUME Init
          PROVE  History = <<>> /\ \A p \in Producers : accepted[p] = 0
      BY <2>1 DEF Init, History
    <2>2. Init => TypeOK
      BY InitIInv DEF IInv, NoLostWakeup
    <2> QED
      BY <2>1, <2>2 DEF ValuesInOrder
  <1> QED
    BY <1>1, InvariantHolds, NextKeepsOrder, PTL DEF Spec

-----------------------------------------------------------------------------
(* The abstract queue. *)

\* A value that is about to be put in the queue is not there yet, and since no
\* value is there twice there is a place for it among the Cardinality(Values).
LEMMA RoomForEverything ==
    ASSUME ValuesInOrder, NEW p \in Producers, accepted[p] < MaxPushes
    PROVE  Len(queue) < Cardinality(Values)
  <1> DEFINE v == <<p, accepted[p] + 1>>
             n == Len(History)
             S == Values \ {v}
  <1>1. /\ queue \in Seq(Values) /\ popped \in Seq(Values)
        /\ accepted \in [Producers -> 0 .. MaxPushes]
    BY DEF ValuesInOrder, TypeOK
  <1>2. /\ History \in Seq(Values) /\ n \in Nat
        /\ Len(queue) \in Nat /\ Len(queue) <= n
    BY <1>1 DEF History
  <1>3. v \in Values
    BY <1>1, BoundsAssumption DEF Values
  <1>4. IsFiniteSet(Values) /\ Cardinality(Values) \in Nat
    <2>1. IsFiniteSet(1 .. MaxPushes)
      BY BoundsAssumption, FS_Interval
    <2> QED
      BY <2>1, ThreadsAssumption, FS_Product, FS_CardinalityType DEF Values
  <1>5. IsFiniteSet(S) /\ Cardinality(S) = Cardinality(Values) - 1
    BY <1>3, <1>4, FS_RemoveElement
  <1>6. \A i \in 1 .. n : History[i] \in Producers \X (1 .. MaxPushes)
    BY <1>2 DEF Values
  <1>7. \A i \in 1 .. n : History[i] # v
    BY <1>1, <1>6 DEF ValuesInOrder
  <1>8. History \in [1 .. n -> S]
    BY <1>2, <1>7
  <1>9. \A i, j \in 1 .. n : i # j => History[i] # History[j]
    <2>1. ASSUME NEW i \in 1 .. n, NEW j \in 1 .. n, i < j
          PROVE  History[i] # History[j]
      BY <1>6, <2>1 DEF ValuesInOrder
    <2> QED
      BY <1>2, <2>1
  <1> HIDE DEF n, S
  <1>10. n <= Cardinality(S)
    BY <1>2, <1>5, <1>8, <1>9, DistinctElements
  <1> QED
    BY <1>2, <1>4, <1>5, <1>10

\* The queue is a FIFO with room for everything that can be drained after it
\* has been closed, whatever throws and whoever wakes.
THEOREM KeepsThePromise == Spec => Promise!Spec
  <1>1. Init => Promise!Init
    BY DEF Init, Promise!Init
  <1>2. ValuesInOrder /\ [Next]_vars => [Promise!Next]_<<queue, closed, popped>>
    <2> SUFFICES ASSUME ValuesInOrder, [Next]_vars
                 PROVE  Promise!Next \/ UNCHANGED <<queue, closed, popped>>
      OBVIOUS
    <2>1. ASSUME NEW p \in Producers, Emplace(p)
          PROVE  Promise!Next
      <3>1. <<p, accepted[p] + 1>> \in Values
        BY <2>1, BoundsAssumption DEF Emplace, Values, ValuesInOrder, TypeOK
      <3>2. Len(queue) < Cardinality(Values)
        BY <2>1, RoomForEverything DEF Emplace
      <3>3. Promise!Put(<<p, accepted[p] + 1>>)
        BY <2>1, <3>2 DEF Emplace, Accepting, Promise!Put
      <3> QED
        BY <3>1, <3>3 DEF Promise!Next
    <2>2. ASSUME NEW c \in Consumers, TakeFront(c)
          PROVE  Promise!Next
      BY <2>2 DEF TakeFront, Promise!Take, Promise!Next
    <2>3. ASSUME NEW t \in Threads, Close(t)
          PROVE  Promise!Next
      BY <2>3 DEF Close, Promise!Close, Promise!Next
    <2>4. ASSUME NEW p \in Producers, NotifyOne(p)
          PROVE  UNCHANGED <<queue, closed, popped>>
      BY <2>4 DEF NotifyOne
    <2>5. ASSUME NEW c \in Consumers, PopBlocks(c) \/ PopEnds(c) \/ PopThrows(c)
          PROVE  UNCHANGED <<queue, closed, popped>>
      BY <2>5 DEF PopBlocks, PopEnds, PopThrows
    <2>6. ASSUME NEW t \in Threads, NotifyAll(t) \/ SpuriousWakeup(t)
          PROVE  UNCHANGED <<queue, closed, popped>>
      BY <2>6 DEF NotifyAll, SpuriousWakeup
    <2>7. CASE UNCHANGED vars
      BY <2>7 DEF vars
    <2> QED
      BY <2>1, <2>2, <2>3, <2>4, <2>5, <2>6, <2>7
         DEF Next, WaitAndPop, PopTakes, TryPop
  <1> QED
    BY <1>1, <1>2, ValuesKeepOrder, PTL DEF Spec, Promise!Spec
=============================================================================
