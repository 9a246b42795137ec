------------------------ MODULE BoundedBlockingQueue ------------------------
(***************************************************************************)
(* obz::bounded_blocking_queue: a std::deque with a capacity, one mutex and *)
(* the condition variables not_empty_ and not_full_.  queue_ and closed_    *)
(* are touched only with the mutex held and no call holds it across a wait, *)
(* so a critical section is one step.  Notifications come after the unlock  *)
(* and are steps of their own; a waiter may also wake spuriously.           *)
(***************************************************************************)
EXTENDS Naturals, Sequences, FiniteSets

CONSTANTS
    Producers, Consumers,   \* disjoint sets of threads
    Capacity,               \* the constructor's argument, which rejects 0
    MaxPushes,              \* bound: values each producer puts in the queue
    MaxThrows               \* bound: constructions and assignments that throw

ASSUME CapacityAssumption == Capacity \in Nat \ {0}
ASSUME BoundsAssumption == MaxPushes \in Nat /\ MaxThrows \in Nat
ASSUME ThreadsAssumption ==
    /\ IsFiniteSet(Producers) /\ IsFiniteSet(Consumers)
    /\ Producers \cap Consumers = {}

Threads == Producers \cup Consumers
Values == Producers \X (1 .. MaxPushes)

VARIABLES
    queue, closed,   \* queue_ and closed_
    pc,              \* what each thread does next
    accepted,        \* accepted[p]: values p has put in the queue
    popped,          \* history: values popped, in order
    ended,           \* history: was a consumer told "closed and empty"?
    thrown,          \* number of element operations that threw
    swallowed        \* history: did a call throw after it had been woken up?

exceptions == <<thrown, swallowed>>
vars == <<queue, closed, pc, accepted, popped, ended, exceptions>>

\* A thread is between calls, asleep on a condition variable, awake and
\* waiting for the mutex again, or past the unlock and about to notify.
Steps ==
    {"idle", "waitNotFull", "waitNotEmpty", "pushAgain", "popAgain",
     "notifyNotEmpty", "notifyNotFull", "closeNotEmpty", "closeNotFull"}

At(step) == {t \in Threads : pc[t] = step}
GoTo(t, step) == pc' = [pc EXCEPT ![t] = step]
Full == Len(queue) >= Capacity

Init ==
    /\ queue = <<>> /\ closed = FALSE
    /\ pc = [t \in Threads |-> "idle"]
    /\ accepted = [p \in Producers |-> 0]
    /\ popped = <<>> /\ ended = FALSE
    /\ thrown = 0 /\ swallowed = FALSE

\* An element operation throws, and t leaves its call without notifying.
Throw(t) ==
    /\ thrown < MaxThrows
    /\ thrown' = thrown + 1
    /\ swallowed' = (swallowed \/ pc[t] # "idle")
    /\ GoTo(t, "idle")

-----------------------------------------------------------------------------
(* emplace and push; try_emplace and try_push. *)

Pushing(p) == pc[p] \in {"idle", "pushAgain"} /\ accepted[p] < MaxPushes

EmplaceBlocks(p) ==
    /\ Pushing(p) /\ ~closed /\ Full
    /\ GoTo(p, "waitNotFull")
    /\ UNCHANGED <<queue, closed, accepted, popped, ended, exceptions>>

\* runtime_error: the queue is closed, also for a producer that was waiting.
EmplaceRejected(p) ==
    /\ Pushing(p) /\ closed
    /\ GoTo(p, "idle")
    /\ UNCHANGED <<queue, closed, accepted, popped, ended, exceptions>>

\* emplace_back throws; the exception skips notify_one.
EmplaceThrows(p) ==
    /\ Pushing(p) /\ ~closed /\ ~Full
    /\ Throw(p)
    /\ UNCHANGED <<queue, closed, accepted, popped, ended>>

\* Faulty: consumers are notified only when the queue was empty.
NotifyIfEmpty == IF queue = <<>> THEN "notifyNotEmpty" ELSE "idle"

AfterPush == "notifyNotEmpty"

PutBack(p) ==
    /\ queue' = Append(queue, <<p, accepted[p] + 1>>)
    /\ accepted' = [accepted EXCEPT ![p] = @ + 1]
    /\ GoTo(p, AfterPush)
    /\ UNCHANGED <<closed, popped, ended, exceptions>>

\* Faulty: the predicate is not evaluated again after a wakeup.
MayAppendOnWakeup(p) == pc[p] = "pushAgain" \/ (~closed /\ ~Full)

MayAppend(p) == ~closed /\ ~Full

EmplaceAppends(p) == Pushing(p) /\ MayAppend(p) /\ PutBack(p)

\* try_emplace never waits; when it returns false nothing changes.
TryEmplace(p) == pc[p] = "idle" /\ Pushing(p) /\ MayAppend(p) /\ PutBack(p)

\* condition_variable::notify_one on the waiters `from`, who then compete
\* for the mutex at `to`; without a waiter it has no effect.
NotifyOne(t, from, to) ==
    \/ At(from) = {} /\ GoTo(t, "idle")
    \/ \E w \in At(from) : pc' = [pc EXCEPT ![t] = "idle", ![w] = to]

NotifyNotEmpty(p) ==
    /\ pc[p] = "notifyNotEmpty"
    /\ NotifyOne(p, "waitNotEmpty", "popAgain")
    /\ UNCHANGED <<queue, closed, accepted, popped, ended, exceptions>>

-----------------------------------------------------------------------------
(* wait_and_pop and try_pop. *)

Popping(c) == pc[c] \in {"idle", "popAgain"}

PopBlocks(c) ==
    /\ Popping(c) /\ ~closed /\ queue = <<>>
    /\ GoTo(c, "waitNotEmpty")
    /\ UNCHANGED <<queue, closed, accepted, popped, ended, exceptions>>

\* wait_and_pop returns false: closed and empty.
PopEnds(c) ==
    /\ Popping(c) /\ closed /\ queue = <<>>
    /\ ended' = TRUE
    /\ GoTo(c, "idle")
    /\ UNCHANGED <<queue, closed, accepted, popped, exceptions>>

FrontRemoved == Tail(queue)   \* faulty: pop_front before the assignment
OnThrow == queue

\* The move assignment throws; the value stays and notify_one is skipped.
PopThrows(c) ==
    /\ Popping(c) /\ queue # <<>>
    /\ queue' = OnThrow
    /\ Throw(c)
    /\ UNCHANGED <<closed, accepted, popped, ended>>

NotifyIfFull == IF Full THEN "notifyNotFull" ELSE "idle"   \* faulty
NotifyNobody == "idle"                                     \* faulty
AfterPop == "notifyNotFull"

TakeFront(c) ==
    /\ queue # <<>>
    /\ popped' = Append(popped, Head(queue))
    /\ queue' = Tail(queue)
    /\ GoTo(c, AfterPop)
    /\ UNCHANGED <<closed, accepted, ended, exceptions>>

PopTakes(c) == Popping(c) /\ TakeFront(c)

\* try_pop never waits; when it returns false nothing changes.
TryPop(c) == pc[c] = "idle" /\ TakeFront(c)

NotifyNotFull(c) ==
    /\ pc[c] = "notifyNotFull"
    /\ NotifyOne(c, "waitNotFull", "pushAgain")
    /\ UNCHANGED <<queue, closed, accepted, popped, ended, exceptions>>

-----------------------------------------------------------------------------
(* close, by any thread and any number of times, and the destructor. *)

Close(t) ==
    /\ pc[t] = "idle"
    /\ closed' = TRUE
    /\ GoTo(t, "closeNotEmpty")
    /\ UNCHANGED <<queue, accepted, popped, ended, exceptions>>

\* Faulty: notify_one instead of notify_all.
OneWoken(from) == IF At(from) = {} THEN {} ELSE {CHOOSE t \in At(from) : TRUE}

Woken(from) == At(from)

WakeAll(t, next, from, to) ==
    pc' = [u \in Threads |-> CASE u = t -> next
                               [] u \in Woken(from) -> to
                               [] OTHER -> pc[u]]

NotifyAllNotEmpty(t) ==
    /\ pc[t] = "closeNotEmpty"
    /\ WakeAll(t, "closeNotFull", "waitNotEmpty", "popAgain")
    /\ UNCHANGED <<queue, closed, accepted, popped, ended, exceptions>>

NotifyAllNotFull(t) ==
    /\ pc[t] = "closeNotFull"
    /\ WakeAll(t, "idle", "waitNotFull", "pushAgain")
    /\ UNCHANGED <<queue, closed, accepted, popped, ended, exceptions>>

\* condition_variable::wait may wake without a notification.
SpuriousWakeup(t) ==
    /\ \/ pc[t] = "waitNotFull" /\ GoTo(t, "pushAgain")
       \/ pc[t] = "waitNotEmpty" /\ GoTo(t, "popAgain")
    /\ UNCHANGED <<queue, closed, accepted, popped, ended, exceptions>>

-----------------------------------------------------------------------------

Emplace(p) ==
    \/ EmplaceBlocks(p) \/ EmplaceRejected(p) \/ EmplaceThrows(p)
    \/ EmplaceAppends(p)
WaitAndPop(c) == PopBlocks(c) \/ PopEnds(c) \/ PopThrows(c) \/ PopTakes(c)

Next ==
    \/ \E p \in Producers : Emplace(p) \/ TryEmplace(p) \/ NotifyNotEmpty(p)
    \/ \E c \in Consumers : WaitAndPop(c) \/ TryPop(c) \/ NotifyNotFull(c)
    \/ \E t \in Threads : \/ Close(t) \/ NotifyAllNotEmpty(t)
                          \/ NotifyAllNotFull(t) \/ SpuriousWakeup(t)

Spec == Init /\ [][Next]_vars

\* A thread inside a call keeps running, producers push what they have and
\* consumers call wait_and_pop again and again; nobody has to call close.
FairSpec ==
    /\ Spec
    /\ \A p \in Producers : WF_vars(Emplace(p)) /\ WF_vars(NotifyNotEmpty(p))
    /\ \A c \in Consumers : SF_vars(WaitAndPop(c)) /\ WF_vars(NotifyNotFull(c))
    /\ \A t \in Threads :
         WF_vars(NotifyAllNotEmpty(t)) /\ WF_vars(NotifyAllNotFull(t))

-----------------------------------------------------------------------------
(* What the queue guarantees. *)

\* Each variable has its type, the capacity is respected and a thread is only
\* at steps of the calls it makes.
TypeOK ==
    /\ queue \in Seq(Values) /\ Len(queue) <= Capacity
    /\ closed \in BOOLEAN
    /\ pc \in [Threads -> Steps]
    /\ \A p \in Producers :
         pc[p] \notin {"waitNotEmpty", "popAgain", "notifyNotFull"}
    /\ \A c \in Consumers :
         pc[c] \notin {"waitNotFull", "pushAgain", "notifyNotEmpty"}
    /\ accepted \in [Producers -> 0 .. MaxPushes]
    /\ popped \in Seq(Values)
    /\ ended \in BOOLEAN
    /\ thrown \in 0 .. MaxThrows /\ swallowed \in BOOLEAN

\* What was popped and what is queued are, for each producer, exactly the
\* values it pushed, each of them once and in its order, also when T throws.
History == popped \o queue
ValuesInOrder ==
    /\ TypeOK
    /\ \A p \in Producers : \A k \in 1 .. accepted[p] :
         \E i \in 1 .. Len(History) : History[i] = <<p, k>>
    /\ \A i \in 1 .. Len(History) : History[i][2] <= accepted[History[i][1]]
    /\ \A i, j \in 1 .. Len(History) :
         i < j /\ History[i][1] = History[j][1] => History[i][2] < History[j][2]

\* While consumers sleep on not_empty_, every value in the queue has somebody
\* to take it or to wake its taker: a thread about to notify, or a consumer
\* already awake.  No wakeup is lost, although notify_one comes after the
\* unlock and may hit a consumer that finds the queue empty again; the only
\* exception is a call that throws after it has been woken up.
NoLostNotEmpty ==
    ~swallowed /\ At("waitNotEmpty") # {} =>
        Len(queue) <= Cardinality(At("notifyNotEmpty"))
                        + Cardinality(At("popAgain"))

\* The same for producers asleep on not_full_ and the free places.
NoLostNotFull ==
    ~swallowed /\ ~closed /\ At("waitNotFull") # {} =>
        Capacity <= Len(queue) + Cardinality(At("notifyNotFull"))
                      + Cardinality(At("pushAgain"))

\* When nobody is inside a call except the threads that sleep in one, a
\* wait_and_pop sleeps only on an empty queue ("Blocks until an element is
\* available").
Quiet == \A t \in Threads : pc[t] \in {"idle", "waitNotFull", "waitNotEmpty"}
BlockedPopMeansEmpty == Quiet /\ At("waitNotEmpty") # {} => queue = <<>>

\* Once wait_and_pop has told one consumer that the queue is closed and
\* empty, no value can ever be found in it again.
EndIsFinal == ended => closed /\ queue = <<>>

\* Whoever sleeps although the queue is closed is about to be woken by a thread
\* in the middle of close(): close() cannot slip in between the predicate and
\* the wait, and a second close() does not take over the first one's waiters.
CloseIsComing ==
    closed => /\ At("waitNotEmpty") # {} => At("closeNotEmpty") # {}
              /\ At("waitNotFull") # {} =>
                   At("closeNotEmpty") \cup At("closeNotFull") # {}

\* An exception that swallows a notification is the only way to lose one.
SwallowedOnlyByThrow == swallowed => thrown > 0

\* The inductive invariant of the safety properties.
IInv ==
    /\ TypeOK /\ NoLostNotEmpty /\ NoLostNotFull /\ EndIsFinal
    /\ CloseIsComing /\ SwallowedOnlyByThrow

\* The queue implements ClosableFifo, whose fairness says that it is drained.
Promise == INSTANCE ClosableFifo
               WITH contents <- queue, delivered <- popped, Bound <- Capacity

ImplementsFairFifo == Promise!FairSpec

\* Every push returns or throws in the end: no producer waits for ever.
PushesFinish ==
    \A p \in Producers : []<>(pc[p] = "idle" /\ (accepted[p] = MaxPushes \/ closed))

\* After close every blocked call returns.
CloseReleases ==
    \A t \in Threads :
        closed /\ pc[t] \in {"waitNotFull", "waitNotEmpty"} ~> pc[t] = "idle"
=============================================================================
