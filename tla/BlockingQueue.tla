--------------------------- MODULE BlockingQueue ---------------------------
(***************************************************************************)
(* obz::blocking_queue: an unbounded std::deque, one mutex and one          *)
(* condition variable.  As in BoundedBlockingQueue a critical section is    *)
(* one step and the notification after the unlock is another.               *)
(***************************************************************************)
EXTENDS Naturals, Sequences, FiniteSets

CONSTANTS
    Producers, Consumers,   \* disjoint sets of threads
    MaxPushes,              \* bound: values each producer puts in the queue
    MaxThrows               \* bound: move assignments that throw

ASSUME BoundsAssumption == MaxPushes \in Nat /\ MaxThrows \in Nat
ASSUME ThreadsAssumption ==
    /\ IsFiniteSet(Producers) /\ IsFiniteSet(Consumers)
    /\ Producers \cap Consumers = {}

Threads == Producers \cup Consumers
Values == Producers \X (1 .. MaxPushes)

VARIABLES
    queue, closed,   \* queue_ and closed_
    pc,              \* what each thread does next
    accepted,        \* accepted[p]: values p has put in the queue
    popped,          \* history: values popped, in order
    thrown,          \* number of move assignments that threw
    swallowed        \* history: did a call throw after it had been woken up?

exceptions == <<thrown, swallowed>>
vars == <<queue, closed, pc, accepted, popped, exceptions>>

Steps == {"idle", "wait", "popAgain", "notifyOne", "notifyAll"}

At(step) == {t \in Threads : pc[t] = step}
GoTo(t, step) == pc' = [pc EXCEPT ![t] = step]

Init ==
    /\ queue = <<>> /\ closed = FALSE
    /\ pc = [t \in Threads |-> "idle"]
    /\ accepted = [p \in Producers |-> 0]
    /\ popped = <<>>
    /\ thrown = 0 /\ swallowed = FALSE

\* Faulty: consumers are notified only when the queue was empty.
NotifyIfEmpty == IF queue = <<>> THEN "notifyOne" ELSE "idle"

AfterPush == "notifyOne"
Always == TRUE            \* faulty: closed_ is not looked at
Accepting == ~closed

\* emplace; on a closed queue, or when emplace_back throws, the call throws
\* and nothing changes.
Emplace(p) ==
    /\ pc[p] = "idle" /\ accepted[p] < MaxPushes /\ Accepting
    /\ queue' = Append(queue, <<p, accepted[p] + 1>>)
    /\ accepted' = [accepted EXCEPT ![p] = @ + 1]
    /\ GoTo(p, AfterPush)
    /\ UNCHANGED <<closed, popped, exceptions>>

\* notify_one, after the unlock: wakes any one waiter, if there is one.
NotifyOne(p) ==
    /\ pc[p] = "notifyOne"
    /\ \/ At("wait") = {} /\ GoTo(p, "idle")
       \/ \E w \in At("wait") : pc' = [pc EXCEPT ![p] = "idle", ![w] = "popAgain"]
    /\ UNCHANGED <<queue, closed, accepted, popped, exceptions>>

\* wait_and_pop, at the call and after each wakeup.
Popping(c) == pc[c] \in {"idle", "popAgain"}

PopBlocks(c) ==
    /\ Popping(c) /\ ~closed /\ queue = <<>>
    /\ GoTo(c, "wait")
    /\ UNCHANGED <<queue, closed, accepted, popped, exceptions>>

PopEnds(c) ==
    /\ Popping(c) /\ closed /\ queue = <<>>
    /\ GoTo(c, "idle")
    /\ UNCHANGED <<queue, closed, accepted, popped, exceptions>>

\* The move assignment throws out of the call.
Throw(c) ==
    /\ thrown < MaxThrows
    /\ thrown' = thrown + 1
    /\ swallowed' = (swallowed \/ pc[c] # "idle")
    /\ GoTo(c, "idle")

\* The value stays in the queue.
PopThrows(c) ==
    /\ Popping(c) /\ queue # <<>>
    /\ Throw(c)
    /\ UNCHANGED <<queue, closed, accepted, popped>>

TakeFront(c) ==
    /\ queue # <<>>
    /\ popped' = Append(popped, Head(queue))
    /\ queue' = Tail(queue)
    /\ GoTo(c, "idle")
    /\ UNCHANGED <<closed, accepted, exceptions>>

PopTakes(c) == Popping(c) /\ TakeFront(c)

\* try_pop never waits; when it returns false nothing changes.
TryPop(c) == pc[c] = "idle" /\ TakeFront(c)

\* close, by any thread and any number of times, and the destructor.
Close(t) ==
    /\ pc[t] = "idle"
    /\ closed' = TRUE
    /\ GoTo(t, "notifyAll")
    /\ UNCHANGED <<queue, accepted, popped, exceptions>>

\* Faulty: close() wakes one waiter.
OneWoken == IF At("wait") = {} THEN {} ELSE {CHOOSE t \in At("wait") : TRUE}

Woken == At("wait")

NotifyAll(t) ==
    /\ pc[t] = "notifyAll"
    /\ pc' = [u \in Threads |-> CASE u = t -> "idle"
                                  [] u \in Woken -> "popAgain"
                                  [] OTHER -> pc[u]]
    /\ UNCHANGED <<queue, closed, accepted, popped, exceptions>>

SpuriousWakeup(t) ==
    /\ pc[t] = "wait" /\ GoTo(t, "popAgain")
    /\ UNCHANGED <<queue, closed, accepted, popped, exceptions>>

WaitAndPop(c) == PopBlocks(c) \/ PopEnds(c) \/ PopThrows(c) \/ PopTakes(c)

Next ==
    \/ \E p \in Producers : Emplace(p) \/ NotifyOne(p)
    \/ \E c \in Consumers : WaitAndPop(c) \/ TryPop(c)
    \/ \E t \in Threads : Close(t) \/ NotifyAll(t) \/ SpuriousWakeup(t)

Spec == Init /\ [][Next]_vars

\* A thread inside a call keeps running and consumers call wait_and_pop again
\* and again; nobody has to push or to call close.
FairSpec ==
    /\ Spec
    /\ \A p \in Producers : WF_vars(NotifyOne(p))
    /\ \A c \in Consumers : SF_vars(WaitAndPop(c))
    /\ \A t \in Threads : WF_vars(NotifyAll(t))

-----------------------------------------------------------------------------
(* What the queue guarantees. *)

\* Each variable has its type and a thread is only at steps of the calls it
\* makes.
TypeOK ==
    /\ queue \in Seq(Values) /\ closed \in BOOLEAN
    /\ pc \in [Threads -> Steps]
    /\ \A p \in Producers : pc[p] \notin {"wait", "popAgain"}
    /\ \A c \in Consumers : pc[c] # "notifyOne"
    /\ accepted \in [Producers -> 0 .. MaxPushes]
    /\ popped \in Seq(Values)
    /\ thrown \in 0 .. MaxThrows /\ swallowed \in BOOLEAN

\* While consumers sleep, every value in the queue has a thread about to
\* notify or a consumer already awake for it, unless a call threw after it had
\* been woken up.
NoLostWakeup ==
    /\ TypeOK
    /\ ~swallowed /\ At("wait") # {} =>
         Len(queue) <= Cardinality(At("notifyOne")) + Cardinality(At("popAgain"))

\* Whoever sleeps although the queue is closed is about to be woken by a thread
\* in the middle of close().
CloseIsComing == closed /\ At("wait") # {} => At("notifyAll") # {}

\* The inductive invariant of the safety properties.
IInv == NoLostWakeup /\ CloseIsComing

\* What was popped and what is queued are, for each producer, exactly the
\* values it pushed, each of them once and in its order, also when T throws.
History == popped \o queue
ValuesInOrder ==
    /\ TypeOK
    /\ \A p \in Producers : \A k \in 1 .. accepted[p] :
         \E i \in 1 .. Len(History) : History[i] = <<p, k>>
    /\ \A i \in 1 .. Len(History) : History[i][2] <= accepted[History[i][1]]
    /\ \A i, j \in 1 .. Len(History) :
         i < j /\ History[i][1] = History[j][1] => History[i][2] < History[j][2]

\* The queue implements ClosableFifo with room for everything.
Promise == INSTANCE ClosableFifo
               WITH contents <- queue, delivered <- popped,
                    Bound <- Cardinality(Values)

ImplementsFairFifo == Promise!FairSpec

\* After close every blocked wait_and_pop returns.
CloseReleases ==
    \A t \in Threads : closed /\ pc[t] = "wait" ~> pc[t] = "idle"
=============================================================================
