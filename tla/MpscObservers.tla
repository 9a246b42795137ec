--------------------------- MODULE MpscObservers ---------------------------
(***************************************************************************)
(* empty() and full() of mpsc_ring_queue, called by threads other than the *)
(* consumer while producers and the consumer run.  Each call makes two     *)
(* atomic loads; the queue moves between them.  The history variable `seen` *)
(* collects every true value of the observed quantity from the first load  *)
(* to the return.                                                          *)
(***************************************************************************)
EXTENDS MpscRingQueue

CONSTANT Observers   \* threads that call empty or full

VARIABLES
    call,      \* call[o]: the function o is in, or "none"
    loaded,    \* loaded[o]: the index the first load read
    seen       \* seen[o]: history of the observed quantity during the call

observerVars == <<call, loaded, seen>>

\* What the two functions report, at one instant.
Quantity(c) ==
    CASE c = "empty" -> sequence[SlotOf(read_index)] # read_index + 1
      [] c = "full" -> write_index = Released + Capacity

ObserverInit ==
    /\ call = [o \in Observers |-> "none"]
    /\ loaded = [o \in Observers |-> 0]
    /\ seen = [o \in Observers |-> {}]

\* First load: read_index_ in empty(), write_index_ in full().
Enter(o, c) ==
    /\ call[o] = "none"
    /\ call' = [call EXCEPT ![o] = c]
    /\ loaded' = [loaded EXCEPT ![o] =
                    IF c = "empty" THEN read_index ELSE write_index]
    /\ seen' = [seen EXCEPT ![o] = {Quantity(c)}]

\* Faulty: empty() and full() compare the indices, as spsc_ring_queue does.
VerdictByIndices(c, first) ==
    CASE c = "empty" -> first = write_index
      [] c = "full" -> first = read_index + Capacity

\* What a call returns whose first load read `first`: both load the sequence
\* of that position's cell.
Verdict(c, first) ==
    CASE c = "empty" -> sequence[SlotOf(first)] # first + 1
      [] c = "full" -> sequence[SlotOf(first)] < first

Return(o) ==
    /\ call[o] # "none"
    /\ call' = [call EXCEPT ![o] = "none"]
    /\ loaded' = [loaded EXCEPT ![o] = 0]
    /\ seen' = [seen EXCEPT ![o] = {}]

\* A step of the queue extends the history of every call in progress.
QueueStep ==
    /\ Next
    /\ UNCHANGED <<call, loaded>>
    /\ seen' = [o \in Observers |->
                  IF call[o] = "none" THEN {}
                                      ELSE seen[o] \cup {Quantity(call[o])'}]

ObserverStep(o) ==
    /\ Return(o) \/ \E c \in {"empty", "full"} : Enter(o, c)
    /\ UNCHANGED vars

ObservedNext == QueueStep \/ \E o \in Observers : ObserverStep(o)

ObservedInit == Init /\ ObserverInit

ObservedSpec ==
    /\ ObservedInit
    /\ [][ObservedNext]_<<vars, observerVars>>
    /\ Fairness

-----------------------------------------------------------------------------
(* A function is a snapshot when its answer is a value the quantity really *)
(* had at some instant of the call (README: "empty, full, and size are     *)
(* snapshots").                                                            *)

Returns(o, c) == call[o] = c /\ call'[o] = "none"

\* full() (lines 112 to 119) reports fullness as try_push would meet it.
FullIsSnapshot ==
    [][\A o \in Observers :
         Returns(o, "full") => Verdict("full", loaded[o]) \in seen[o]]_<<vars,
           observerVars>>

\* empty() means that no element is currently available to pop (README), and is
\* a snapshot as well, next to try_pop at any rate (clear() is to be synchronized
\* with).  The code (lines 105 to 110) does not keep this: the element at the
\* position the call loaded first may have been popped since, while the next
\* one was there all along.
EmptyIsSnapshot ==
    [][\A o \in Observers :
         Returns(o, "empty") /\ ~clearing =>
           Verdict("empty", loaded[o]) \in seen[o]]_<<vars, observerVars>>

\* That is the only way in which empty() errs.  "Not empty" is always a snapshot:
\* at some instant of the call an element was available, although the producer
\* that stored it may have claimed the cell long before.  A wrong "empty" needs
\* a pop that moved the head between the two loads.
EmptyErrsOnlyBehindPop ==
    [][\A o \in Observers :
         Returns(o, "empty") /\ Verdict("empty", loaded[o]) \notin seen[o] =>
           Verdict("empty", loaded[o]) /\ read_index # loaded[o]]_<<vars,
             observerVars>>

-----------------------------------------------------------------------------
(* Why it works: the inductive invariant of the calls in progress.          *)

\* The history is up to date.  The head leaves only while an element is
\* available; and while the queue has been full all along, no claim has moved
\* write_index.
CallsOK ==
    /\ call \in [Observers -> {"none", "empty", "full"}]
    /\ loaded \in [Observers -> Nat] /\ seen \in [Observers -> SUBSET BOOLEAN]
    /\ \A o \in Observers :
         /\ call[o] # "none" => Quantity(call[o]) \in seen[o]
         /\ call[o] = "empty" /\ read_index # loaded[o] => FALSE \in seen[o]
         /\ call[o] = "full" =>
              /\ loaded[o] <= write_index
              /\ FALSE \notin seen[o] => write_index = loaded[o]
=============================================================================
