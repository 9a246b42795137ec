# A TLA+ verification of obz

obz is a set of C++20 components: concurrent queues, containers, a model of an
emotional state, sockets and small platform helpers.  This directory holds TLA+
modules for the parts that carry program logic, TLC configurations that check
them on small instances, and proofs, checked by TLAPS, that every safety property
the passing runs check holds for every value of the constants: every number of
threads, capacity, size and width (the lock-free MPSC queue: for every
`Capacity >= 2`).  Liveness is checked by TLC only.

Paths below are relative to `src/libs/`; `x.hpp:n` is a line of that file.

    tlc -workers 2 -config MCMpscObservers.cfg MCMpscObservers.tla
    for m in SharedLemmas *_proofs.tla; do tlapm ${m%.tla}.tla; done

## 1. Inventory of the system

The components are libraries that do not call each other, with one exception:
the two lock-free queues share the constant in `detail/cache_alignment.hpp`.
What interacts are the *threads* that share a queue, the *callbacks* that call
back into the object that runs them, and a socket with its peer.

| Component | State | Operations | What is hard | What makes it correct |
|---|---|---|---|---|
| `mpsc_ring_queue` | `write_index_`, `read_index_` (atomics), per cell an atomic `sequence` and raw storage | `try_emplace`/`try_push` (many threads), `try_pop`, `clear`, destructor, `empty`, `full`, `size` | lock-free; compare-exchange races, stale loads, a producer delayed between claim and publication, cell reuse, object lifetimes by hand | exclusive use of storage, FIFO in claim order, nothing lost, calls fail only for the documented reasons, `clear` leaves nothing |
| `bounded_blocking_queue` | a deque with a capacity, `closed_`, a mutex, `not_empty_`, `not_full_` | `emplace`/`push`, `try_emplace`/`try_push`, `wait_and_pop`, `try_pop`, `close`, destructor, observers | notifications after the unlock, `try_*` calls that overtake woken waiters, spurious wakeups, two condition variables, exceptions from `T`, `close` while others sleep | no lost wakeup, order and content preserved, "closed and empty" is final, everybody returns after `close` |
| `blocking_queue` | the same without a capacity and `not_full_` | `push`/`emplace`, `wait_and_pop`, `try_pop`, `close` | as above | as above |
| `spsc_ring_queue` | two atomic indices, raw storage | `try_emplace`/`try_push`, `try_pop`, `clear`, observers | acquire/release order, stale indices, wrap-around of unsigned counters | no data race, bounded FIFO, progress |
| `ring_buffer` | raw storage, `head_`, `tail_`, `size_` | `emplace_back`/`push_back`, `pop_front`, `clear`, destructor | object lifetimes over the wrap-around | objects live exactly in the occupied cells; bounded FIFO |
| `weighted_set` | an `unordered_map` to weights and a cached `uint64_t` total | `insert`, `erase`, `set_weight`, `clear`, copies, moves, `random` | the cached total under unsigned arithmetic, copies and moves; off-by-one in the selection | the total is the sum, up to what moves and throwing copies leave; selection proportional to weight |
| `emotional_state` | two coordinates, current and previous snapped axes, two callbacks | constructor, `set_*`, `adjust_*`, `on_mood_changed`, `on_quadrant_changed` | a grid without zero (hysteresis), clamping, setters called from callbacks, callbacks that throw | the axis is the nearest grid value on the right side of zero; mood reports form a chain |
| `transport` | a native handle per socket | `connect`, `listen`, `accept`, `bind`, `send*`, `receive*`, moves, `close` | handle ownership over failures and moves, partial transfers, a peer that closes in between | one owner per handle, no leak, byte streams intact |
| `endian` | the caller's buffer | `write_le`, `write_be`, `read_le`, `read_be` | shifts at the ends of the width, the range check under unsigned arithmetic | the bytes are the digits of the value; round trip; nothing outside the range is touched |
| `thread_affinity` | none (an operating system attribute) | pin the calling thread | CPU number at the limit of the set | range check before the system call |
| `cache_alignment`, build files, tests | none | none | none | no program logic |

## 2. Modules and the code they stand for

| Module | Code | Role |
|---|---|---|
| `MpscRingQueue` | `mpsc_ring_queue.hpp` | the queue, one step per atomic or storage access; properties; inductive invariant |
| `ReservationFifo` | its README ("Producer Coordination") | the abstract promise: places are reserved in order, completed in any order, taken in order once complete |
| `MpscObservers` | `empty`, `full` | extends `MpscRingQueue` with threads that call them; two loads per call |
| `ViewMemory` | (the C++ memory model) | relaxed, acquire and release accesses as messages and views |
| `MpscMemory` | `mpsc_ring_queue.hpp` | `try_emplace` and `try_pop` over `ViewMemory`, with the memory orders of the code |
| `SharedLemmas` | | proved facts that several proofs rest on: `% Capacity`, counting threads, induction for a set of numbers |
| `MpscRingQueue_proofs` | | theorems about `MpscRingQueue` and `MpscObservers`: the invariant and what follows from it, the refinement of `ReservationFifo` |
| `MpscMemory_proofs` | | theorems about `MpscMemory`: no data race, the refinement over weak memory |
| `BoundedBlockingQueue` | `bounded_blocking_queue.hpp` | critical sections and notifications as steps |
| `BlockingQueue` | `blocking_queue.hpp` | the same for the unbounded queue |
| `ClosableFifo` | | the abstract promise of both: a FIFO that can be closed, with fairness: it is drained |
| `BoundedBlockingQueue_proofs`, `BlockingQueue_proofs` | | their theorems |
| `SpscRingQueue` | `spsc_ring_queue.hpp` | two threads over weak memory with wrapping indices |
| `BoundedFifo` | | its abstract promise |
| `SpscRingQueue_proofs` | | its theorems |
| `TcpStream` | `tcp_socket.cpp` and the TCP transfers of both platforms | one peer in `send_all`, one in `receive_some` or `receive_exactly`; partial transfers, failures, closes |
| `SocketHandles` | `transport/src/*.cpp` and the POSIX platform functions | which object owns which native handle, one step per system call or assignment |
| `Transport_proofs` | | theorems about `SocketHandles` and `TcpStream` |
| `RingBuffer`, `WeightedSet`, `EmotionalState` | the headers of the same names | single-threaded objects, one action per call (or per callback step) |
| `Endian` | `endian.hpp` | the four loops, one iteration a step |
| `Sequential_proofs` | | theorems about `RingBuffer`, `WeightedSet`, `EmotionalState` and `Endian` |
| `MC*` | | instances for TLC; they define symmetry sets and input values only, but for `MCSequential`, which puts the three single-threaded components into one run |

`Sequential_proofs` and `Transport_proofs` extend several components at once, so
the modules that meet there name their state and specification after themselves:
`RingSpec`, `WeightedTypeOK`, `TcpIInv` and so on.

Operators marked `faulty` are variants of the operator next to them: a wrong
memory order, a missing test, an index off by one.  No specification uses them:
each shows that a property notices a plausible mistake when the variant takes the
place of the original.

### MpscRingQueue

`write_index`, `read_index` and `sequence[c]` are the atomics.  `storage[c]` is
the raw storage of a cell: a value, `Raw` (no object) or `Moved` (an object that
has been moved from).  `pc[p]` and `write[p]` are the program counter and the
local `write` of a producer; `cpc`, `read` and `clearing` those of the consumer.
`reserved` and `retired` are history variables: values in the order of the
claims and in the order in which they left.

| Action | Code |
|---|---|
| `Begin`, `Reload` | loads of `write_index_`, :41 and :61 |
| `LoadSequence` | :47 and the three branches on `diff`: go on to the compare-exchange, return false, reload |
| `Claim`, `ClaimFails` | `compare_exchange_weak`, :52, which may fail spuriously |
| `Construct`, `Publish` | :65 and :66 |
| `TryPop`, `PopLoadSequence`, `PopStops` | :84 to :92; for `clear`, :133 to :144 |
| `MoveOut`, `Destroy`, `StoreRead`, `ReleaseCell` | :96, :97, :99, :100; for `clear`, :146 to :150 |
| `Clear` | the entry of `clear()`, also the destructor, which calls it |

Each element operation is `noexcept` by the `static_assert`s at :38 and :81, so
none throws.  `clear()` needs external synchronization (README, "Threading
Model"): it starts only while no producer is inside a call, and no push starts
while it runs.  Positions are unbounded: the queue's README makes it a part of
the contract that counters do not wrap.  Atomics interleave in one total order,
so statements such as "refused only when full" are statements about that order;
`MpscMemory` shows what remains of them over weak memory.

`MpscObservers` adds threads that call `empty()` and `full()`.  `seen[o]` is a
history variable: every value the observed quantity had since the first load of
the call.  A call is a *snapshot* when its answer is among them.  `CallsOK` is the
inductive invariant of the calls in progress.  Both calls only load, so that a step
of an observer leaves the queue alone by definition, and so does the code.  Their
properties are about the one total order of the atomic accesses, too.
Over weak memory a stale `sequence` beside a newer index may make
`full()` answer true although the queue never was full; `MpscMemory` has no
observers and says nothing about it.

### MpscMemory and ViewMemory

Every atomic, and the storage of every cell, is a location with the messages
written to it in modification order; each thread has a *view*, the newest message
of each location that happens before its next step, and reads that message or any
later one.  A release store attaches the view of its thread to the message, an
acquire load joins it; relaxed accesses do neither, and a compare-exchange works on
the newest message.  The four orders at the accesses to `sequence` are
definitions (`ProducerSequenceLoad` and so on).  Storage is accessed without
atomics: `AccessesOrdered` says that the newest message is in the view of whoever
touches it, which is the absence of a data race, and that the stores to one
`sequence` are totally ordered by happens-before, so that appending them in the
order of the steps is no restriction.  Stores therefore never take effect early
(load buffering is not modelled).  `LoadWrite` is at once the load at the start of a
call, the reload and the failing compare-exchange, whose place in the code `pc`
tells apart.

### BoundedBlockingQueue and BlockingQueue

`queue_` and `closed_` are touched only with the mutex held and no call keeps it
across a wait, so a critical section is one action.  The rest of a call is the
position `pc[t]` of its thread: asleep on a condition variable, awake and
waiting for the mutex again, or past the unlock with the notification before it.
`NotifyOne` wakes *any* one waiter, or none; `SpuriousWakeup` wakes one without
a reason.  `try_*` calls are the actions that take part without ever waiting.
`EmplaceThrows` and `PopThrows` are the exceptions of `T`: the constructor in
`emplace_back` and the move assignment before `pop_front`.  `swallowed` records
that a call threw after it had been woken up, since such a call keeps the
notification it received to itself (see Findings); `NoLostNotEmpty`,
`NoLostNotFull` and `NoLostWakeup` speak of the time before.

### SpscRingQueue

Memory is as weak as C++ allows: a load of the other thread's index may return
any value between the one this thread saw last and the current one (`Visible`).
`orderedRead` and `orderedWrite` record how far the storage accesses of the
other thread happen before: they move only when an acquire load meets a release
store, and the four orders are definitions, so that weakening one is a change
that `AccessesOrdered` notices.  `full()` and `empty()` are called by the producer
and the consumer between their other calls, which is what a program does that
polls before it acts: `AnswerStands` says that such an answer holds until the
thread acts on it.  Indices wrap at `Modulus`, a small 2^w; the
contract that `Capacity` divides it is an assumption of the module.

### SocketHandles

`handle[o]` is the member of a `tcp_socket`, `tcp_listener` or `udp_socket`, and
`kernel[h]` what the system has behind the number `h`; a closed number is given
out again to whoever asks next.  An object belongs to one thread (README of the
library, "Threading Model"), but the handle table is shared, so the steps of
different objects interleave: `SystemClose` (`::close`) and `Invalidate` (the
assignment after it) are two steps, `Create`, `StoreHandle` and `SetUp` three,
and `new[o]` is a handle that only a local variable knows.  Every call may fail
wherever the code throws: `CreateFails`, `ConfigureFails` (macOS), `SetUpFails`,
which is the `catch (...) { close(); throw; }` of `connect`, `listen` and `bind`.
A move assignment closes its target before it takes the source's handle.
`joined` is a history variable: the memberships an object has asked for.

### TcpStream

One direction of a connection; the two directions of a socket share nothing but
the handle.  A step is one `::send` or `::recv`: it transfers any part
between one byte and what fits (`Send(k)`, `ReceiveSome(k)`), blocks while nothing
fits, or fails.  `SendTooLarge` and `ReceiveTooLarge` are `checked_socket_size` of
Winsock, which refuses a size beyond `INT_MAX`; on POSIX `SizeLimit` is larger than
every size.  `SendToClosedPeer` is `EPIPE`, an exception and not a signal because of
`MSG_NOSIGNAL` and `SO_NOSIGPIPE`.  After an exception the caller may go on with
another call: the stream then continues right behind the torn part.  A byte is the
pair of its call and its place in the data, so that `StreamIntact` can tell which
bytes arrived and in which order; `InStream(m)` are the places of call `m` that did.  An abortive close (a reset that discards what
is on its way) is left out.

### Endian

A step is one iteration of a loop.  The width in bytes, the size of the buffer and
the number of values of a byte are constants; `Power` is the table of the powers
that a shift by `8 * k` bits divides by.  `|=` adds, because the bits it sets are still
clear.  `Machine` collects what the constants stand for and is a
hypothesis of each theorem.

### The single-threaded objects

`RingBuffer` tracks which of its `cells` hold an object; `EmotionalState` has an
explicit stack `calls` of the `set_position` calls in progress, each with the locals it still
holds while a callback runs inside it.  Coordinates are integers, `Grain` to 1.0.

`WeightedSet` has two objects, so that copies and moves relate two totals.  A call
that throws changes nothing, with one exception: the defaulted copy assignment
assigns the map before the total, and where copying the map throws it leaves
some of the entries, or none, beside the old total (`CopyThrows`).  The
defaulted moves leave the source an empty map and its old total.  `drift[o]` is a
history variable: by how much such a step left the total above (or, negative,
below) the sum of the weights; a later call takes it along.
`Cumulative(o, order)` of `WeightedSet` is the running sum of the loop in
`random()`, for any order in which the map may be walked.  The exact sum it is
compared with does not add at all: `Tickets` has one pair per value and unit of
its weight, and `SumOf` counts them.

## 3. Runs

| Run | Instance | Question and answer |
|---|---|---|
| `mpsc_queue` | 2 producers, 2 values each, 2 cells, 1 observer | storage is safe, FIFO, nothing lost, failures only for documented reasons, `IInv` holds, implements `ReservationFifo`, `full()` reports something that was true during the call and `empty()` does unless a pop came in between, every value leaves (37,715 states) |
| `mpsc_empty_snapshot` | the same | **violated**: what `empty()` answers was true at some instant of the call |
| `mpsc_memory` | 2 producers, 3 values each, 2 cells, weak memory | no data race; implements `ReservationFifo` with the memory orders of the code (85,242 states up to symmetry) |
| `mpsc_capacity_one` | 1 cell | **violated**: storage is safe for `Capacity` 1 |
| `bounded_queue` | 2 + 2 threads, 2 places, 2 values each, 1 exception | no lost wakeup, final end, order, fair refinement, pushes finish, `close` releases (109,932 states) |
| `bounded_pop_stuck` | 2 + 2 threads, 1 place, 1 exception | **violated**: a blocked pop means an empty queue |
| `blocking_queue` | 2 + 2 threads, 2 values each, 1 exception | the same questions without a capacity |
| `spsc_queue` | 4 slots, indices modulo 8 | no race, refinement of `BoundedFifo`, answers of `full()` and `empty()` stand, endless progress (18,050 states) |
| `tcp_stream` | 2 calls of `send_all`, sizes 0, 1, 3, 4, limit 3, 2 bytes between the peers, 2 failures | the stream is made of prefixes in order, a receive returns exactly the next bytes, every call ends (30,574 states) |
| `socket_handles` | 2 TCP sockets, a listener, 2 UDP sockets, 3 handles | every open handle has one owner; an open object is completely set up (599,192 states, up to symmetry) |
| `sequential` | one component at a time: a ring of 3 cells and 3 values; 2 weighted sets, 3 values, largest number 4; a mood grid of 5, 2 nested calls | ring buffer: lifetimes and FIFO steps; weighted sets: totals, proportional selection; emotional state: snapping, packing, chain of mood reports (223,107 states up to symmetry) |
| `weighted_total` | the same | **violated**: the total is the sum of the stored weights |

The type invariant of a module is a conjunct of its first safety invariant
(`StorageSafe`, `NoLostWakeup`, `TotalIsSumAndDrift` and so on).  `Endian` has no run: its
theorems hold for all constants and need no instance.

### Bounds, and why they are enough

* `mpsc_queue`: `MaxPushes = 2` with two producers and two cells makes four
  positions, two rounds of the ring: a stale position may be one round old, a
  producer may be overtaken by the other in the same cell, and both the
  full and the empty queue occur.  Two producers are enough for every race: one
  compare-exchange has one winner and losers that only differ from each other by
  name; `IInv` was also explored with three producers and with three rounds, and
  the proofs cover every number.  The consumer polls for ever, so a deadlock would
  be an error.  One observer is enough since observers do not see each other.
* `mpsc_memory`: six positions, three rounds of the ring, so that a stale load may
  return a number that is two rounds old and each cell is handed over in
  both directions more than once.
* `tcp_stream`: the data are smaller than, as large as, and larger than the system's
  buffer and the size limit, and empty; two calls show that the second one continues
  behind a torn first one; two failures let both sides fail, or one of them twice.
* Blocking queues: two threads of each kind are the smallest number with which a
  notification can reach the wrong thread and two threads can sleep on the same
  condition variable.  `MaxThrows = 1` lets any one call throw; more exceptions
  repeat the same loss.
* `spsc_queue`: eight values of the index are two rounds of the ring and one
  wrap of the counter; the run is endless because the counters wrap.
* `socket_handles`: three handles are the listener's, the one just accepted and
  the one its target holds; they are fewer than the objects, so numbers are
  reused at once.  Two objects of a class can be moved into each other.
* `sequential`: the three components share no state, so each is explored while the
  others rest.  Ring buffer: three cells are a wrapped buffer with a gap in the
  middle.  Weighted sets: with the largest number 4 and three values every sum that
  overflows and every sum that just fits occurs, and so do totals above and
  below the sum.  Emotional state: coordinates beyond the range, on its end, just
  below zero, zero, and between two grid values; zero is reached by either coordinate
  from either side; two nested calls are the smallest number in which the inner
  one changes what the outer one holds in locals.

### Fairness

* `MpscRingQueue!Fairness`, in `ObservedSpec`: threads keep running (weak fairness of `PopStep` and
  of each producer).  `SF(Begin)`: `clear()` is not called over and over so that a
  producer never gets in.  `SF(Claim)`: `compare_exchange_weak` fails spuriously
  only finitely often in a row, and pushes of others are finite in number.
  `EveryValueLeaves` also takes it that a refused push is retried and that the
  consumer polls, which is how a caller uses a queue without blocking calls.
  Nothing is assumed about observers.
* Blocking queues: a thread inside a call keeps running and gets the mutex in the
  end (weak fairness of its step).  `SF(WaitAndPop)`: consumers go on consuming;
  strong, because another consumer may take the value first again and again.
  Nothing is assumed about `close`, `try_*` or spurious wakeups.
* `SpscRingQueue!FairSpec`: both threads run, and a store becomes visible in the
  end (the strong fairness conjuncts, as the C++ standard asks of implementations).
* `TcpStream!FairTcpSpec`: the system transfers bytes while it can; a sender closes
  in the end, as its destructor does; and a receiver calls again until it closes,
  with a destination the system accepts.  A failure is never assumed to happen.

## 4. What is proved

Every invariant and every action property that a passing run checks is stated by a
theorem, and so are the refinements without fairness.  The theorems hold for all
values of the constants that satisfy the `ASSUME`s of the modules; the two MPSC
models add `Capacity >= 2`.

| Module | Theorem | States |
|---|---|---|
| `MpscRingQueue_proofs` | `InvariantHolds`, `TypeCorrect` | `IInv` and `TypeOK` are invariants |
| | `StorageIsSafe` | producers construct only in empty storage; the consumer moves from and destroys only complete objects |
| | `StorageIsNeverShared` | no two threads are about to touch the storage of one cell |
| | `LeavesInOrder`, `NothingIsLost` | values leave in claim order; a claimed value that has not left is in its cell or in its producer's hands |
| | `RefusesOnlyWhenFull`, `PopFailsBehindProducer` | a push is refused only without a free cell, a pop only on an empty queue or behind a claim not yet published |
| | `ClearLeavesNothing` | `clear()` ends only when everything claimed has left |
| | `KeepsThePromise` | the queue implements `ReservationFifo` |
| | `FullReportsAnInstant` | what `full()` answers was true at an instant of the call |
| | `EmptyErrsBehindPop` | so is what `empty()` answers, unless it answers true and a pop moved the head during the call (see Findings) |
| `MpscMemory_proofs` | `InvariantHolds`, `NoDataRace` | with the memory orders of the code, every access to a storage happens after all earlier ones |
| | `KeepsThePromise` | over weak memory, too, the queue implements `ReservationFifo` |
| `BoundedBlockingQueue_proofs` | `NotEmptyReachesPops`, `NotFullReachesPushes` | no notification is lost, except one that a throwing call received |
| | `EndStaysFinal`, `ValuesKeepOrder` | "closed and empty" is final; the history of a producer's values is complete and in order |
| | `CloseReachesEverybody` | whoever sleeps on a closed queue has a `notify_all` still to come |
| | `BlockedPopFindsNothing` | until an element operation throws, a pop that sleeps while nothing else goes on sleeps on an empty queue |
| | `KeepsThePromise` | the safety part of `ClosableFifo` is implemented |
| `BlockingQueue_proofs` | `NoWakeupLost`, `CloseReachesEverybody`, `ValuesKeepOrder`, `KeepsThePromise` | the same without a capacity |
| `SpscRingQueue_proofs` | `StorageIsSafe`, `NoDataRace`, `AnswersStand` | storage, happens-before, and what `full()` and `empty()` tell the thread that acts on them |
| | `KeepsThePromise` | `BoundedFifo` is implemented, with wrapping indices and stale loads |
| `Transport_proofs` | `OwnedOnce`, `ReadyBetweenCalls` | each open handle has one owner and each closed one none; an object between calls is closed or completely set up |
| | `StreamStaysIntact`, `ReceivesExactly` | prefixes of the calls in order; a receive returns exactly the next bytes |
| `Sequential_proofs` | `RingLifetimes`, `RingIsFifo` | objects live exactly in the occupied cells; every call is a FIFO step |
| | `AxesFollowCoordinates`, `ReportsChain` | an axis is a nearest grid value on its side of zero, and a coordinate of exactly zero keeps the axis as it was; mood reports form a chain, nested calls and exceptions included |
| | `TotalDriftsOnlyBehindMoves` | for every object, moved-from ones included, the cached total is the sum plus what a move or a throwing copy left beside it, and only such a step leaves anything |
| | `RandomDrawsByWeight` | for every object whose total is not below the sum, each value is drawn for exactly as many targets as its weight, and as many targets draw nothing as the total is too large by |
| | `WritesEncode`, `ReadsDecode`, `RoundTrips`, `CallsStayInRange` | byte `k` is digit `k`; a read finds the number; round trip; nothing outside the range is touched |

Each module also has its inductive invariant as a theorem (`InvariantHolds`,
`TcpInvariant`, `EmotionInvariant`; for the others the invariant is the property itself).

### The arguments

**`MpscRingQueue`.**  None of its properties is inductive: that the storage of a
claimed cell is empty, say, follows from what the sequence numbers have meant
since the cell was last used.  `IInv` states that meaning.  At each moment the
ring stands for `Capacity` consecutive positions, the `Window`, which begins at
the number of cells the consumer has `Released`; it moves when a cell is
released, not when `read_index_` is stored one step earlier.  `CellOK(n)` says
what the cell of a position `n` in the `Window` holds: number `n` and empty
storage if `n` is not claimed; number `n`, and the value once it is constructed,
if a producer `Owns` it; number `n + 1` and the value if it is published, except
for the steps in which the consumer takes it apart.  `ProducerOK` says that an
owner's position is inside the `Window`, that no one else owns it, and the one
fact about a *stale* position: at the compare-exchange (`pc = "cas"`) the
position is below the end of the `Window`.  Stale positions need nothing more,
because the compare-exchange fails for them.  `ConsumerOK` ties the consumer's
locals to `read_index`, and `Indices` bounds the claims by the `Window`.  One lemma
per action shows that it preserves `IInv`; the facts about `%` are in `SharedLemmas`:
nearby positions differ in their slot, a slot recurs after one round, each slot occurs
in each window.

*Where `Capacity >= 2` is needed.*  In one place: `LoadSequence`, whose lemma
must show that a cell whose number equals the position is free.  A published
position `n` has number `n + 1`; for `Capacity` 1 this is the number of a free
cell at position `n + 1`.  Run `mpsc_capacity_one` shows that the assumption
cannot be dropped.

*The refinement.*  `Places` maps a state of the queue to the places of
`ReservationFifo`: one for each claimed value that has not left, complete when the
cell has the number after its position.  By `IInv` these positions are in the
`Window`, so their cells differ, and an incomplete one has the number of a free
cell.  `Claim` is a reservation, `Publish` a completion, `MoveOut` and the
destroying step of `clear()` are takings.  `ReleaseCell` changes a number, but of a
cell that belongs to no remaining value; all other steps change nothing that
the map reads.

*Observers.*  `CallsOK` says that the history of a call is up to date, and two facts
that `QuantitiesMove` proves of every step of the queue: `read_index` moves only
while an element is available, so `FALSE` is in the history of an `empty()` whose
first load is outdated; and no claim fits between two moments at which the queue is
full, so `write_index` has not moved while `FALSE` is missing from the history of a
`full()`.  The second load is then read off `IInv`, which says which numbers a cell
can have now that the loaded position may lie in the past.

**`MpscMemory`.**  Each cell gets its messages in a fixed order: in round `k` its
sequence gets messages `2k + 1` (free) and `2k + 2` (published), its storage
`2k + 2` (constructed) and `2k + 3` (destroyed).  So how far a cell has come is the
pair of its newest messages (`IsFree`, `IsConstructed`, `IsPublished`, `IsTaken`), and
the value of a message is that of its place.  `Numbers` states this, and that the view
attached to message `i` of a sequence is behind neither of the first `i` messages of
the cell: this is what the release store puts there and the acquire load takes away.
A stale load of the sequence is harmless because a number occurs once: a producer
that read `n` for position `n` has read the message that freed the cell for `n`
(this needs `Capacity >= 2` again), and then `Knows` its storage.  `Claimed`, `read`
and the program counters fit together as in `MpscRingQueue`.

**The blocking queues.**  `NoLostNotEmpty`, `NoLostNotFull`, `CloseIsComing` and the
types are inductive together; what is hard is that they count threads.
`CountAfterMove` and `CountAfterTwoMoves` say how the number of threads at a step
changes when one thread moves, or wakes another one.  Every critical section then
needs one inequality: a value that is added brings a notification with it, a
wakeup that is used up takes a value or leaves nobody asleep or nothing to take; and
`NotifyOne` turns a notification into an awake thread unless nobody sleeps.
`swallowed` switches the
balance off, and `SwallowedOnlyByThrow` says that only an exception sets it.
`ValuesInOrder` is inductive by itself, and it is all that the refinement needs besides.

**`SpscRingQueue`.**  `SeenIndices` places what a thread has seen of the other's index
between its own index and the other's current one, as distances modulo `Modulus`, so
that a stale load errs only on the safe side; that `orderedRead = seenRead` and
`orderedWrite = seenWrite` is what the acquire and release orders are for.  `Calls`
says that a conclusion once drawn (there is room, there is a value) stands, since only
the thread that drew it can use it up.  `StorageMatches` counts the slots from
`read_index`.  That `SlotOf` goes on across the wrap of the counter follows from
`Modulus % Capacity = 0`, the contract.

**`SocketHandles`.**  That a handle has one owner is not inductive: a call must know
that the handle in its local variable is nobody else's, and a move that its source does
nothing meanwhile.  `CallOf` says where a call is and whether its object is open,
`MoveOf` that the source of a move is in no other call and of no other move, and
`StateOf` what the system has behind the handle at each step of a set-up.

**`TcpStream`.**  `SendingOK` says that only the last call can be in progress and that
exactly its first `bytes_sent` bytes are in the stream; a destination holds the
last `total_received` bytes that were taken.  The rest is arithmetic on the ends of
the two sequences.

**The single-threaded objects.**  `LifetimesMatch` of the ring buffer is inductive as it
stands, because positions less than `Capacity` apart differ in their cell.  The
nearest grid value is found by division with remainder: half a `Grain` to either side.
`Reports` says of the stack of calls that all but the innermost are inside a
callback, and what the mood callback has been told when the innermost is about to call
it.  `Snapped` is inductive with it, and a step that ends at zero takes the axis over
by definition of the snapping.  `TotalIsSumAndDrift` is inductive as it stands: an
operation on the total and on the sum moves both by the same amount, so that their
distance stays the same modulo the number range; and while the drift is not negative it
stays the same exactly, because an insertion that would overflow is refused and a
subtraction never exceeds the total.  Removing or adding a value removes or adds its
`Tickets`.  For `random()`, the running sum is the number of tickets of the values
passed so far, for every order, and does not wrap as long as the total is not below the
sum.

**`Endian`.**  The invariant says what a loop has reached after `i` iterations:
`Writing` that `i` bytes are done and, for `write_le`, that `current` is the value cut
off after `i` digits; `Reading` that `result` is the low or the high `i` digits of the
value in the buffer; `Kept` that the digits last written stay where they are.
`NextDigit`, one digit more or less by division and remainder, carries each
iteration; that `result << 8` does not lose bits is part of the proof of `ReadBe`.

**Induction over numbers.**  The induction theorems of the TLAPS library take an
operator as a parameter, which none of the provers at hand can instantiate.
`SetInduction` of `SharedLemmas` states induction for a *set* of numbers and is itself
proved from the pigeonhole principle: the numbers outside of the set up to a given one
would map injectively to fewer.  The running sums of `random()` rest on it.

**Assumed:** for the byte order functions `Machine`, which relates the width, the powers
and the modulus as the C++ types do; `Capacity >= 2` for the MPSC queue; and otherwise
only the `ASSUME`s of the modules, which TLC evaluates in the runs: capacities are
positive, bounds are naturals, the sets of threads of the blocking queues are finite,
the classes of sockets are disjoint, `Capacity` divides `Modulus`, the grid of a
mood ends at most at 5 (it is packed into four bits a coordinate), `Raw` and `Moved` are not
values.  The bounds on pushes, calls, exceptions and nesting are constants like the
others, so the theorems hold for each of their values.

## 5. What is only model-checked

* Liveness (`EveryValueLeaves`, `PushesFinish`, `CloseReleases`, `KeepsMoving`,
  `CallsEnd`) and the fair half of a refinement (`ImplementsFairFifo`): TLAPS
  cannot reason about `ENABLED` here, on which weak and strong fairness rest.  The
  safety half of the latter is proved (`KeepsThePromise` of both queues).
* The four violations: they are counterexamples, which a run shows.

## 6. Findings

1. **`mpsc_ring_queue` with `Capacity` 1 is broken** (`mpsc_capacity_one`).
   `static_assert(Capacity > 0)` at mpsc_ring_queue.hpp:18 admits 1, but then
   "published" (`N + 1`, :66) and "free for the next round" (`N + Capacity`, :100)
   are the same number: a second push constructs over the unread object.
2. **A call that throws swallows the notification it received**
   (`bounded_pop_stuck`).  bounded_blocking_queue.hpp:95: the move assignment
   throws, the value stays, `notify_one` is skipped; another consumer that
   sleeps on `not_empty_` stays asleep although the queue has a value.  The same
   holds for a constructor that throws in `emplace_back` (:53) and for
   `blocking_queue::wait_and_pop` (blocking_queue.hpp:61); only the case of :95 is
   exhibited.  `NoLostNotEmpty`, `NoLostNotFull` and `NoLostWakeup` exempt what a
   throwing call has swallowed, and show that nothing else loses a wakeup.
3. **`mpsc_ring_queue::empty()` is no snapshot** (`mpsc_empty_snapshot`).  It loads
   `read_index_` (mpsc_ring_queue.hpp:106) and then the sequence of that cell (:109).
   A pop in between moves the cell on to the next round, and `empty()` answers true
   although the next element was available during the whole call.  README of the
   queue, line 156: "`empty()` means no element is currently available to pop"; line
   189: "`empty`, `full`, and `size` are snapshots".  `EmptyErrsOnlyBehindPop` is what
   holds instead.
4. **The total of a `weighted_set` need not be the sum of its weights**
   (`weighted_total`).  The defaulted moves (weighted_set.hpp:31, :32) copy
   `total_weight_` and leave the source's as it was, beside an empty map; so does a
   copy assignment (:29) that throws while it copies the map.  README of the set, line
   5: "The class owns the invariant that every stored value is unique, every weight is
   positive, and `total_weight()` is the sum of all stored weights".  A moved-from set
   that is filled again has targets for which `random()` finds no value and throws
   `logic_error`.  `TotalIsSumAndDrift` and `RandomIsProportional` say how far
   totals and selection are off.

Two remarks from reading the code that no run is about: `mpsc_ring_queue::size()`
loads `write_index_` first and `read_index_` second (mpsc_ring_queue.hpp:126, :127),
so pushes and pops in between may make the unsigned difference wrap; and when a mood
callback calls a setter, the outer call's quadrant callback runs afterwards with the
quadrant of the outer change (emotional_state.hpp:437), which is then the older one.
A mood callback that throws skips the quadrant callback of its change.

## 7. What is not modelled, and the roadmap

* **Wrap-around of the counters**: excluded by contract for the MPSC queue, and for
  the SPSC queue where `Capacity` does not divide 2^w.
* **`size()`** of both ring queues called by a thread other than the two
  ends: it changes nothing, and its answer may be any unsigned difference.
* **UDP datagrams**: `send_to` and `receive_from` hand one datagram to or from the
  system and keep no state.  The truncation flag is computed by the system.
* **Winsock**: the start-up of the library and its error codes; the functions that
  create and configure handles repeat the structure of the POSIX ones.  The
  conversion of addresses to and from text is left to the system on both.
* **Two peers that are both in `send_all`** with full buffers block each other for ever;
  this is inherent in blocking streams, and `TcpStream` has one direction.
* **thread_affinity**: one system call per platform behind one comparison; no state.
* `cache_alignment.hpp`, CMake files, Docker files and test drivers have no
  program logic.

Next steps for the proofs:

1. The two blocking queues share most of their argument; with a common lemma
   module for critical sections and notifications each proof would be shorter.
2. The safety half of `TcpStream`'s `CallsEnd`, in the form of an invariant: a call
   that can make no step waits for the other side, which is not waiting.
3. Progress by measures: for the queues, that a call which no other thread disturbs
   ends after a bounded number of its own steps, which is a safety property.
