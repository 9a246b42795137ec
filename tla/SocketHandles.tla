--------------------------- MODULE SocketHandles ---------------------------
(***************************************************************************)
(* obz::transport: which object owns which native handle.  A step is one   *)
(* system call or one assignment of a handle.  An object is used by one    *)
(* thread at a time, but threads share the handle table of the process, and *)
(* the system gives the number of a closed handle to whoever asks next.    *)
(***************************************************************************)
EXTENDS FiniteSets

CONSTANTS
    TcpSockets, Listeners, UdpSockets,   \* objects of the three classes
    Handles,                             \* native handles of the system
    Groups,                              \* multicast groups (with interface)
    Invalid                              \* invalid_native_socket_handle

ASSUME ObjectsAssumption ==
    /\ TcpSockets \cap Listeners = {} /\ TcpSockets \cap UdpSockets = {}
    /\ Listeners \cap UdpSockets = {}
ASSUME HandlesAssumption == Invalid \notin Handles

Objects == TcpSockets \cup Listeners \cup UdpSockets

VARIABLES
    handle,   \* handle[o]: socket_handle_ or listen_handle_
    pc,       \* pc[o]: the next step of the call of o in progress
    goal,     \* goal[o]: what follows once o is closed, or created
    new,      \* new[o]: a handle the system returned, not yet in an object
    kernel,   \* kernel[h]: what the system has behind the number h
    groups,   \* groups[h]: the memberships of h in the system
    joined    \* history, joined[o]: groups that o has joined and not left

system == <<kernel, groups>>
vars == <<handle, pc, goal, new, system, joined>>

Steps == {"idle", "close", "invalidate", "take", "source", "create", "created",
          "setup"}
Goals == {"stop", "reopen", "open", "accept"}
ASSUME GoalsAssumption == Objects \cap Goals = {}

IsOpen(o) == handle[o] # Invalid
SameClass(a, b) ==
    \E class \in {TcpSockets, Listeners, UdpSockets} : {a, b} \subseteq class

\* What a fully opened object has behind its handle.
Ready(o) == IF o \in TcpSockets THEN "connected"
            ELSE IF o \in Listeners THEN "listening" ELSE "bound"

Init ==
    /\ handle = [o \in Objects |-> Invalid]
    /\ pc = [o \in Objects |-> "idle"]
    /\ goal = [o \in Objects |-> "stop"]
    /\ new = [o \in Objects |-> Invalid]
    /\ kernel = [h \in Handles |-> "closed"]
    /\ groups = [h \in Handles |-> {}]
    /\ joined = [o \in Objects |-> {}]

GoTo(o, step) == pc' = [pc EXCEPT ![o] = step]

\* The call of o returns or throws.
Leave(o) == GoTo(o, "idle") /\ goal' = [goal EXCEPT ![o] = "stop"]

-----------------------------------------------------------------------------
(* close, also called by the destructor and by the calls that replace the   *)
(* handle.  On an object that is not open it does nothing.                 *)

CloseThen(o, next) ==
    /\ IF IsOpen(o) THEN GoTo(o, "close")
                    ELSE GoTo(o, IF next = "stop" THEN "idle" ELSE "create")
    /\ goal' = [goal EXCEPT ![o] = next]

Close(o) ==
    /\ pc[o] = "idle" /\ IsOpen(o)
    /\ CloseThen(o, "stop")
    /\ UNCHANGED <<handle, new, system, joined>>

\* detail::close_socket; the system forgets the memberships of the handle.
CloseHandle(h) ==
    /\ kernel' = [kernel EXCEPT ![h] = "closed"]
    /\ groups' = [groups EXCEPT ![h] = {}]

SystemClose(o) ==
    /\ pc[o] = "close"
    /\ CloseHandle(handle[o])
    /\ GoTo(o, "invalidate")
    /\ UNCHANGED <<handle, goal, new, joined>>

Invalidate(o) ==
    /\ pc[o] = "invalidate"
    /\ handle' = [handle EXCEPT ![o] = Invalid]
    /\ joined' = [joined EXCEPT ![o] = {}]
    /\ GoTo(o, CASE goal[o] = "stop" -> "idle"
                 [] goal[o] = "reopen" -> "create"
                 [] OTHER -> "take")
    /\ UNCHANGED <<goal, new, system>>

-----------------------------------------------------------------------------
(* connect, listen (with a valid backlog) and bind close what there is and  *)
(* open a new handle; udp_socket::open throws when there is one.           *)

Reopen(o) ==
    /\ pc[o] = "idle"
    /\ CloseThen(o, "reopen")
    /\ UNCHANGED <<handle, new, system, joined>>

OpenUdp(o) ==
    /\ pc[o] = "idle" /\ ~IsOpen(o)
    /\ GoTo(o, "create") /\ goal' = [goal EXCEPT ![o] = "open"]
    /\ UNCHANGED <<handle, new, system, joined>>

\* create_tcp_socket and create_udp_socket, which throw when there is none.
CreateFails(o) ==
    /\ pc[o] = "create" /\ Leave(o)
    /\ UNCHANGED <<handle, new, system, joined>>

Obtain(o, h, state) ==
    /\ kernel[h] = "closed"
    /\ kernel' = [kernel EXCEPT ![h] = state]
    /\ new' = [new EXCEPT ![o] = h]
    /\ GoTo(o, "created")

Create(o, h) ==
    /\ pc[o] = "create"
    /\ Obtain(o, h, "fresh")
    /\ UNCHANGED <<handle, goal, groups, joined>>

\* configure_tcp_socket, after a creation or an accept: setsockopt may fail on
\* macOS, and then the handle is closed before the exception is thrown.
ConfigureFails(o) ==
    /\ pc[o] = "created" /\ o \notin UdpSockets
    /\ CloseHandle(new[o])
    /\ new' = [new EXCEPT ![o] = Invalid]
    /\ Leave(o)
    /\ UNCHANGED <<handle, joined>>

StoreHandle(o) ==
    /\ pc[o] = "created" /\ goal[o] \in {"reopen", "open"}
    /\ handle' = [handle EXCEPT ![o] = new[o]]
    /\ new' = [new EXCEPT ![o] = Invalid]
    /\ IF goal[o] = "open" THEN Leave(o) ELSE GoTo(o, "setup") /\ UNCHANGED goal
    /\ UNCHANGED <<system, joined>>

\* connect_socket; set_reuse_address, bind_socket and listen_socket; or
\* bind_socket succeed ...
SetUp(o) ==
    /\ pc[o] = "setup"
    /\ kernel' = [kernel EXCEPT ![handle[o]] = Ready(o)]
    /\ Leave(o)
    /\ UNCHANGED <<handle, new, groups, joined>>

Stay(o) == Leave(o)                \* faulty: no catch (...)
CleanUp(o) == CloseThen(o, "stop")

\* ... or one of them throws, and the object is closed.
SetUpFails(o) ==
    /\ pc[o] = "setup"
    /\ CleanUp(o)
    /\ UNCHANGED <<handle, new, system, joined>>

-----------------------------------------------------------------------------
(* tcp_listener::accept returns an object made from the new handle.         *)

Accept(l, h) ==
    /\ pc[l] = "idle" /\ IsOpen(l)
    /\ Obtain(l, h, "connected")
    /\ goal' = [goal EXCEPT ![l] = "accept"]
    /\ UNCHANGED <<handle, groups, joined>>

Accepted(l, s) ==
    /\ pc[l] = "created" /\ goal[l] = "accept"
    /\ pc[s] = "idle" /\ ~IsOpen(s)
    /\ handle' = [handle EXCEPT ![s] = new[l]]
    /\ new' = [new EXCEPT ![l] = Invalid]
    /\ Leave(l)
    /\ UNCHANGED <<system, joined>>

-----------------------------------------------------------------------------
(* Moves.  Both objects belong to the thread that moves; a move into itself *)
(* changes nothing.  Construction is a move into an object without handle. *)

\* Assignment closes the target first; `goal` then names the source.
MoveAssign(to, from) ==
    /\ to # from /\ SameClass(to, from)
    /\ pc[to] = "idle" /\ pc[from] = "idle"
    /\ pc' = [pc EXCEPT ![to] = IF IsOpen(to) THEN "close" ELSE "take",
                        ![from] = "source"]
    /\ goal' = [goal EXCEPT ![to] = from]
    /\ UNCHANGED <<handle, new, system, joined>>

KeptHandle(o) == handle[goal[o]]   \* faulty: the source keeps its handle
SourceHandle(o) == Invalid         \* std::exchange

Take(o) ==
    /\ pc[o] = "take"
    /\ handle' = [handle EXCEPT ![o] = handle[goal[o]],
                              ![goal[o]] = SourceHandle(o)]
    /\ joined' = [joined EXCEPT ![o] = joined[goal[o]], ![goal[o]] = {}]
    /\ pc' = [pc EXCEPT ![o] = "idle", ![goal[o]] = "idle"]
    /\ goal' = [goal EXCEPT ![o] = "stop"]
    /\ UNCHANGED <<new, system>>

-----------------------------------------------------------------------------
(* Multicast membership; a failure changes nothing.                         *)

Join(u, g) ==
    /\ pc[u] = "idle" /\ IsOpen(u) /\ g \notin groups[handle[u]]
    /\ groups' = [groups EXCEPT ![handle[u]] = @ \cup {g}]
    /\ joined' = [joined EXCEPT ![u] = @ \cup {g}]
    /\ UNCHANGED <<handle, pc, goal, new, kernel>>

LeaveGroup(u, g) ==
    /\ pc[u] = "idle" /\ IsOpen(u) /\ g \in groups[handle[u]]
    /\ groups' = [groups EXCEPT ![handle[u]] = @ \ {g}]
    /\ joined' = [joined EXCEPT ![u] = @ \ {g}]
    /\ UNCHANGED <<handle, pc, goal, new, kernel>>

-----------------------------------------------------------------------------

Next ==
    \/ \E o \in Objects :
         \/ Close(o) \/ SystemClose(o) \/ Invalidate(o) \/ Reopen(o)
         \/ CreateFails(o) \/ ConfigureFails(o) \/ StoreHandle(o)
         \/ SetUp(o) \/ SetUpFails(o) \/ Take(o)
         \/ \E h \in Handles : Create(o, h)
         \/ \E from \in Objects : MoveAssign(o, from)
    \/ \E l \in Listeners : \/ \E h \in Handles : Accept(l, h)
                            \/ \E s \in TcpSockets : Accepted(l, s)
    \/ \E u \in UdpSockets :
         OpenUdp(u) \/ \E g \in Groups : Join(u, g) \/ LeaveGroup(u, g)

Spec == Init /\ [][Next]_vars

-----------------------------------------------------------------------------
(* What the classes guarantee. *)

\* Each variable has its type.
TypeOK ==
    /\ handle \in [Objects -> Handles \cup {Invalid}]
    /\ pc \in [Objects -> Steps]
    /\ goal \in [Objects -> Goals \cup Objects]
    /\ new \in [Objects -> Handles \cup {Invalid}]
    /\ kernel \in [Handles ->
         {"closed", "fresh", "connected", "listening", "bound"}]
    /\ groups \in [Handles -> SUBSET Groups]
    /\ joined \in [Objects -> SUBSET Groups]

\* The objects that answer for h.  Past ::close an object still has the number
\* in its member, but no longer owns what is behind it.
Owns(o, h) == (handle[o] = h /\ pc[o] # "invalidate") \/ new[o] = h
Owners(h) == {o \in Objects : Owns(o, h)}

\* Every open handle has exactly one owner and every owner's handle is open,
\* whatever fails and however numbers are reused: nothing is leaked, nothing
\* is closed twice, and no call reaches a handle of another object.
HandlesOwnedOnce ==
    /\ TypeOK
    /\ \A h \in Handles :
         Cardinality(Owners(h)) = IF kernel[h] = "closed" THEN 0 ELSE 1

\* Between calls an open object is completely set up, also after a connect,
\* listen or bind that failed, and the memberships of a UDP socket are those
\* it has joined and not left, wherever the handle was moved.
IsReady(o) ==
    /\ kernel[handle[o]] = Ready(o)
         \/ (o \in UdpSockets /\ kernel[handle[o]] = "fresh")
    /\ groups[handle[o]] = joined[o]
OpenMeansReady ==
    \A o \in Objects : pc[o] = "idle" /\ IsOpen(o) => IsReady(o)

-----------------------------------------------------------------------------
(* The inductive invariant. *)

\* A handle is open as long as somebody owns it, and nobody owns it twice.
OneOwner ==
    /\ \A h \in Handles :
         kernel[h] = "closed" <=> \A o \in Objects : ~Owns(o, h)
    /\ \A h \in Handles : \A a, b \in Objects :
         Owns(a, h) /\ Owns(b, h) => a = b
    /\ \A o \in Objects : new[o] = Invalid \/ new[o] # handle[o]

\* Where a call is says whether the object is open and why it is there.
CallOf(o) ==
    /\ pc[o] \in {"idle", "source"} => goal[o] = "stop"
    /\ pc[o] \in {"close", "invalidate", "setup"} => IsOpen(o)
    /\ pc[o] \in {"create", "take"} => ~IsOpen(o)
    /\ pc[o] \in {"close", "invalidate"} => goal[o] \notin {"open", "accept"}
    /\ pc[o] = "create" => goal[o] \in {"reopen", "open"}
    /\ pc[o] = "created" => \/ goal[o] \in {"reopen", "open"} /\ ~IsOpen(o)
                            \/ goal[o] = "accept" /\ IsOpen(o)
    /\ pc[o] = "setup" => goal[o] = "reopen"
    /\ new[o] # Invalid <=> pc[o] = "created"
    /\ goal[o] = "open" => o \in UdpSockets
    /\ goal[o] = "accept" => o \in Listeners /\ pc[o] = "created"

\* A move has a source of the same class, which does nothing else and is the
\* source of no other move.
MoveOf(o) ==
    /\ pc[o] = "take" => goal[o] \in Objects
    /\ goal[o] \in Objects =>
         /\ pc[o] \in {"close", "invalidate", "take"}
         /\ goal[o] # o /\ SameClass(o, goal[o]) /\ pc[goal[o]] = "source"
         /\ \A p \in Objects : goal[p] = goal[o] => p = o

\* A handle is set up once, and the memberships are those of its owner.
StateOf(o) ==
    /\ IsOpen(o) /\ (pc[o] \in {"idle", "source"} \/ goal[o] = "accept") =>
         IsReady(o)
    /\ ~IsOpen(o) => joined[o] = {}
    /\ pc[o] = "setup" => /\ kernel[handle[o]] = "fresh"
                          /\ groups[handle[o]] = {} /\ joined[o] = {}
    /\ pc[o] = "created" =>
         /\ kernel[new[o]] = IF goal[o] = "accept" THEN "connected" ELSE "fresh"
         /\ groups[new[o]] = {}

IInv ==
    /\ TypeOK /\ OneOwner
    /\ \A h \in Handles : kernel[h] = "closed" => groups[h] = {}
    /\ \A o \in Objects : CallOf(o) /\ MoveOf(o) /\ StateOf(o)
=============================================================================
