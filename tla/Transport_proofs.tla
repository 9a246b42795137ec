-------------------------- MODULE Transport_proofs --------------------------
(***************************************************************************)
(* Proofs about obz::transport.                                             *)
(*                                                                          *)
(* SocketHandles: a handle has one owner.  That is inductive only together  *)
(* with what every step of a call knows: CallOf says where a call is and    *)
(* whether its object is open, MoveOf that the source of a move does        *)
(* nothing else, and StateOf what the system has behind a handle.           *)
(*                                                                          *)
(* TcpStream: a call of send_all in progress has the first bytes_sent bytes  *)
(* of its data in the stream, and a destination holds the last              *)
(* total_received bytes that were taken from it.                            *)
(***************************************************************************)
EXTENDS SocketHandles, TcpStream, SharedLemmas, SequenceTheorems,
        FiniteSetTheorems, TLAPS

-----------------------------------------------------------------------------
(* SocketHandles. *)

\* A step that touches neither an object nor the handles it owns.
Untouched(p) ==
    /\ handle'[p] = handle[p] /\ pc'[p] = pc[p] /\ goal'[p] = goal[p]
    /\ new'[p] = new[p] /\ joined'[p] = joined[p]
    /\ \A h \in Handles : Owns(p, h) => /\ kernel'[h] = kernel[h]
                                        /\ groups'[h] = groups[h]

LEMMA StateStays ==
    ASSUME IInv, NEW p \in Objects, Untouched(p)
    PROVE  StateOf(p)'
  BY HandlesAssumption DEF IInv, TypeOK, CallOf, StateOf, IsOpen, IsReady,
     Ready, Owns, Untouched

\* The handle of an object has no other owner.
LEMMA OthersHandle ==
    ASSUME IInv, NEW o \in Objects, NEW p \in Objects, o # p,
           NEW h \in Handles, Owns(o, h)
    PROVE  ~Owns(p, h)
  BY DEF IInv, OneOwner

\* Behind the handle of an open object there is something.
LEMMA OpenHandle ==
    ASSUME IInv, NEW o \in Objects, IsOpen(o), pc[o] # "invalidate"
    PROVE  /\ handle[o] \in Handles /\ Owns(o, handle[o])
           /\ kernel[handle[o]] # "closed"
  BY DEF IInv, TypeOK, OneOwner, IsOpen, Owns

\* Closing, reopening and the destructor: close itself touches no handle.
LEMMA CloseKeepsIInv ==
    ASSUME IInv, NEW o \in Objects, Close(o)
    PROVE  IInv'
  <1> USE ObjectsAssumption, HandlesAssumption, GoalsAssumption
      DEF Objects, system, IInv, TypeOK, CallOf, IsOpen, GoTo, Close, CloseThen
  <1>1. TypeOK'
    BY DEF Steps, Goals, Ready
  <1>2. OneOwner'
    BY DEF OneOwner, Owns
  <1>3. \A x \in Handles : kernel'[x] = "closed" => groups'[x] = {}
    BY DEF OneOwner, StateOf
  <1>4. ASSUME NEW p \in Objects PROVE CallOf(p)'
    BY DEF MoveOf, Goals
  <1>5. ASSUME NEW p \in Objects PROVE MoveOf(p)'
    BY DEF MoveOf, Goals
  <1>6. ASSUME NEW p \in Objects PROVE StateOf(p)'
    BY DEF OneOwner, Owns, MoveOf, StateOf, IsReady, Ready
  <1> QED
    BY <1>1, <1>2, <1>3, <1>4, <1>5, <1>6

\* Past ::close the number in the member is nobody's.
LEMMA SystemCloseKeepsIInv ==
    ASSUME IInv, NEW o \in Objects, SystemClose(o)
    PROVE  IInv'
  <1> USE ObjectsAssumption, HandlesAssumption, GoalsAssumption
      DEF Objects, system, IInv, TypeOK, CallOf, IsOpen, GoTo, SystemClose,
          CloseHandle
  <1>1. TypeOK'
    BY DEF Steps, Goals, Ready
  <1>2. OneOwner'
    BY DEF OneOwner, Owns
  <1>3. \A x \in Handles : kernel'[x] = "closed" => groups'[x] = {}
    BY DEF OneOwner, StateOf
  <1>4. ASSUME NEW p \in Objects PROVE CallOf(p)'
    BY DEF MoveOf, Goals
  <1>5. ASSUME NEW p \in Objects PROVE MoveOf(p)'
    BY DEF MoveOf, Goals
  <1>6. ASSUME NEW p \in Objects PROVE StateOf(p)'
    BY DEF OneOwner, Owns, MoveOf, StateOf, IsReady, Ready
  <1> QED
    BY <1>1, <1>2, <1>3, <1>4, <1>5, <1>6

LEMMA InvalidateKeepsIInv ==
    ASSUME IInv, NEW o \in Objects, Invalidate(o)
    PROVE  IInv'
  <1> USE ObjectsAssumption, HandlesAssumption, GoalsAssumption
      DEF Objects, system, IInv, TypeOK, CallOf, IsOpen, GoTo, Invalidate
  <1>1. TypeOK'
    BY DEF Steps, Goals, Ready
  <1>2. OneOwner'
    BY DEF OneOwner, Owns
  <1>3. \A x \in Handles : kernel'[x] = "closed" => groups'[x] = {}
    BY DEF OneOwner, StateOf
  <1>4. ASSUME NEW p \in Objects PROVE CallOf(p)'
    BY DEF MoveOf, Goals
  <1>5. ASSUME NEW p \in Objects PROVE MoveOf(p)'
    BY DEF MoveOf, Goals
  <1>6. ASSUME NEW p \in Objects PROVE StateOf(p)'
    BY DEF OneOwner, Owns, MoveOf, StateOf, IsReady, Ready
  <1> QED
    BY <1>1, <1>2, <1>3, <1>4, <1>5, <1>6

LEMMA ReopenKeepsIInv ==
    ASSUME IInv, NEW o \in Objects, Reopen(o)
    PROVE  IInv'
  <1> USE ObjectsAssumption, HandlesAssumption, GoalsAssumption
      DEF Objects, system, IInv, TypeOK, CallOf, IsOpen, GoTo, Reopen,
          CloseThen
  <1>1. TypeOK'
    BY DEF Steps, Goals, Ready
  <1>2. OneOwner'
    BY DEF OneOwner, Owns
  <1>3. \A x \in Handles : kernel'[x] = "closed" => groups'[x] = {}
    BY DEF OneOwner, StateOf
  <1>4. ASSUME NEW p \in Objects PROVE CallOf(p)'
    BY DEF MoveOf, Goals
  <1>5. ASSUME NEW p \in Objects PROVE MoveOf(p)'
    BY DEF MoveOf, Goals
  <1>6. ASSUME NEW p \in Objects PROVE StateOf(p)'
    BY DEF OneOwner, Owns, MoveOf, StateOf, IsReady, Ready
  <1> QED
    BY <1>1, <1>2, <1>3, <1>4, <1>5, <1>6

LEMMA OpenUdpKeepsIInv ==
    ASSUME IInv, NEW o \in UdpSockets, OpenUdp(o)
    PROVE  IInv'
  <1> USE ObjectsAssumption, HandlesAssumption, GoalsAssumption
      DEF Objects, system, IInv, TypeOK, CallOf, IsOpen, GoTo, OpenUdp
  <1>1. TypeOK'
    BY DEF Steps, Goals, Ready
  <1>2. OneOwner'
    BY DEF OneOwner, Owns
  <1>3. \A x \in Handles : kernel'[x] = "closed" => groups'[x] = {}
    BY DEF OneOwner, StateOf
  <1>4. ASSUME NEW p \in Objects PROVE CallOf(p)'
    BY DEF MoveOf, Goals
  <1>5. ASSUME NEW p \in Objects PROVE MoveOf(p)'
    BY DEF MoveOf, Goals
  <1>6. ASSUME NEW p \in Objects PROVE StateOf(p)'
    BY DEF OneOwner, Owns, MoveOf, StateOf, IsReady, Ready
  <1> QED
    BY <1>1, <1>2, <1>3, <1>4, <1>5, <1>6

\* Opening: a handle comes from the system when nobody owns its number.
LEMMA CreateFailsKeepsIInv ==
    ASSUME IInv, NEW o \in Objects, CreateFails(o)
    PROVE  IInv'
  <1> USE ObjectsAssumption, HandlesAssumption, GoalsAssumption
      DEF Objects, system, IInv, TypeOK, CallOf, IsOpen, GoTo, CreateFails,
          Leave
  <1>1. TypeOK'
    BY DEF Steps, Goals, Ready
  <1>2. OneOwner'
    BY DEF OneOwner, Owns
  <1>3. \A x \in Handles : kernel'[x] = "closed" => groups'[x] = {}
    BY DEF OneOwner, StateOf
  <1>4. ASSUME NEW p \in Objects PROVE CallOf(p)'
    BY DEF MoveOf, Goals
  <1>5. ASSUME NEW p \in Objects PROVE MoveOf(p)'
    BY DEF MoveOf, Goals
  <1>6. ASSUME NEW p \in Objects PROVE StateOf(p)'
    BY DEF OneOwner, Owns, MoveOf, StateOf, IsReady, Ready
  <1> QED
    BY <1>1, <1>2, <1>3, <1>4, <1>5, <1>6

LEMMA CreateKeepsIInv ==
    ASSUME IInv, NEW o \in Objects, NEW h \in Handles, Create(o, h)
    PROVE  IInv'
  <1> USE ObjectsAssumption, HandlesAssumption, GoalsAssumption
      DEF Objects, system, IInv, TypeOK, CallOf, IsOpen, GoTo, Create, Obtain
  <1>1. TypeOK'
    BY DEF Steps, Goals, Ready
  <1>2. OneOwner'
    BY DEF OneOwner, Owns
  <1>3. \A x \in Handles : kernel'[x] = "closed" => groups'[x] = {}
    BY DEF OneOwner, StateOf
  <1>4. ASSUME NEW p \in Objects PROVE CallOf(p)'
    BY DEF MoveOf, Goals
  <1>5. ASSUME NEW p \in Objects PROVE MoveOf(p)'
    BY DEF MoveOf, Goals
  <1>6. ASSUME NEW p \in Objects PROVE StateOf(p)'
    BY DEF OneOwner, Owns, MoveOf, StateOf, IsReady, Ready
  <1> QED
    BY <1>1, <1>2, <1>3, <1>4, <1>5, <1>6

LEMMA ConfigureFailsKeepsIInv ==
    ASSUME IInv, NEW o \in Objects, ConfigureFails(o)
    PROVE  IInv'
  <1> USE ObjectsAssumption, HandlesAssumption, GoalsAssumption
      DEF Objects, system, IInv, TypeOK, CallOf, IsOpen, GoTo,
          ConfigureFails, CloseHandle, Leave
  <1>1. TypeOK'
    BY DEF Steps, Goals, Ready
  <1>2. OneOwner'
    BY DEF OneOwner, Owns
  <1>3. \A x \in Handles : kernel'[x] = "closed" => groups'[x] = {}
    BY DEF OneOwner, StateOf
  <1>4. ASSUME NEW p \in Objects PROVE CallOf(p)'
    BY DEF MoveOf, Goals
  <1>5. ASSUME NEW p \in Objects PROVE MoveOf(p)'
    BY DEF MoveOf, Goals
  <1>6. ASSUME NEW p \in Objects PROVE StateOf(p)'
    BY DEF OneOwner, Owns, MoveOf, StateOf, IsReady, Ready
  <1> QED
    BY <1>1, <1>2, <1>3, <1>4, <1>5, <1>6

LEMMA StoreHandleKeepsIInv ==
    ASSUME IInv, NEW o \in Objects, StoreHandle(o)
    PROVE  IInv'
  <1> USE ObjectsAssumption, HandlesAssumption, GoalsAssumption
      DEF Objects, system, IInv, TypeOK, CallOf, IsOpen, GoTo, StoreHandle,
          Leave
  <1>1. TypeOK'
    BY DEF Steps, Goals, Ready
  <1>2. OneOwner'
    BY DEF OneOwner, Owns
  <1>3. \A x \in Handles : kernel'[x] = "closed" => groups'[x] = {}
    BY DEF OneOwner, StateOf
  <1>4. ASSUME NEW p \in Objects PROVE CallOf(p)'
    BY DEF MoveOf, Goals
  <1>5. ASSUME NEW p \in Objects PROVE MoveOf(p)'
    BY DEF MoveOf, Goals
  <1>6. ASSUME NEW p \in Objects PROVE StateOf(p)'
    <2>1. CASE p = o
      <3>1. /\ pc[o] = "created" /\ goal[o] \in {"reopen", "open"} /\ ~IsOpen(o)
            /\ handle'[o] = new[o] /\ joined' = joined
            /\ kernel' = kernel /\ groups' = groups
        OBVIOUS
      <3>2. /\ handle'[o] # Invalid /\ kernel'[handle'[o]] = "fresh"
            /\ groups'[handle'[o]] = {} /\ joined'[o] = {}
        BY <3>1 DEF StateOf
      <3>3. /\ goal[o] = "open" => o \in UdpSockets /\ pc'[o] = "idle"
            /\ goal[o] = "reopen" => pc'[o] = "setup" /\ goal'[o] = "reopen"
        BY <3>1
      <3> QED
        BY <2>1, <3>1, <3>2, <3>3 DEF StateOf, IsReady
    <2>2. CASE p # o
      <3>1. Untouched(p)
        BY <2>2, OthersHandle, OpenHandle DEF Untouched, Owns
      <3> QED
        BY <3>1, StateStays
    <2> QED
      BY <2>1, <2>2
  <1> QED
    BY <1>1, <1>2, <1>3, <1>4, <1>5, <1>6

LEMMA SetUpKeepsIInv ==
    ASSUME IInv, NEW o \in Objects, SetUp(o)
    PROVE  IInv'
  <1> USE ObjectsAssumption, HandlesAssumption, GoalsAssumption
      DEF Objects, system, IInv, TypeOK, CallOf, IsOpen, GoTo, SetUp, Leave
  <1>1. TypeOK'
    BY DEF Steps, Goals, Ready
  <1>2. OneOwner'
    <2>1. Ready(o) # "closed"
      BY DEF Ready
    <2> QED
      BY <2>1 DEF OneOwner, Owns
  <1>3. \A x \in Handles : kernel'[x] = "closed" => groups'[x] = {}
    BY DEF OneOwner, StateOf
  <1>4. ASSUME NEW p \in Objects PROVE CallOf(p)'
    BY DEF MoveOf, Goals
  <1>5. ASSUME NEW p \in Objects PROVE MoveOf(p)'
    BY DEF MoveOf, Goals
  <1>6. ASSUME NEW p \in Objects PROVE StateOf(p)'
    <2>1. CASE p = o
      <3>1. /\ kernel'[handle'[o]] = Ready(o) /\ pc'[o] = "idle"
            /\ groups'[handle'[o]] = joined'[o]
        BY DEF StateOf
      <3> QED
        BY <2>1, <3>1 DEF StateOf, IsReady
    <2>2. CASE p # o
      <3>1. Untouched(p)
        BY <2>2, OthersHandle, OpenHandle DEF Untouched, Owns
      <3> QED
        BY <3>1, StateStays
    <2> QED
      BY <2>1, <2>2
  <1> QED
    BY <1>1, <1>2, <1>3, <1>4, <1>5, <1>6

LEMMA SetUpFailsKeepsIInv ==
    ASSUME IInv, NEW o \in Objects, SetUpFails(o)
    PROVE  IInv'
  <1> USE ObjectsAssumption, HandlesAssumption, GoalsAssumption
      DEF Objects, system, IInv, TypeOK, CallOf, IsOpen, GoTo, SetUpFails,
          CleanUp, CloseThen
  <1>1. TypeOK'
    BY DEF Steps, Goals, Ready
  <1>2. OneOwner'
    BY DEF OneOwner, Owns
  <1>3. \A x \in Handles : kernel'[x] = "closed" => groups'[x] = {}
    BY DEF OneOwner, StateOf
  <1>4. ASSUME NEW p \in Objects PROVE CallOf(p)'
    BY DEF MoveOf, Goals
  <1>5. ASSUME NEW p \in Objects PROVE MoveOf(p)'
    BY DEF MoveOf, Goals
  <1>6. ASSUME NEW p \in Objects PROVE StateOf(p)'
    BY DEF OneOwner, Owns, MoveOf, StateOf, IsReady, Ready
  <1> QED
    BY <1>1, <1>2, <1>3, <1>4, <1>5, <1>6

\* Accepting: the new handle is the listener's until the socket has it.
LEMMA AcceptKeepsIInv ==
    ASSUME IInv, NEW o \in Listeners, NEW h \in Handles, Accept(o, h)
    PROVE  IInv'
  <1> USE ObjectsAssumption, HandlesAssumption, GoalsAssumption
      DEF Objects, system, IInv, TypeOK, CallOf, IsOpen, GoTo, Accept, Obtain
  <1>1. TypeOK'
    BY DEF Steps, Goals, Ready
  <1>2. OneOwner'
    <2>1. \A x \in Handles : \A p \in Objects :
             Owns(p, x)' <=> Owns(p, x) \/ (p = o /\ x = h)
      BY DEF Owns
    <2>2. /\ handle'[o] # h /\ \A p \in Objects : ~Owns(p, h)
          /\ kernel'[h] # "closed"
          /\ \A x \in Handles : x # h => kernel'[x] = kernel[x]
      BY DEF OneOwner, Owns
    <2>3. \A p \in Objects : new'[p] = Invalid \/ new'[p] # handle'[p]
      BY <2>2 DEF OneOwner
    <2> QED
      BY <2>1, <2>2, <2>3 DEF OneOwner
  <1>3. \A x \in Handles : kernel'[x] = "closed" => groups'[x] = {}
    BY DEF OneOwner, StateOf
  <1>4. ASSUME NEW p \in Objects PROVE CallOf(p)'
    BY DEF MoveOf, Goals
  <1>5. ASSUME NEW p \in Objects PROVE MoveOf(p)'
    BY DEF MoveOf, Goals
  <1>6. ASSUME NEW p \in Objects PROVE StateOf(p)'
    BY DEF OneOwner, Owns, MoveOf, StateOf, IsReady, Ready
  <1> QED
    BY <1>1, <1>2, <1>3, <1>4, <1>5, <1>6

LEMMA AcceptedKeepsIInv ==
    ASSUME IInv, NEW o \in Listeners, NEW s \in TcpSockets, Accepted(o, s)
    PROVE  IInv'
  <1> USE ObjectsAssumption, HandlesAssumption, GoalsAssumption
      DEF Objects, system, IInv, TypeOK, CallOf, IsOpen, GoTo, Accepted, Leave
  <1>1. TypeOK'
    BY DEF Steps, Goals, Ready
  <1>2. OneOwner'
    BY DEF OneOwner, Owns
  <1>3. \A x \in Handles : kernel'[x] = "closed" => groups'[x] = {}
    BY DEF OneOwner, StateOf
  <1>4. ASSUME NEW p \in Objects PROVE CallOf(p)'
    BY DEF MoveOf, Goals
  <1>5. ASSUME NEW p \in Objects PROVE MoveOf(p)'
    BY DEF MoveOf, Goals
  <1>6. ASSUME NEW p \in Objects PROVE StateOf(p)'
    <2>1. CASE p = o
      BY <2>1 DEF StateOf, IsReady, Ready
    <2>2. CASE p = s
      <3>1. /\ kernel'[handle'[s]] = "connected" /\ groups'[handle'[s]] = {}
            /\ joined'[s] = {} /\ pc'[s] = "idle" /\ handle'[s] # Invalid
        BY DEF StateOf
      <3> QED
        BY <2>2, <3>1 DEF StateOf, IsReady, Ready
    <2>3. CASE p # o /\ p # s
      <3>1. Untouched(p)
        BY <2>3 DEF Untouched
      <3> QED
        BY <3>1, StateStays
    <2> QED
      BY <2>1, <2>2, <2>3
  <1> QED
    BY <1>1, <1>2, <1>3, <1>4, <1>5, <1>6

\* Moving: the source is reserved until its handle is taken.
LEMMA MoveAssignKeepsIInv ==
    ASSUME IInv, NEW o \in Objects, NEW s \in Objects, MoveAssign(o, s)
    PROVE  IInv'
  <1> USE ObjectsAssumption, HandlesAssumption, GoalsAssumption
      DEF Objects, system, IInv, TypeOK, CallOf, IsOpen, GoTo, MoveAssign,
          SameClass
  <1>1. TypeOK'
    BY DEF Steps, Goals, Ready
  <1>2. OneOwner'
    BY DEF OneOwner, Owns
  <1>3. \A x \in Handles : kernel'[x] = "closed" => groups'[x] = {}
    BY DEF OneOwner, StateOf
  <1>4. ASSUME NEW p \in Objects PROVE CallOf(p)'
    BY DEF MoveOf, Goals
  <1>5. ASSUME NEW p \in Objects PROVE MoveOf(p)'
    BY DEF MoveOf, Goals
  <1>6. ASSUME NEW p \in Objects PROVE StateOf(p)'
    BY DEF OneOwner, Owns, MoveOf, StateOf, IsReady, Ready
  <1> QED
    BY <1>1, <1>2, <1>3, <1>4, <1>5, <1>6

LEMMA TakeKeepsIInv ==
    ASSUME IInv, NEW o \in Objects, Take(o)
    PROVE  IInv'
  <1> USE ObjectsAssumption, HandlesAssumption, GoalsAssumption
      DEF Objects, system, IInv, TypeOK, CallOf, IsOpen, GoTo, Take,
          SourceHandle, SameClass
  <1>1. TypeOK'
    BY DEF MoveOf, Steps, Goals
  <1>2. OneOwner'
    <2>1. goal[o] \in Objects /\ goal[o] # o /\ pc[goal[o]] = "source"
      BY DEF MoveOf
    <2>2. /\ handle'[o] = handle[goal[o]] /\ handle'[goal[o]] = Invalid
          /\ pc'[o] = "idle" /\ pc'[goal[o]] = "idle"
          /\ handle[o] = Invalid /\ new' = new /\ kernel' = kernel
          /\ new[o] = Invalid /\ new[goal[o]] = Invalid
          /\ \A p \in Objects : p # o /\ p # goal[o] =>
               handle'[p] = handle[p] /\ pc'[p] = pc[p]
      BY <2>1
    <2>3. \A x \in Handles : \A p \in Objects :
             Owns(p, x)' <=> (IF p = o THEN Owns(goal[o], x)
                              ELSE p # goal[o] /\ Owns(p, x))
      BY <2>1, <2>2 DEF Owns
    <2>4. \A x \in Handles : ~Owns(o, x)
      BY <2>2 DEF Owns
    <2>5. \A p \in Objects : new'[p] = Invalid \/ new'[p] # handle'[p]
      BY <2>1, <2>2 DEF OneOwner
    <2> QED
      BY <2>1, <2>2, <2>3, <2>4, <2>5 DEF OneOwner
  <1>3. \A x \in Handles : kernel'[x] = "closed" => groups'[x] = {}
    BY DEF OneOwner, StateOf
  <1>4. ASSUME NEW p \in Objects PROVE CallOf(p)'
    BY DEF MoveOf, Goals
  <1>5. ASSUME NEW p \in Objects PROVE MoveOf(p)'
    BY DEF MoveOf, Goals
  <1>6. ASSUME NEW p \in Objects PROVE StateOf(p)'
    BY DEF OneOwner, Owns, MoveOf, StateOf, IsReady, Ready
  <1> QED
    BY <1>1, <1>2, <1>3, <1>4, <1>5, <1>6

\* Multicast memberships.
LEMMA JoinKeepsIInv ==
    ASSUME IInv, NEW o \in UdpSockets, NEW g \in Groups, Join(o, g)
    PROVE  IInv'
  <1> USE ObjectsAssumption, HandlesAssumption, GoalsAssumption
      DEF Objects, system, IInv, TypeOK, CallOf, IsOpen, GoTo, Join
  <1>1. TypeOK'
    BY DEF Steps, Goals, Ready
  <1>2. OneOwner'
    BY DEF OneOwner, Owns
  <1>3. \A x \in Handles : kernel'[x] = "closed" => groups'[x] = {}
    BY OpenHandle
  <1>4. ASSUME NEW p \in Objects PROVE CallOf(p)'
    BY DEF MoveOf, Goals
  <1>5. ASSUME NEW p \in Objects PROVE MoveOf(p)'
    BY DEF MoveOf, Goals
  <1>6. ASSUME NEW p \in Objects PROVE StateOf(p)'
    <2>1. CASE p = o
      BY <2>1 DEF OneOwner, Owns, StateOf, IsReady, Ready
    <2>2. CASE p # o
      <3>1. Untouched(p)
        BY <2>2, OthersHandle, OpenHandle DEF Untouched, Owns
      <3> QED
        BY <3>1, StateStays
    <2> QED
      BY <2>1, <2>2
  <1> QED
    BY <1>1, <1>2, <1>3, <1>4, <1>5, <1>6

LEMMA LeaveGroupKeepsIInv ==
    ASSUME IInv, NEW o \in UdpSockets, NEW g \in Groups, LeaveGroup(o, g)
    PROVE  IInv'
  <1> USE ObjectsAssumption, HandlesAssumption, GoalsAssumption
      DEF Objects, system, IInv, TypeOK, CallOf, IsOpen, GoTo, LeaveGroup
  <1>1. TypeOK'
    BY DEF Steps, Goals, Ready
  <1>2. OneOwner'
    BY DEF OneOwner, Owns
  <1>3. \A x \in Handles : kernel'[x] = "closed" => groups'[x] = {}
    BY DEF OneOwner, StateOf
  <1>4. ASSUME NEW p \in Objects PROVE CallOf(p)'
    BY DEF MoveOf, Goals
  <1>5. ASSUME NEW p \in Objects PROVE MoveOf(p)'
    BY DEF MoveOf, Goals
  <1>6. ASSUME NEW p \in Objects PROVE StateOf(p)'
    <2>1. CASE p = o
      BY <2>1 DEF OneOwner, Owns, StateOf, IsReady, Ready
    <2>2. CASE p # o
      <3>1. Untouched(p)
        BY <2>2, OthersHandle, OpenHandle DEF Untouched, Owns
      <3> QED
        BY <3>1, StateStays
    <2> QED
      BY <2>1, <2>2
  <1> QED
    BY <1>1, <1>2, <1>3, <1>4, <1>5, <1>6

-----------------------------------------------------------------------------
(* The theorems. *)

LEMMA InitIInv == Init => IInv
  <1> SUFFICES ASSUME Init PROVE IInv
    OBVIOUS
  <1>1. TypeOK
    BY DEF Init, TypeOK, Steps, Goals
  <1>2. OneOwner
    BY HandlesAssumption DEF Init, OneOwner, Owns
  <1>3. ASSUME NEW o \in Objects
        PROVE  CallOf(o) /\ MoveOf(o) /\ StateOf(o)
    BY GoalsAssumption
       DEF Init, CallOf, MoveOf, StateOf, IsOpen, Goals
  <1> QED
    BY <1>1, <1>2, <1>3 DEF IInv, Init

LEMMA NextKeepsIInv == IInv /\ [Next]_vars => IInv'
  <1> SUFFICES ASSUME IInv, [Next]_vars PROVE IInv'
    OBVIOUS
  <1>1. ASSUME NEW o \in Objects,
               Close(o) \/ SystemClose(o) \/ Invalidate(o) \/ Reopen(o)
                 \/ Take(o) \/ \E from \in Objects : MoveAssign(o, from)
        PROVE  IInv'
    BY <1>1, CloseKeepsIInv, SystemCloseKeepsIInv, InvalidateKeepsIInv,
       ReopenKeepsIInv, TakeKeepsIInv, MoveAssignKeepsIInv
  <1>2. ASSUME NEW o \in Objects,
               CreateFails(o) \/ ConfigureFails(o) \/ StoreHandle(o)
                 \/ SetUp(o) \/ SetUpFails(o)
                 \/ \E h \in Handles : Create(o, h)
        PROVE  IInv'
    BY <1>2, CreateFailsKeepsIInv, ConfigureFailsKeepsIInv,
       StoreHandleKeepsIInv, SetUpKeepsIInv, SetUpFailsKeepsIInv,
       CreateKeepsIInv
  <1>3. ASSUME NEW l \in Listeners,
               \/ \E h \in Handles : Accept(l, h)
               \/ \E s \in TcpSockets : Accepted(l, s)
        PROVE  IInv'
    BY <1>3, AcceptKeepsIInv, AcceptedKeepsIInv
  <1>4. ASSUME NEW u \in UdpSockets,
               OpenUdp(u) \/ \E g \in Groups : Join(u, g) \/ LeaveGroup(u, g)
        PROVE  IInv'
    BY <1>4, OpenUdpKeepsIInv, JoinKeepsIInv, LeaveGroupKeepsIInv
  <1>5. CASE UNCHANGED vars
    BY <1>5 DEF vars, system, IInv, TypeOK, OneOwner, Owns, CallOf, MoveOf,
                StateOf, IsOpen, IsReady
  <1> QED
    BY <1>1, <1>2, <1>3, <1>4, <1>5 DEF Next

\* The inductive invariant of SocketHandles holds in every reachable state.
THEOREM InvariantHolds == Spec => []IInv
  BY InitIInv, NextKeepsIInv, PTL DEF Spec

\* For any number of objects, threads and handles, whatever fails and however
\* the system reuses numbers: an open handle has exactly one owner, and a
\* handle that is owned is open.
THEOREM OwnedOnce == Spec => []HandlesOwnedOnce
  <1>1. IInv => HandlesOwnedOnce
    <2> SUFFICES ASSUME IInv, NEW h \in Handles
                 PROVE  Cardinality(Owners(h)) =
                          IF kernel[h] = "closed" THEN 0 ELSE 1
      BY DEF IInv, HandlesOwnedOnce
    <2>1. CASE kernel[h] = "closed"
      <3>1. Owners(h) = {}
        BY <2>1 DEF IInv, OneOwner, Owners
      <3> QED
        BY <2>1, <3>1, FS_EmptySet
    <2>2. CASE kernel[h] # "closed"
      <3>1. PICK o \in Objects : Owns(o, h)
        BY <2>2 DEF IInv, OneOwner
      <3>2. Owners(h) = {o}
        BY <3>1, OthersHandle DEF Owners
      <3> QED
        BY <2>2, <3>2, FS_Singleton
    <2> QED
      BY <2>1, <2>2
  <1> QED
    BY <1>1, InvariantHolds, PTL

\* Between calls an open object is completely set up and has the memberships
\* that were joined on its handle, also when the handle came from another
\* object and when an earlier connect, listen or bind failed halfway.
THEOREM ReadyBetweenCalls == Spec => []OpenMeansReady
  <1>1. IInv => OpenMeansReady
    BY DEF IInv, StateOf, OpenMeansReady
  <1> QED
    BY <1>1, InvariantHolds, PTL

-----------------------------------------------------------------------------
(* TcpStream: the stream between two peers.                                 *)

\* The first t places of the destination hold what came before place k of the
\* stream.
LEMMA Delivered ==
    ASSUME TcpTypeOK, total_received <= taken
    PROVE  [i \in 1 .. total_received |-> destination[i]]
               = SubSeq(stream, taken - total_received + 1, taken)
             <=> \A i \in 1 .. total_received :
                   destination[i] = stream[taken - total_received + i]
  <1> DEFINE S == Nat \X Nat
  <1>. PICK s : s = stream
    OBVIOUS
  <1>. PICK t : t = total_received
    OBVIOUS
  <1>. PICK k : k = taken
    OBVIOUS
  <1>. PICK d : d = destination
    OBVIOUS
  <1>0. s \in Seq(S) /\ t \in Nat /\ k \in t .. Len(s)
    BY DEF TcpTypeOK
  <1> HIDE DEF S
  <1> DEFINE part == SubSeq(s, k - t + 1, k)
             front == [i \in 1 .. t |-> d[i]]
  <1>1. k - t + 1 \in Int /\ k \in Int /\ k - (k - t + 1) + 1 = t
    BY <1>0
  <1>2. \A i \in k - t + 1 .. k : s[i] \in S
    BY <1>0
  <1>3. /\ part \in Seq(S)
        /\ Len(part) = IF k - t + 1 <= k THEN k - (k - t + 1) + 1 ELSE 0
        /\ \A i \in 1 .. k - (k - t + 1) + 1 : part[i] = s[(k - t + 1) + i - 1]
    BY <1>1, <1>2, SubSeqProperties
  <1>4. Len(part) = t /\ \A i \in 1 .. t : part[i] = s[k - t + i]
    <2>1. \A i \in 1 .. t : (k - t + 1) + i - 1 = k - t + i
      BY <1>0
    <2> QED
      BY <1>0, <1>1, <1>3, <2>1
  <1> HIDE DEF part
  <1>5. ASSUME front = part, NEW i \in 1 .. t
        PROVE  d[i] = s[k - t + i]
    BY <1>0, <1>4, <1>5
  <1>6. ASSUME \A i \in 1 .. t : d[i] = s[k - t + i]
        PROVE  front = part
    <2>1. \A i \in 1 .. t : k - t + i \in 1 .. Len(s)
      BY <1>0
    <2>2. \A i \in 1 .. t : d[i] \in S
      BY <1>0, <1>6, <2>1
    <2>3. front \in Seq(S) /\ Len(front) = t /\ \A i \in 1 .. t : front[i] = d[i]
      BY <1>0, <2>2
    <2>4. \A i \in 1 .. t : front[i] = part[i]
      BY <1>4, <1>6, <2>3
    <2> HIDE DEF front
    <2> QED
      BY <1>3, <1>4, <2>3, <2>4
  <1> QED
    BY <1>5, <1>6 DEF part, front

\* ReceivedExactly and ReceivingOK place by place.
Received ==
    /\ total_received \in 0 .. size /\ total_received <= taken
    /\ \A i \in 1 .. total_received :
         destination[i] = stream[taken - total_received + i]
    /\ result = "completed" =>
         IF exactly THEN total_received = size ELSE total_received > 0
    /\ result = "peer_closed" =>
         sender # "open" /\ taken = Len(stream) /\ total_received < size
    /\ receiver = "receiving" => result = "none" /\ size > 0

LEMMA ReceivedPlaces ==
    ASSUME TcpTypeOK
    PROVE  ReceivedExactly /\ ReceivingOK <=> Received
  <1>1. total_received <= taken =>
          ([i \in 1 .. total_received |-> destination[i]]
             = SubSeq(stream, taken - total_received + 1, taken)
           <=> \A i \in 1 .. total_received :
                 destination[i] = stream[taken - total_received + i])
    BY Delivered
  <1>2. total_received \in Nat /\ size \in Nat
    BY SizesAssumption, BufferAssumption, BoundsAssumption DEF TcpTypeOK
  <1>3. total_received \in 0 .. size <=> total_received <= size
    BY <1>2
  <1> QED
    BY <1>1, <1>3, Zenon DEF ReceivedExactly, ReceivingOK, Received

\* A receive starts with an empty destination.
LEMMA ReceiveKeeps ==
    ASSUME TcpTypeOK, Received,
           NEW n \in Sizes, NEW all \in BOOLEAN, Receive(n, all)
    PROVE  TcpTypeOK' /\ Received'
  <1>1. /\ receiver' = "receiving" /\ exactly' = all /\ size' = n
        /\ destination' = [i \in 1 .. n |-> Unwritten]
        /\ total_received' = 0 /\ result' = "none" /\ n > 0
        /\ UNCHANGED <<sender, calls, bytes_sent, stream, taken, errors>>
    BY DEF Receive, sending
  <1>2. n \in Nat
    BY SizesAssumption, BufferAssumption, BoundsAssumption
  <1>3. destination' \in Seq(Nat \X Nat) /\ Len(destination') = n
    BY <1>1, <1>2 DEF Unwritten
  <1>4. TcpTypeOK'
    BY <1>1, <1>3 DEF TcpTypeOK, Room
  <1>5. Received'
    BY <1>1, <1>2 DEF Received, TcpTypeOK
  <1> QED
    BY <1>4, <1>5

\* The next k bytes of the stream continue what the destination holds.
LEMMA ReceiveSomeKeeps ==
    ASSUME TcpTypeOK, Received,
           NEW k \in 1 .. BufferSize, ReceiveSome(k)
    PROVE  TcpTypeOK' /\ Received'
  <1> DEFINE t == total_received
  <1>1. /\ receiver = "receiving" /\ t < Wanted
        /\ k <= size - t /\ k <= Len(stream) - taken
        /\ destination' = [i \in 1 .. size |->
                             IF i - t \in 1 .. k THEN stream[taken + i - t]
                                                 ELSE destination[i]]
        /\ taken' = taken + k /\ total_received' = t + k
        /\ UNCHANGED <<sender, calls, bytes_sent, stream, receiver, exactly,
                       size, result, errors>>
    BY DEF ReceiveSome, Offset, sending
  <1>2. /\ k \in Nat \ {0} /\ t \in Nat /\ size \in Nat /\ taken \in Nat
        /\ Len(stream) \in Nat /\ taken <= Len(stream) /\ t <= size
        /\ t <= taken /\ Len(destination) = size
        /\ stream \in Seq(Nat \X Nat) /\ destination \in Seq(Nat \X Nat)
    BY SizesAssumption, BufferAssumption, BoundsAssumption
       DEF TcpTypeOK, Received
  <1> HIDE DEF t
  <1>a. k <= size - t /\ k <= Len(stream) - taken
    BY <1>1
  <1>b. t + k <= size /\ taken + k <= Len(stream) /\ t + k <= taken + k
    BY <1>a, <1>2
  <1>3. ASSUME NEW i \in 1 .. size
        PROVE  IF i - t \in 1 .. k THEN taken + i - t \in 1 .. Len(stream)
                                   ELSE i \in 1 .. Len(destination)
    BY <1>b, <1>2, SMTT(30)
  <1>4. destination' \in Seq(Nat \X Nat) /\ Len(destination') = size
    <2> DEFINE d == [i \in 1 .. size |->
                       IF i - t \in 1 .. k THEN stream[taken + i - t]
                                           ELSE destination[i]]
    <2>1. ASSUME NEW i \in 1 .. size
          PROVE  d[i] \in Nat \X Nat
      <3>1. CASE i - t \in 1 .. k
        <4>1. taken + i - t \in 1 .. Len(stream)
          BY <1>3, <3>1
        <4>2. stream[taken + i - t] \in Nat \X Nat
          BY <1>2, <4>1
        <4> QED
          BY <3>1, <4>2
      <3>2. CASE i - t \notin 1 .. k
        <4>1. destination[i] \in Nat \X Nat
          BY <1>2, <1>3, <3>2, SMTT(30)
        <4> QED
          BY <3>2, <4>1
      <3> QED
        BY <3>1, <3>2
    <2>2. d \in Seq(Nat \X Nat) /\ Len(d) = size
      BY <1>2, <2>1
    <2> QED
      BY <1>1, <2>2
  <1>5. TcpTypeOK'
    BY SizesAssumption, BufferAssumption, BoundsAssumption, <1>1, <1>2, <1>4
       DEF TcpTypeOK, Room, t
  <1>6. ASSUME NEW i \in 1 .. t + k
        PROVE  destination'[i] = stream'[(taken + k) - (t + k) + i]
    <2>1. i \in 1 .. size /\ (taken + k) - (t + k) + i = taken + i - t
          /\ taken - t + i = taken + i - t
      BY <1>b, <1>2
    <2>2. CASE i <= t
      <3>1. i \in 1 .. t /\ i - t \notin 1 .. k
        BY <1>2, <2>2
      <3>2. destination'[i] = destination[i]
        BY <1>1, <2>1, <3>1
      <3>3. destination[i] = stream[taken - t + i]
        BY <3>1 DEF Received, t
      <3> QED
        BY <1>1, <2>1, <3>2, <3>3
    <2>3. CASE i > t
      <3>1. i - t \in 1 .. k
        BY <1>2, <2>3
      <3> QED
        BY <1>1, <2>1, <3>1
    <2> QED
      BY <1>2, <2>2, <2>3
  <1>7. Received'
    <2>1. result' = "none" /\ size' > 0
      BY <1>1 DEF Received
    <2>2. t + k \in 0 .. size /\ t + k <= taken + k
      BY <1>b, <1>2
    <2> QED
      BY <1>1, <1>6, <2>1, <2>2 DEF Received
  <1> QED
    BY <1>5, <1>7

\* A receive ends: completed, with peer_closed or with an exception.
LEMMA ReceiveEnds ==
    ASSUME TcpTypeOK, Received,
           \/ Completed \/ PeerClosed \/ ReceiveTooLarge
           \/ ReceiveThrows \/ CloseReceiver
    PROVE  TcpTypeOK' /\ Received'
  <1>1. /\ UNCHANGED <<sender, calls, bytes_sent, stream, taken, exactly, size,
                       destination, total_received>>
        /\ receiver' \in {"open", "closed"}
        /\ errors' \in {errors, errors + 1} /\ errors' <= MaxErrors
    BY SizesAssumption, BufferAssumption, BoundsAssumption
       DEF Completed, PeerClosed, ReceiveTooLarge,
           ReceiveThrows, CloseReceiver, EndReceive, sending,
           TcpTypeOK
  <1>2. \/ result' \in {result, "none"}
        \/ result' = "completed" /\ total_received >= Wanted
        \/ /\ result' = "peer_closed" /\ total_received < Wanted
           /\ sender # "open" /\ taken = Len(stream)
    BY DEF Completed, PeerClosed, ReceiveTooLarge,
           ReceiveThrows, CloseReceiver, EndReceive
  <1>3. result' = "peer_closed" /\ total_received < Wanted
          => receiver = "receiving" \/ result' = result
    BY DEF Completed, PeerClosed, ReceiveTooLarge,
           ReceiveThrows, CloseReceiver, EndReceive
  <1>4. TcpTypeOK'
    BY SizesAssumption, BufferAssumption, BoundsAssumption, <1>1, <1>2
       DEF TcpTypeOK, Room
  <1>5. Received'
    BY SizesAssumption, BufferAssumption, BoundsAssumption, <1>1, <1>2, <1>3
       DEF Received, TcpTypeOK, Wanted
  <1> QED
    BY <1>4, <1>5

-----------------------------------------------------------------------------
(* The sender.                                                              *)

\* StreamIntact without the types, and SendingOK.
Sent ==
    /\ \A j \in 1 .. Len(stream) : stream[j][1] \in 1 .. Len(calls)
    /\ \A j, k \in 1 .. Len(stream) : j < k =>
         \/ stream[j][1] < stream[k][1]
         \/ stream[j][1] = stream[k][1] /\ stream[j][2] < stream[k][2]
    /\ \A m \in 1 .. Len(calls) :
         /\ \E k \in 0 .. calls[m].size : InStream(m) = 1 .. k
         /\ calls[m].outcome = "returned" =>
              InStream(m) = 1 .. calls[m].size
         /\ calls[m].size > SizeLimit => InStream(m) = {}
    /\ \A m \in 1 .. Len(calls) - 1 : calls[m].outcome # "sending"
    /\ Sending => /\ bytes_sent \in 0 .. calls[Len(calls)].size
                      /\ InStream(Len(calls)) = 1 .. bytes_sent

LEMMA SentParts ==
    ASSUME TcpTypeOK
    PROVE  StreamIntact /\ SendingOK <=> Sent
  <1>1. DOMAIN stream = 1 .. Len(stream)
    BY DEF TcpTypeOK
  <1>2. Last(calls) = calls[Len(calls)]
    BY DEF Last
  <1> QED
    BY <1>1, <1>2, Zenon DEF StreamIntact, SendingOK, Sent

\* What a caller sees of a call it starts.
LEMMA AcceptedOf ==
    ASSUME TcpTypeOK, NEW m, NEW i
    PROVE  i \in InStream(m) <=>
             \E j \in 1 .. Len(stream) : stream[j][1] = m /\ stream[j][2] = i
  <1>1. DOMAIN stream = 1 .. Len(stream)
    BY DEF TcpTypeOK
  <1> QED
    BY <1>1, Zenon DEF InStream

LEMMA SendAllKeeps ==
    ASSUME TcpTypeOK, Sent, NEW n \in Sizes, SendAll(n)
    PROVE  TcpTypeOK' /\ Sent'
  <1> DEFINE entry == [size |-> n, outcome |-> "sending"]
  <1>1. /\ ~Sending /\ calls' = Append(calls, entry) /\ bytes_sent' = 0
        /\ UNCHANGED <<sender, stream, taken, receiver, exactly, size,
                       destination, total_received, result, errors>>
    BY DEF SendAll, receiving
  <1>2. /\ calls \in Seq([size : Sizes,
                          outcome : {"sending", "returned", "threw"}])
        /\ entry \in [size : Sizes, outcome : {"sending", "returned", "threw"}]
        /\ n \in Nat
    BY SizesAssumption, BufferAssumption, BoundsAssumption DEF TcpTypeOK
  <1>. PICK d : d = Len(calls)
    OBVIOUS
  <1>3. /\ calls' \in Seq([size : Sizes,
                           outcome : {"sending", "returned", "threw"}])
        /\ Len(calls') = d + 1 /\ calls'[d + 1] = entry /\ d \in Nat
        /\ \A m \in 1 .. d : calls'[m] = calls[m]
    BY <1>1, <1>2
  <1>4. TcpTypeOK'
    BY <1>1, <1>3 DEF TcpTypeOK, Room
  <1>5. \A m : InStream(m)' = InStream(m)
    BY <1>1 DEF InStream
  <1>6. InStream(d + 1) = {}
    <2>1. \A j \in 1 .. Len(stream) : stream[j][1] # d + 1
      BY <1>3 DEF Sent
    <2> QED
      BY <2>1, AcceptedOf, Zenon
  <1>7. \A m \in 1 .. d : calls[m].outcome # "sending"
    <2>1. d # 0 => calls[d].outcome # "sending"
      BY <1>1, <1>2 DEF Sending, Last
    <2> QED
      BY <1>3, <2>1 DEF Sent
  <1> HIDE DEF entry
  <1>8. \A j \in 1 .. Len(stream') : stream'[j][1] \in 1 .. d + 1
    BY <1>1, <1>3 DEF Sent
  <1>9. ASSUME NEW m \in 1 .. d + 1
        PROVE  /\ \E k \in 0 .. calls'[m].size : InStream(m)' = 1 .. k
               /\ calls'[m].outcome = "returned" =>
                    InStream(m)' = 1 .. calls'[m].size
               /\ calls'[m].size > SizeLimit => InStream(m)' = {}
    <2>1. CASE m \in 1 .. d
      BY <1>3, <1>5, <2>1, Zenon DEF Sent
    <2>2. CASE m = d + 1
      <3>1. calls'[m].size = n /\ calls'[m].outcome = "sending"
        BY <1>3, <2>2 DEF entry
      <3>2. InStream(m)' = {} /\ 1 .. 0 = {} /\ 0 \in 0 .. n
        BY <1>2, <1>5, <1>6, <2>2
      <3> QED
        BY <3>1, <3>2
    <2> QED
      BY <1>3, <2>1, <2>2
  <1>10. \A m \in 1 .. (d + 1) - 1 : calls'[m].outcome # "sending"
    BY <1>3, <1>7
  <1>11. InStream(d + 1)' = 1 .. bytes_sent' /\ bytes_sent' \in 0 .. n
    <2>1. InStream(d + 1)' = {} /\ 1 .. 0 = {}
      BY <1>5, <1>6
    <2> QED
      BY <1>1, <1>2, <2>1
  <1>12. calls'[d + 1].size = n
    BY <1>3 DEF entry
  <1>13. \A j, k \in 1 .. Len(stream') : j < k =>
           \/ stream'[j][1] < stream'[k][1]
           \/ stream'[j][1] = stream'[k][1] /\ stream'[j][2] < stream'[k][2]
    BY <1>1 DEF Sent
  <1> QED
    BY <1>3, <1>4, <1>8, <1>9, <1>10, <1>11, <1>12, <1>13, Zenon DEF Sent

\* The k bytes that the system takes are the ones after bytes_sent.
LEMMA SendKeeps ==
    ASSUME TcpTypeOK, Sent, NEW k \in 1 .. BufferSize, Send(k)
    PROVE  /\ TcpTypeOK' /\ Sent'
           /\ \A j \in 1 .. Len(stream) : stream'[j] = stream[j]
  <1>. PICK d : d = Len(calls)
    OBVIOUS
  <1>. PICK l : l = Len(stream)
    OBVIOUS
  <1>. PICK b : b = bytes_sent
    OBVIOUS
  <1>. PICK n : n = calls[d].size
    OBVIOUS
  <1> DEFINE span == [i \in 1 .. k |-> <<d, b + i>>]
  <1>1. /\ calls # <<>> /\ calls[d].outcome = "sending" /\ sender = "open"
        /\ n - b <= SizeLimit /\ k <= n - b /\ k <= Room
        /\ stream' = stream \o span /\ bytes_sent' = b + k
        /\ UNCHANGED <<sender, calls, taken, receiver, exactly, size,
                       destination, total_received, result, errors>>
    BY DEF Send, Sending, Last, Remaining, Subspan,
           receiving
  <1>2. /\ d \in Nat \ {0} /\ n \in Nat /\ l \in Nat /\ k \in Nat \ {0}
        /\ taken \in 0 .. l /\ SizeLimit \in Nat
        /\ stream \in Seq(Nat \X Nat)
    <2>1. k \in Nat \ {0} /\ SizeLimit \in Nat
      BY SizesAssumption, BufferAssumption, BoundsAssumption
    <2>2. /\ stream \in Seq(Nat \X Nat) /\ taken \in 0 .. l
          /\ l \in Nat
      BY DEF TcpTypeOK
    <2>3. /\ calls \in Seq([size : Sizes,
                            outcome : {"sending", "returned", "threw"}])
      BY DEF TcpTypeOK
    <2>4. d \in Nat \ {0} /\ d \in 1 .. Len(calls)
      BY <1>1, <2>3
    <2>5. n \in Sizes
      <3>1. calls[d] \in [size : Sizes,
                          outcome : {"sending", "returned", "threw"}]
        BY <2>3, <2>4, ElementOfSeq
      <3> QED
        BY <3>1
    <2> QED
      BY SizesAssumption, BufferAssumption, BoundsAssumption, <2>1, <2>2, <2>4, <2>5
  <1>3. /\ b \in 0 .. n /\ InStream(d) = 1 .. b
    BY <1>1, <1>2 DEF Sent, Sending, Last
  <1>4. b + k <= n
    BY <1>1, <1>2, <1>3
  <1>5. /\ stream' \in Seq(Nat \X Nat) /\ Len(stream') = l + k
        /\ \A j \in 1 .. l : stream'[j] = stream[j]
        /\ \A j \in l + 1 .. l + k : stream'[j] = <<d, b + j - l>>
    <2>1. /\ span \in Seq(Nat \X Nat) /\ Len(span) = k
          /\ \A i \in 1 .. k : span[i] = <<d, b + i>>
      BY <1>2, <1>3
    <2> HIDE DEF span
    <2>2. /\ stream' \in Seq(Nat \X Nat) /\ Len(stream') = l + k
          /\ \A j \in 1 .. l + k :
               stream'[j] = IF j <= l THEN stream[j] ELSE span[j - l]
      BY <1>1, <1>2, <2>1, ConcatProperties
    <2>3. \A j \in l + 1 .. l + k :
            ~(j <= l) /\ j - l \in 1 .. k /\ b + (j - l) = b + j - l
      BY <1>2, <1>3
    <2>4. \A j \in 1 .. l : j <= l /\ j \in 1 .. l + k
      BY <1>2
    <2>5. \A j \in l + 1 .. l + k : j \in 1 .. l + k
      BY <1>2
    <2> QED
      BY <2>1, <2>2, <2>3, <2>4, <2>5
  <1> HIDE DEF span
  <1>a. /\ \A j \in 1 .. l : /\ stream'[j][1] = stream[j][1]
                             /\ stream'[j][2] = stream[j][2]
        /\ \A j \in l + 1 .. l + k : /\ stream'[j][1] = d
                                     /\ stream'[j][2] = b + j - l
        /\ \A j \in 1 .. l + k : j \in 1 .. l \/ j \in l + 1 .. l + k
    <2>1. \A j \in 1 .. l : /\ stream'[j][1] = stream[j][1]
                            /\ stream'[j][2] = stream[j][2]
      BY <1>5, Zenon
    <2>2. ASSUME NEW j \in l + 1 .. l + k
          PROVE  stream'[j][1] = d /\ stream'[j][2] = b + j - l
      <3>1. stream'[j] = <<d, b + j - l>>
        BY <1>5, Zenon
      <3> QED
        BY <3>1
    <2>3. \A j \in 1 .. l + k : j \in 1 .. l \/ j \in l + 1 .. l + k
      BY <1>2
    <2> QED
      BY <2>1, <2>2, <2>3
  <1>6. TcpTypeOK'
    <2>1. Room' >= 0
      BY SizesAssumption, BufferAssumption, BoundsAssumption, <1>1, <1>2, <1>5
         DEF Room
    <2>2. taken \in 0 .. l + k /\ b + k \in Nat
      BY <1>2, <1>3
    <2> QED
      BY <1>1, <1>5, <2>1, <2>2 DEF TcpTypeOK
  <1>7. \A j \in 1 .. l : /\ stream[j][1] \in 1 .. d
                          /\ stream[j][1] = d => stream[j][2] \in 1 .. b
    <2>1. \A j \in 1 .. l : stream[j][1] \in 1 .. d
      BY DEF Sent
    <2>2. ASSUME NEW j \in 1 .. l, stream[j][1] = d
          PROVE  stream[j][2] \in 1 .. b
      <3>1. stream[j][2] \in InStream(d)
        BY <2>2, AcceptedOf
      <3> QED
        BY <1>3, <3>1
    <2> QED
      BY <2>1, <2>2
  <1>8. \A j \in 1 .. l + k : stream'[j][1] \in 1 .. d
    <2> SUFFICES ASSUME NEW j \in 1 .. l + k PROVE stream'[j][1] \in 1 .. d
      OBVIOUS
    <2>1. CASE j \in 1 .. l
      BY <1>7, <1>a, <2>1
    <2>2. CASE j \in l + 1 .. l + k
      <3>1. stream'[j][1] = d
        BY <1>a, <2>2
      <3> QED
        BY <1>2, <3>1
    <2> QED
      BY <1>a, <2>1, <2>2
  <1>9. ASSUME NEW i \in 1 .. l + k, NEW j \in 1 .. l + k, i < j
        PROVE  \/ stream'[i][1] < stream'[j][1]
               \/ /\ stream'[i][1] = stream'[j][1]
                  /\ stream'[i][2] < stream'[j][2]
    <2>1. CASE j <= l
      <3>1. i \in 1 .. l /\ j \in 1 .. l
        BY <1>2, <1>9, <2>1
      <3>2. \/ stream[i][1] < stream[j][1]
            \/ stream[i][1] = stream[j][1] /\ stream[i][2] < stream[j][2]
        BY <1>9, <3>1 DEF Sent
      <3> QED
        BY <1>a, <3>1, <3>2, Zenon
    <2>2. CASE j > l
      <3>1. stream'[j][1] = d /\ stream'[j][2] = b + j - l /\ j - l > 0
        <4>1. j \in l + 1 .. l + k /\ j - l > 0
          BY <1>2, <2>2
        <4> QED
          BY <1>a, <4>1
      <3>2. CASE i <= l
        <4>0. i \in 1 .. l
          BY <1>2, <3>2
        <4>1. /\ i \in 1 .. l /\ stream'[i][1] = stream[i][1]
              /\ stream'[i][2] = stream[i][2]
          BY <1>a, <4>0
        <4>2. b < b + j - l
          BY <1>2, <1>3, <3>1
        <4>. PICK x : x = stream[i][1]
          OBVIOUS
        <4>. PICK y : y = stream[i][2]
          OBVIOUS
        <4>3. x \in 1 .. d /\ (x = d => y \in 1 .. b)
          BY <1>7, <4>1
        <4>4. x = d => y < b + j - l
          <5>1. b \in Nat /\ l \in Nat /\ j \in Nat
            BY <1>2, <1>3
          <5> QED
            BY <4>2, <4>3, <5>1
        <4>5. x < d \/ x = d
          BY <1>2, <4>3
        <4> QED
          BY <3>1, <4>1, <4>4, <4>5
      <3>3. CASE i > l
        <4>1. stream'[i][1] = d /\ stream'[i][2] = b + i - l
          <5>1. i \in l + 1 .. l + k
            BY <1>2, <3>3
          <5> QED
            BY <1>a, <5>1
        <4>2. b + i - l < b + j - l
          BY <1>2, <1>3, <1>9
        <4> QED
          BY <3>1, <4>1, <4>2
      <3> QED
        BY <1>2, <3>2, <3>3
    <2> QED
      BY <1>2, <2>1, <2>2
  <1>10. ASSUME NEW m \in 1 .. d, m # d
         PROVE  InStream(m)' = InStream(m)
    <2>1. DOMAIN stream = 1 .. l /\ DOMAIN stream' = 1 .. l + k
      BY <1>2, <1>5
    <2>2. ASSUME NEW j \in 1 .. l + k, stream'[j][1] = m
          PROVE  j \in 1 .. l /\ stream'[j] = stream[j]
      <3>1. j \in 1 .. l
        BY <1>10, <1>a, <2>2
      <3> QED
        BY <1>5, <3>1
    <2>3. \A j \in 1 .. l : j \in 1 .. l + k
      BY <1>2
    <2>4. {j \in DOMAIN stream' : stream'[j][1] = m}
            = {j \in DOMAIN stream : stream[j][1] = m}
      BY <1>5, <2>1, <2>2, <2>3
    <2> QED
      BY <1>5, <2>1, <2>4 DEF InStream
  <1>11. InStream(d)' = 1 .. b + k
    <2>1. DOMAIN stream = 1 .. l /\ DOMAIN stream' = 1 .. l + k
      BY <1>2, <1>5
    <2>2. ASSUME NEW i \in 1 .. b + k
          PROVE  \E j \in 1 .. l + k : stream'[j][1] = d /\ stream'[j][2] = i
      <3>1. CASE i <= b
        <4>1. i \in InStream(d)
          BY <1>3, <3>1
        <4>2. PICK j \in 1 .. l : stream[j][1] = d /\ stream[j][2] = i
          BY <4>1, AcceptedOf
        <4>3. j \in 1 .. l + k
          BY <1>2
        <4> QED
          BY <1>5, <4>2, <4>3
      <3>2. CASE i > b
        <4>. PICK j : j = l + i - b
          OBVIOUS
        <4>1. j \in l + 1 .. l + k /\ j \in 1 .. l + k /\ b + j - l = i
          BY <1>2, <1>3, <3>2
        <4>2. stream'[j] = <<d, i>>
          BY <1>5, <4>1
        <4> QED
          BY <4>1, <4>2
      <3> QED
        BY <1>2, <1>3, <3>1, <3>2
    <2>3. ASSUME NEW j \in 1 .. l + k, stream'[j][1] = d
          PROVE  stream'[j][2] \in 1 .. b + k
      <3>1. CASE j \in 1 .. l
        <4>1. stream'[j][2] \in 1 .. b
          BY <1>5, <1>7, <2>3, <3>1
        <4> QED
          BY <1>2, <1>3, <4>1
      <3>2. CASE j \in l + 1 .. l + k
        <4>1. stream'[j][2] = b + j - l
          BY <1>5, <3>2
        <4> QED
          BY <1>2, <1>3, <3>2, <4>1
      <3> QED
        BY <1>2, <3>1, <3>2
    <2>4. InStream(d)' = {stream'[j][2] :
                               j \in {i \in 1 .. l + k : stream'[i][1] = d}}
      BY <2>1 DEF InStream
    <2>5. ASSUME NEW x
          PROVE  x \in InStream(d)' <=> x \in 1 .. b + k
      BY <2>2, <2>3, <2>4
    <2> QED
      BY <2>5
  <1>12. ASSUME NEW m \in 1 .. d
         PROVE  /\ \E i \in 0 .. calls'[m].size : InStream(m)' = 1 .. i
                /\ calls'[m].outcome = "returned" =>
                     InStream(m)' = 1 .. calls'[m].size
                /\ calls'[m].size > SizeLimit => InStream(m)' = {}
    <2>1. CASE m # d
      BY <1>1, <1>10, <2>1, Zenon DEF Sent
    <2>2. CASE m = d
      <3>1. b + k \in 0 .. n
        BY <1>2, <1>3, <1>4
      <3>2. ~(n > SizeLimit)
        <4>0. d \in 1 .. Len(calls)
          BY <1>2
        <4>1. n > SizeLimit => 1 .. b = {}
          BY <1>3, <4>0 DEF Sent
        <4>2. n > SizeLimit => b = 0
          BY <1>3, <4>1
        <4> QED
          BY <1>1, <1>2, <1>3, <4>2
      <3>3. calls'[m].size = n /\ calls'[m].outcome = "sending"
        BY <1>1, <2>2
      <3> QED
        BY <1>11, <2>2, <3>1, <3>2, <3>3
    <2> QED
      BY <2>1, <2>2
  <1>13. b + k \in 0 .. n
    BY <1>2, <1>3, <1>4
  <1> QED
    BY <1>1, <1>5, <1>6, <1>8, <1>9, <1>11, <1>12, <1>13 DEF Sent

\* A call that ends: by returning after its last byte, or with an exception.
LEMMA EndSendAllKeeps ==
    ASSUME TcpTypeOK, Sent, Sending,
           NEW outcome \in {"returned", "threw"}, EndSendAll(outcome),
           outcome = "returned" => Remaining = 0,
           errors' \in 0 .. MaxErrors
    PROVE  TcpTypeOK' /\ Sent'
  <1>. PICK d : d = Len(calls)
    OBVIOUS
  <1> DEFINE Entry == [size : Sizes, outcome : {"sending", "returned", "threw"}]
  <1>1. /\ calls # <<>> /\ calls[d].outcome = "sending"
        /\ calls' = [calls EXCEPT ![d].outcome = outcome]
        /\ UNCHANGED <<sender, bytes_sent, stream, taken, receiver, exactly,
                       size, destination, total_received, result>>
        /\ outcome = "returned" => calls[d].size - bytes_sent = 0
    BY DEF EndSendAll, Sending, Last, Remaining, receiving
  <1>2. calls \in Seq(Entry) /\ d \in Nat \ {0} /\ d \in 1 .. Len(calls)
    BY <1>1 DEF TcpTypeOK
  <1>3. /\ calls' \in Seq(Entry) /\ Len(calls') = d
        /\ \A m \in 1 .. d : calls'[m].size = calls[m].size
        /\ \A m \in 1 .. d : m # d => calls'[m].outcome = calls[m].outcome
        /\ calls'[d].outcome = outcome
    <2>1. \A m \in 1 .. d : calls[m] \in Entry
      BY <1>2, ElementOfSeq
    <2>2. \A m \in 1 .. d : calls'[m] = IF m = d
                              THEN [calls[m] EXCEPT !.outcome = outcome]
                              ELSE calls[m]
      BY <1>1, <1>2
    <2>3. /\ \A m \in 1 .. d : calls'[m].size = calls[m].size
          /\ \A m \in 1 .. d : m # d => calls'[m].outcome = calls[m].outcome
          /\ calls'[d].outcome = outcome
      BY <1>2, <2>1, <2>2
    <2>4. \A m \in 1 .. d : calls'[m] \in Entry
      BY <2>1, <2>2
    <2>5. DOMAIN calls' = 1 .. d
      BY <1>1, <1>2
    <2>6. calls' = [m \in 1 .. d |-> calls'[m]]
      BY <1>1, <1>2, <2>5
    <2> HIDE DEF Entry
    <2>7. calls' \in Seq(Entry) /\ Len(calls') = d
      BY <1>2, <2>4, <2>6
    <2> QED
      BY <2>3, <2>7
  <1>4. TcpTypeOK'
    BY <1>1, <1>3 DEF TcpTypeOK, Room
  <1>5. \A m : InStream(m)' = InStream(m)
    BY <1>1 DEF InStream
  <1>6. /\ InStream(d) = 1 .. bytes_sent /\ bytes_sent \in Nat
        /\ calls[d].size \in Nat
    <2>1. calls[d] \in Entry
      BY <1>2, ElementOfSeq
    <2> QED
      BY SizesAssumption, BufferAssumption, BoundsAssumption, <2>1
         DEF Sent, TcpTypeOK
  <1>7. outcome = "returned" => InStream(d) = 1 .. calls[d].size
    <2>1. outcome = "returned" => bytes_sent = calls[d].size
      BY <1>1, <1>6
    <2> QED
      BY <1>6, <2>1
  <1>8. ASSUME NEW m \in 1 .. d
        PROVE  /\ \E k \in 0 .. calls'[m].size : InStream(m)' = 1 .. k
               /\ calls'[m].outcome = "returned" =>
                    InStream(m)' = 1 .. calls'[m].size
               /\ calls'[m].size > SizeLimit => InStream(m)' = {}
    <2>1. /\ \E k \in 0 .. calls[m].size : InStream(m) = 1 .. k
          /\ calls[m].outcome = "returned" =>
               InStream(m) = 1 .. calls[m].size
          /\ calls[m].size > SizeLimit => InStream(m) = {}
      BY DEF Sent
    <2>2. calls'[m].size = calls[m].size /\ InStream(m)' = InStream(m)
      BY <1>3, <1>5
    <2>3. calls'[m].outcome = "returned" =>
            InStream(m) = 1 .. calls[m].size
      BY <1>3, <1>7, <2>1
    <2> QED
      BY <2>1, <2>2, <2>3
  <1>9. ~Sending' /\ \A m \in 1 .. d - 1 : calls'[m].outcome # "sending"
    <2>1. \A m \in 1 .. d - 1 : m \in 1 .. d /\ m # d
      BY <1>2
    <2>2. \A m \in 1 .. d - 1 : calls'[m].outcome # "sending"
      BY <1>3, <2>1 DEF Sent
    <2> QED
      BY <1>3, <2>2 DEF Sending, Last
  <1>10. /\ \A j \in 1 .. Len(stream') : stream'[j][1] \in 1 .. d
         /\ \A j, k \in 1 .. Len(stream') : j < k =>
              \/ stream'[j][1] < stream'[k][1]
              \/ stream'[j][1] = stream'[k][1] /\ stream'[j][2] < stream'[k][2]
    BY <1>1 DEF Sent
  <1> QED
    BY <1>3, <1>4, <1>8, <1>9, <1>10, Zenon DEF Sent

-----------------------------------------------------------------------------
(* Both peers.                                                              *)

\* Actions of the receiver keep the sender's part.
LEMMA SentStays ==
    ASSUME Sent, UNCHANGED <<calls, bytes_sent, stream>>
    PROVE  Sent'
  <1>1. \A m : InStream(m)' = InStream(m)
    BY DEF InStream
  <1>2. Sending' <=> Sending
    BY DEF Sending, Last
  <1>. PICK d : d = Len(calls)
    OBVIOUS
  <1>3. InStream(d)' = InStream(d)
    BY <1>1
  <1>4. Len(calls') = d /\ calls' = calls /\ stream' = stream
        /\ bytes_sent' = bytes_sent
    OBVIOUS
  <1> QED
    BY <1>1, <1>2, <1>3, <1>4 DEF Sent

\* Actions of the sender keep the receiver's part: what was taken stays, and
\* peer_closed was reported by a peer that can no longer send.
LEMMA ReceivedStays ==
    ASSUME TcpTypeOK, Received, TcpTypeOK', sender = "open",
           UNCHANGED <<taken, receiver, exactly, size, destination,
                       total_received, result>>,
           \A j \in 1 .. Len(stream) : stream'[j] = stream[j]
    PROVE  Received'
  <1>1. \A i \in 1 .. total_received :
          taken - total_received + i \in 1 .. Len(stream)
    <2>1. /\ total_received \in Nat /\ taken \in Nat /\ Len(stream) \in Nat
          /\ total_received <= taken /\ taken <= Len(stream)
      BY DEF TcpTypeOK, Received
    <2> QED
      BY <2>1
  <1> QED
    BY <1>1 DEF TcpTypeOK, Received

LEMMA TcpStarts ==
    ASSUME TcpInit
    PROVE  TcpTypeOK /\ Received /\ Sent
  <1>1. TcpTypeOK
    <2>1. /\ <<>> \in Seq([size : Sizes,
                           outcome : {"sending", "returned", "threw"}])
          /\ <<>> \in Seq(Nat \X Nat) /\ Len(<<>>) = 0
      OBVIOUS
    <2>2. Room >= 0
      BY SizesAssumption, BufferAssumption, BoundsAssumption DEF TcpInit, Room
    <2>3. 0 \in 0 .. MaxErrors /\ 0 \in 0 .. 0 /\ 0 \in Nat
      BY SizesAssumption, BufferAssumption, BoundsAssumption
    <2> QED
      BY <2>1, <2>2, <2>3 DEF TcpInit, TcpTypeOK
  <1>2. Received
    BY DEF TcpInit, Received
  <1>3. Sent
    BY DEF TcpInit, Sent, Sending
  <1> QED
    BY <1>1, <1>2, <1>3

\* The actions of send_all, and the sender's close.
LEMMA SenderKeeps ==
    ASSUME TcpTypeOK, Received, Sent,
           \/ \E n \in Sizes : SendAll(n)
           \/ SendStep \/ SendThrows \/ CloseSender
    PROVE  TcpTypeOK' /\ Received' /\ Sent'
  <1>1. /\ sender = "open"
        /\ UNCHANGED <<taken, receiver, exactly, size, destination,
                       total_received, result>>
    BY DEF SendAll, SendStep, SendThrows, CloseSender, Send,
           SendReturns, SendTooLarge, SendToClosedPeer,
           BrokenPipe, EndSendAll, receiving
  <1>2. SUFFICES /\ TcpTypeOK' /\ Sent'
                 /\ \A j \in 1 .. Len(stream) : stream'[j] = stream[j]
    BY <1>1, ReceivedStays
  <1>3. CASE \E n \in Sizes : SendAll(n)
    <2>1. PICK n \in Sizes : SendAll(n)
      BY <1>3
    <2>2. stream' = stream
      BY <2>1 DEF SendAll
    <2> QED
      BY <2>1, <2>2, SendAllKeeps
  <1>4. CASE \E k \in 1 .. BufferSize : Send(k)
    BY <1>4, SendKeeps
  <1>5. ASSUME Sending, NEW outcome \in {"returned", "threw"},
               EndSendAll(outcome),
               outcome = "returned" => Remaining = 0,
               errors' \in 0 .. MaxErrors
        PROVE  /\ TcpTypeOK' /\ Sent'
               /\ \A j \in 1 .. Len(stream) : stream'[j] = stream[j]
    BY <1>5, EndSendAllKeeps DEF EndSendAll
  <1>6. errors \in 0 .. MaxErrors
    BY DEF TcpTypeOK
  <1>7. CASE SendReturns
    BY <1>5, <1>6, <1>7 DEF SendReturns
  <1>8. CASE SendTooLarge \/ SendToClosedPeer
    BY <1>5, <1>6, <1>8 DEF SendTooLarge, SendToClosedPeer, BrokenPipe
  <1>9. CASE SendThrows
    <2>1. errors' \in 0 .. MaxErrors
      BY SizesAssumption, BufferAssumption, BoundsAssumption, <1>6, <1>9
         DEF SendThrows
    <2> QED
      BY <1>5, <1>9, <2>1 DEF SendThrows
  <1>10. CASE CloseSender
    <2>1. /\ sender' = "closed"
          /\ UNCHANGED <<calls, bytes_sent, stream, taken, errors>>
      BY <1>10 DEF CloseSender
    <2>2. TcpTypeOK'
      BY <1>1, <2>1 DEF TcpTypeOK, Room
    <2> QED
      BY <2>1, <2>2, SentStays
  <1> QED
    BY <1>3, <1>4, <1>7, <1>8, <1>9, <1>10 DEF SendStep

\* The actions of the two receives, and the receiver's close.
LEMMA ReceiverKeeps ==
    ASSUME TcpTypeOK, Received, Sent,
           \/ \E n \in Sizes, all \in BOOLEAN : Receive(n, all)
           \/ ReceiveStep \/ ReceiveThrows \/ CloseReceiver
    PROVE  TcpTypeOK' /\ Received' /\ Sent'
  <1>1. UNCHANGED <<calls, bytes_sent, stream>>
    BY DEF Receive, ReceiveStep, ReceiveThrows, CloseReceiver,
           ReceiveSome, Completed, ReceiveTooLarge, PeerClosed,
           EndReceive, sending
  <1>2. Sent'
    BY <1>1, SentStays
  <1>3. TcpTypeOK' /\ Received'
    BY ReceiveKeeps, ReceiveSomeKeeps, ReceiveEnds DEF ReceiveStep
  <1> QED
    BY <1>2, <1>3

\* The inductive invariant of TcpStream holds in every reachable state: what a
\* call has sent so far is in the stream, what it has received is in its
\* destination.
THEOREM TcpInvariant == TcpSpec => []TcpIInv
  <1> DEFINE I == TcpTypeOK /\ Received /\ Sent
  <1>1. TcpInit => I
    BY TcpStarts
  <1>2. I /\ [TcpNext]_tcpVars => I'
    <2> SUFFICES ASSUME I, [TcpNext]_tcpVars PROVE I'
      OBVIOUS
    <2>1. CASE UNCHANGED tcpVars
      <3>1. UNCHANGED <<sender, calls, bytes_sent, stream, taken, receiver,
                        exactly, size, destination, total_received, result,
                        errors>>
        BY <2>1 DEF tcpVars, sending, receiving
      <3>2. Sent'
        BY <3>1, SentStays
      <3>3. TcpTypeOK' /\ Received'
        BY <3>1 DEF TcpTypeOK, Room, Received
      <3> QED
        BY <3>2, <3>3
    <2>2. CASE TcpNext
      <3>1. Finished => UNCHANGED tcpVars
        BY DEF Finished
      <3> QED
        BY <2>1, <2>2, <3>1, SenderKeeps, ReceiverKeeps, Zenon DEF TcpNext
    <2> QED
      BY <2>1, <2>2
  <1>3. I => TcpIInv
    BY ReceivedPlaces, SentParts DEF TcpIInv
  <1> QED
    BY <1>1, <1>2, <1>3, PTL DEF TcpSpec

\* What has arrived or is on its way is what the calls of send_all were given,
\* call by call and of each call a prefix, whatever the system takes at a time
\* and whichever calls fail.
THEOREM StreamStaysIntact == TcpSpec => []StreamIntact
  <1>1. TcpIInv => StreamIntact
    BY DEF TcpIInv
  <1> QED
    BY <1>1, TcpInvariant, PTL

\* A receive_exactly that returns has filled its destination with the next
\* bytes of the stream; peer_closed is reported only behind the last byte.
THEOREM ReceivesExactly == TcpSpec => []ReceivedExactly
  <1>1. TcpIInv => ReceivedExactly
    BY DEF TcpIInv
  <1> QED
    BY <1>1, TcpInvariant, PTL
=============================================================================
