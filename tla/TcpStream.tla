----------------------------- MODULE TcpStream -----------------------------
(***************************************************************************)
(* One direction of a connected obz::transport::tcp_socket: one peer calls  *)
(* send_all, the other receive_some and receive_exactly, each from its own  *)
(* thread.  A step is one ::send or ::recv, which may transfer a part, block *)
(* or fail; a failure is an exception after which the caller goes on with   *)
(* another call or closes.  A byte is known by its call of send_all and its *)
(* place in the data of that call.  The connection is not reset: a peer     *)
(* that closes has read what was sent to it in the other direction.        *)
(***************************************************************************)
EXTENDS Naturals, Sequences, SequencesExt

CONSTANTS
    Sizes,        \* sizes of the spans the callers pass
    SizeLimit,    \* checked_socket_size: INT_MAX (Winsock); POSIX has no limit
    BufferSize,   \* bytes the system holds between the peers
    MaxCalls,     \* bound: calls of send_all
    MaxErrors     \* bound: transfers that fail though the connection is up

ASSUME SizesAssumption == Sizes \subseteq Nat /\ SizeLimit \in Nat
ASSUME BufferAssumption == BufferSize \in Nat \ {0}
ASSUME BoundsAssumption == MaxCalls \in Nat /\ MaxErrors \in Nat

VARIABLES
    sender,        \* "open", "closed" or "killed" (by SIGPIPE)
    calls,         \* calls of send_all: size of the data, outcome
    bytes_sent,    \* local of send_all
    stream, taken, \* bytes the system accepted; how many it has delivered
    receiver,      \* "open", "receiving" or "closed"
    exactly,       \* receive_exactly, not receive_some
    size, destination, total_received,   \* the destination, local of the call
    result,        \* of the last receive
    errors         \* failures so far

sending == <<sender, calls, bytes_sent>>
receiving == <<receiver, exactly, size, destination, total_received, result>>
tcpVars == <<sending, stream, taken, receiving, errors>>

Unwritten == <<0, 0>>
Sending == calls # <<>> /\ Last(calls).outcome = "sending"
Room == BufferSize - (Len(stream) - taken)

TcpInit ==
    /\ sender = "open" /\ calls = <<>> /\ bytes_sent = 0
    /\ stream = <<>> /\ taken = 0
    /\ receiver = "open" /\ exactly = FALSE
    /\ size = 0 /\ destination = <<>> /\ total_received = 0
    /\ result = "none" /\ errors = 0

-----------------------------------------------------------------------------
(* send_all, a loop of send. *)

SendAll(n) ==
    /\ sender = "open" /\ ~Sending /\ Len(calls) < MaxCalls
    /\ calls' = Append(calls, [size |-> n, outcome |-> "sending"])
    /\ bytes_sent' = 0
    /\ UNCHANGED <<sender, stream, taken, receiving, errors>>

Remaining == Last(calls).size - bytes_sent

\* Faulty: every iteration passes the data from their beginning.
WholeData(k) == [i \in 1 .. k |-> <<Len(calls), i>>]

\* The first k bytes of data.subspan(bytes_sent).
Subspan(k) == [i \in 1 .. k |-> <<Len(calls), bytes_sent + i>>]

\* send_tcp: the system takes as much as it has room for, at least one byte.
Send(k) ==
    /\ Sending /\ sender = "open"
    /\ Remaining <= SizeLimit /\ k <= Remaining /\ k <= Room
    /\ stream' = stream \o Subspan(k)
    /\ bytes_sent' = bytes_sent + k
    /\ UNCHANGED <<sender, calls, taken, receiving, errors>>

EndSendAll(outcome) ==
    /\ calls' = [calls EXCEPT ![Len(calls)].outcome = outcome]
    /\ UNCHANGED <<sender, bytes_sent, stream, taken, receiving>>

SendReturns ==
    /\ Sending /\ sender = "open" /\ Remaining = 0
    /\ EndSendAll("returned") /\ UNCHANGED errors

\* checked_socket_size rejects the span.
SendTooLarge ==
    /\ Sending /\ sender = "open" /\ Remaining > SizeLimit
    /\ EndSendAll("threw") /\ UNCHANGED errors

\* ::send fails, is interrupted by a signal or takes nothing.
SendThrows ==
    /\ Sending /\ sender = "open" /\ Remaining \in 1 .. SizeLimit
    /\ EndSendAll("threw")
    /\ errors < MaxErrors /\ errors' = errors + 1

\* Faulty: without MSG_NOSIGNAL and SO_NOSIGPIPE a signal ends the process.
Kill ==
    /\ sender' = "killed"
    /\ UNCHANGED <<calls, bytes_sent, stream, taken, receiving, errors>>

\* The system knows that the peer has closed; it may take a few bytes before.
BrokenPipe == EndSendAll("threw") /\ UNCHANGED errors

SendToClosedPeer ==
    /\ Sending /\ sender = "open" /\ receiver = "closed"
    /\ Remaining \in 1 .. SizeLimit
    /\ BrokenPipe

\* What is on its way still arrives.
CloseSender ==
    /\ sender = "open" /\ ~Sending
    /\ sender' = "closed"
    /\ UNCHANGED <<calls, bytes_sent, stream, taken, receiving, errors>>

-----------------------------------------------------------------------------
(* receive_some and receive_exactly, a loop of receive_some. *)

\* An empty destination is refused before anything happens.
Receive(n, all) ==
    /\ receiver = "open" /\ n > 0
    /\ receiver' = "receiving" /\ exactly' = all
    /\ size' = n /\ destination' = [i \in 1 .. n |-> Unwritten]
    /\ total_received' = 0 /\ result' = "none"
    /\ UNCHANGED <<sending, stream, taken, errors>>

\* Faulty: every iteration passes the whole destination.
Beginning == 0

\* destination.subspan(total_received)
Offset == total_received

\* The number of bytes a receive is done with.
Wanted == IF exactly THEN size ELSE 1

\* receive_tcp: the system delivers some of what has arrived.
ReceiveSome(k) ==
    /\ receiver = "receiving" /\ total_received < Wanted
    /\ size - total_received <= SizeLimit
    /\ k <= size - total_received /\ k <= Len(stream) - taken
    /\ destination' =
         [i \in 1 .. size |-> IF i - Offset \in 1 .. k
                                THEN stream[taken + i - Offset]
                                ELSE destination[i]]
    /\ taken' = taken + k
    /\ total_received' = total_received + k
    /\ UNCHANGED <<sending, stream, receiver, exactly, size, result, errors>>

EndReceive(r) ==
    /\ receiver' = "open" /\ result' = r
    /\ UNCHANGED <<sending, stream, taken, exactly, size, destination,
                   total_received>>

Completed ==
    /\ receiver = "receiving" /\ total_received >= Wanted
    /\ EndReceive("completed") /\ UNCHANGED errors

\* ::recv returns zero.
PeerClosed ==
    /\ receiver = "receiving" /\ total_received < Wanted
    /\ size - total_received <= SizeLimit
    /\ sender # "open" /\ taken = Len(stream)
    /\ EndReceive("peer_closed") /\ UNCHANGED errors

ReceiveTooLarge ==
    /\ receiver = "receiving" /\ size - total_received > SizeLimit
    /\ EndReceive("none") /\ UNCHANGED errors

\* ::recv fails or is interrupted.  The caller does not learn how many bytes
\* have arrived already.
ReceiveThrows ==
    /\ receiver = "receiving" /\ total_received < Wanted
    /\ size - total_received <= SizeLimit
    /\ EndReceive("none")
    /\ errors < MaxErrors /\ errors' = errors + 1

CloseReceiver ==
    /\ receiver = "open" /\ receiver' = "closed"
    /\ UNCHANGED <<sending, stream, taken, exactly, size, destination,
                   total_received, result, errors>>

-----------------------------------------------------------------------------

SendStep ==
    \/ \E k \in 1 .. BufferSize : Send(k)
    \/ SendReturns \/ SendTooLarge \/ SendToClosedPeer

ReceiveStep ==
    \/ \E k \in 1 .. BufferSize : ReceiveSome(k)
    \/ Completed \/ ReceiveTooLarge \/ PeerClosed

Finished == sender = "closed" /\ receiver = "closed" /\ UNCHANGED tcpVars

TcpNext ==
    \/ \E n \in Sizes : SendAll(n)
    \/ SendStep \/ SendThrows \/ CloseSender
    \/ \E n \in Sizes, all \in BOOLEAN : Receive(n, all)
    \/ ReceiveStep \/ ReceiveThrows \/ CloseReceiver
    \/ Finished

TcpSpec == TcpInit /\ [][TcpNext]_tcpVars

\* The system goes on transferring while it can; the sender closes in the end
\* (its destructor does); the receiver calls again, with a destination the
\* system accepts, until it closes.
FairTcpSpec ==
    /\ TcpSpec
    /\ WF_tcpVars(SendStep) /\ WF_tcpVars(CloseSender)
    /\ WF_tcpVars(ReceiveStep)
    /\ SF_tcpVars(\E n \in Sizes : n <= SizeLimit /\ Receive(n, TRUE))

-----------------------------------------------------------------------------
(* What the two loops guarantee. *)

\* Which bytes of the data of the m-th call are in the stream.
InStream(m) == {stream[j][2] : j \in {l \in DOMAIN stream : stream[l][1] = m}}

TcpTypeOK ==
    /\ sender \in {"open", "closed", "killed"}
    /\ calls \in Seq([size : Sizes, outcome : {"sending", "returned", "threw"}])
    /\ bytes_sent \in Nat /\ taken \in 0 .. Len(stream)
    /\ receiver \in {"open", "receiving", "closed"} /\ exactly \in BOOLEAN
    /\ stream \in Seq(Nat \X Nat) /\ destination \in Seq(Nat \X Nat)
    /\ size \in Sizes \cup {0} /\ Len(destination) = size
    /\ total_received \in Nat
    /\ result \in {"none", "completed", "peer_closed"}
    /\ errors \in 0 .. MaxErrors /\ Room >= 0

\* The stream is the data of the calls one after the other, in order and each
\* byte once, and of each call a prefix: all of it if send_all returned, an
\* unknown part if it threw; and a span that is too large for the system is
\* refused before any part is sent.
StreamIntact ==
    /\ TcpTypeOK
    /\ \A j \in DOMAIN stream : stream[j][1] \in 1 .. Len(calls)
    /\ \A j, k \in DOMAIN stream : j < k =>
         \/ stream[j][1] < stream[k][1]
         \/ stream[j][1] = stream[k][1] /\ stream[j][2] < stream[k][2]
    /\ \A m \in 1 .. Len(calls) :
         /\ \E k \in 0 .. calls[m].size : InStream(m) = 1 .. k
         /\ calls[m].outcome = "returned" => InStream(m) = 1 .. calls[m].size
         /\ calls[m].size > SizeLimit => InStream(m) = {}

\* A completed receive_exactly has filled its whole destination with the next
\* bytes of the stream, a completed receive_some a part of it; peer_closed is
\* reported only after everything that was sent, with the number of bytes that
\* are in the destination.
ReceivedExactly ==
    /\ total_received <= size
    /\ [i \in 1 .. total_received |-> destination[i]]
         = SubSeq(stream, taken - total_received + 1, taken)
    /\ result = "completed" =>
         IF exactly THEN total_received = size ELSE total_received > 0
    /\ result = "peer_closed" =>
         /\ sender # "open" /\ taken = Len(stream)
         /\ total_received < size

\* Every call ends, whatever size the data and the buffer of the system have
\* and whenever the other side closes; and a receiver learns of the end.
CallsEnd ==
    /\ Sending ~> ~Sending
    /\ receiver = "receiving" ~> receiver # "receiving"
    /\ sender = "closed" ~> receiver = "closed" \/ result = "peer_closed"

-----------------------------------------------------------------------------
(* The inductive invariant.                                                 *)

\* The call of send_all in progress is the last one, and bytes_sent bytes of
\* its data are in the stream.
SendingOK ==
    /\ \A m \in 1 .. Len(calls) - 1 : calls[m].outcome # "sending"
    /\ Sending => /\ bytes_sent \in 0 .. Last(calls).size
                  /\ InStream(Len(calls)) = 1 .. bytes_sent

\* What the receive in progress has taken came from the end of what was taken.
ReceivingOK ==
    /\ total_received <= taken
    /\ receiver = "receiving" => result = "none" /\ size > 0

TcpIInv == StreamIntact /\ ReceivedExactly /\ SendingOK /\ ReceivingOK
=============================================================================
