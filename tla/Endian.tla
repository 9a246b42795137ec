------------------------------- MODULE Endian -------------------------------
(***************************************************************************)
(* obz::endian: an integer of Width bytes is written to and read from a     *)
(* buffer in either byte order.  A step is one iteration of a loop.  A      *)
(* signed integer stands for the unsigned one it is converted to and from.  *)
(***************************************************************************)
EXTENDS Naturals

CONSTANTS
    Width,   \* sizeof(T)
    Size,    \* size of the buffer
    Byte,    \* number of values of a byte, 256
    Power    \* Power[k] is Byte^k: a shift by 8 * k bits divides by it

\* What the constants stand for.
Machine ==
    /\ Width \in Nat \ {0} /\ Size \in Nat /\ Byte \in Nat \ {0, 1}
    /\ Power \in [0 .. Width -> Nat \ {0}] /\ Power[0] = 1
    /\ \A k \in 0 .. Width - 1 : Power[k + 1] = Byte * Power[k]

VARIABLES
    buffer,      \* the bytes of the span
    call,        \* "idle", or the call in progress: "write" or "read"
    order,       \* "le" or "be"
    offset, i,   \* its argument, its loop variable
    current,     \* local of the write functions
    result,      \* local of the read functions
    written      \* history: arguments of the last write

vars == <<buffer, call, order, offset, i, current, result, written>>

Value == 0 .. Power[Width] - 1
Bytes == 0 .. Byte - 1
Orders == {"le", "be"}

\* require_range, whose subtraction does not wrap behind the first test.
OutOfRange(at) == at > Size \/ Size - at < Width

Init ==
    /\ buffer \in [0 .. Size - 1 -> Bytes]
    /\ call = "idle" /\ order \in Orders /\ offset = 0 /\ i = 0
    /\ current = 0 /\ result = 0
    /\ written = [order |-> "none", offset |-> 0, value |-> 0]

\* A call that is out of range throws and changes nothing.
Start(name, o, at) ==
    /\ call = "idle" /\ ~OutOfRange(at)
    /\ call' = name /\ order' = o /\ offset' = at /\ i' = 0

StartWrite(o, at, v) ==
    /\ Start("write", o, at)
    /\ current' = v
    /\ written' = [order |-> o, offset |-> at, value |-> v]
    /\ UNCHANGED <<buffer, result>>

StartRead(o, at) ==
    /\ Start("read", o, at)
    /\ result' = 0
    /\ UNCHANGED <<buffer, current, written>>

Iterate(name, o) == call = name /\ order = o /\ i < Width /\ i' = i + 1

WriteLe ==
    /\ Iterate("write", "le")
    /\ buffer' = [buffer EXCEPT ![offset + i] = current % Byte]
    /\ current' = current \div Byte
    /\ UNCHANGED <<call, order, offset, result, written>>

WriteBe ==
    /\ Iterate("write", "be")
    /\ buffer' = [buffer EXCEPT ![offset + i] =
                    (current \div Power[Width - 1 - i]) % Byte]
    /\ UNCHANGED <<call, order, offset, current, result, written>>

\* The bits that |= sets are still clear: ReadLe adds at Power[i], to which
\* `result` has not come yet, and ReadBe adds behind a shift.
ReadLe ==
    /\ Iterate("read", "le")
    /\ result' = result + buffer[offset + i] * Power[i]
    /\ UNCHANGED <<buffer, call, order, offset, current, written>>

ReadBe ==
    /\ Iterate("read", "be")
    /\ result' = ((result * Byte) % Power[Width]) + buffer[offset + i]
    /\ UNCHANGED <<buffer, call, order, offset, current, written>>

Return ==
    /\ call # "idle" /\ i = Width
    /\ call' = "idle"
    /\ UNCHANGED <<buffer, order, offset, i, current, result, written>>

Next ==
    \/ \E o \in Orders, at \in Nat :
         StartRead(o, at) \/ \E v \in Value : StartWrite(o, at, v)
    \/ WriteLe \/ WriteBe \/ ReadLe \/ ReadBe \/ Return

Spec == Init /\ [][Next]_vars

-----------------------------------------------------------------------------
(* The reference: byte order by place value. *)

\* The k-th digit of v, counted from the least significant one.
Digit(v, k) == (v \div Power[k]) % Byte

\* The digit that belongs into the k-th byte.
Expected(o, v, k) == Digit(v, IF o = "le" THEN k ELSE Width - 1 - k)

\* The bytes from `at` on are the digits of v.
Encodes(o, at, v) ==
    \A k \in 0 .. Width - 1 : buffer[at + k] = Expected(o, v, k)

\* write_le and write_be store the digits of their argument.
WriteEncodes ==
    call = "write" /\ i = Width =>
        Encodes(written.order, written.offset, written.value)

\* read_le and read_be return the number whose digits they find, whoever has
\* stored them.
ReadDecodes ==
    call = "read" /\ i = Width =>
        \A v \in Value : Encodes(order, offset, v) => result = v

\* What was written last is read back in the same byte order.
RoundTrip ==
    /\ call = "read" /\ i = Width
    /\ order = written.order /\ offset = written.offset
    => result = written.value

\* A write changes only its own Width bytes, and no access is outside the
\* buffer.
StaysInRange ==
    [][/\ call # "idle" => offset + Width <= Size
       /\ \A b \in 0 .. Size - 1 :
            buffer'[b] # buffer[b] =>
                call = "write" /\ b \in offset .. offset + Width - 1]_vars

-----------------------------------------------------------------------------
(* The inductive invariant. *)

TypeOK ==
    /\ buffer \in [0 .. Size - 1 -> Bytes]
    /\ call \in {"idle", "write", "read"} /\ order \in Orders
    /\ offset \in Nat /\ i \in 0 .. Width
    /\ current \in Nat /\ result \in Nat
    /\ written \in [order : Orders \cup {"none"}, offset : Nat, value : Value]

\* In the i-th iteration i bytes are done.
Writing ==
    call = "write" =>
        /\ written.order = order /\ written.offset = offset
        /\ current = IF order = "le" THEN written.value \div Power[i]
                                     ELSE written.value
        /\ \A k \in 0 .. i - 1 :
             buffer[offset + k] = Expected(order, written.value, k)

Reading ==
    call = "read" =>
        \A v \in Value : Encodes(order, offset, v) =>
            result = IF order = "le" THEN v % Power[i]
                                     ELSE v \div Power[Width - i]

Kept ==
    call # "write" /\ written.order # "none" =>
        Encodes(written.order, written.offset, written.value)

IInv ==
    /\ TypeOK /\ Writing /\ Reading /\ Kept
    /\ call # "idle" => offset + Width <= Size
    /\ written.order # "none" => written.offset + Width <= Size
=============================================================================
