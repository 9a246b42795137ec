-------------------------- MODULE Sequential_proofs --------------------------
(***************************************************************************)
(* Proofs about the components that one thread uses at a time: the byte     *)
(* order functions, obz::ring_buffer, obz::emotional_state and              *)
(* obz::weighted_set.                                                       *)
(*                                                                          *)
(* Endian: for every width, buffer and value, written bytes are the digits  *)
(* of the value, reading finds the number that the digits stand for, and so *)
(* a value survives the round trip.  RingBuffer: LifetimesMatch is itself   *)
(* inductive, because positions less than Capacity apart have cells of their *)
(* own.  EmotionalState: rounding is division with a remainder, and the     *)
(* innermost call in progress determines what the mood callback is told.    *)
(* WeightedSet: TotalIsSumAndDrift is itself inductive, because a total and  *)
(* its sum of weights stay the same distance apart modulo the number range; *)
(* by induction, the sum in the loop of random() is the number of tickets   *)
(* of the values it has passed.                                             *)
(***************************************************************************)
EXTENDS Endian, RingBuffer, EmotionalState, WeightedSet, SharedLemmas

-----------------------------------------------------------------------------
(* obz::endian.  Digits. *)

\* One digit more: v cut off after the place P and after the place B * P.
LEMMA NextDigit ==
    ASSUME NEW P \in Nat \ {0}, NEW B \in Nat \ {0}, NEW v \in Nat
    PROVE  /\ (v \div P) \div B = v \div (B * P)
           /\ v % (B * P) = (v % P) + ((v \div P) % B) * P
           /\ v \div P = B * (v \div (B * P)) + ((v \div P) % B)
  <1> DEFINE q == v \div P
             r == v % P
             s == q \div B
             t == q % B
             C == B * P
             low == r + t * P
  <1>1. q \in Nat /\ r \in 0 .. P - 1 /\ v = P * q + r
    BY DivMod
  <1>2. s \in Nat /\ t \in 0 .. B - 1 /\ q = B * s + t
    BY <1>1, DivMod
  <1> HIDE DEF q, r, s, t
  <1>3. C \in Nat \ {0}
    BY SMT
  <1>4. v = C * s + low
    <2>1. P * (B * s + t) = (B * P) * s + t * P
      BY <1>2, SMT
    <2>2. P * q \in Nat /\ C * s \in Nat /\ t * P \in Nat
      BY <1>1, <1>2, <1>3, SMT
    <2> HIDE DEF C
    <2> QED
      BY <1>1, <1>2, <2>1, <2>2, SMT DEF C
  <1>5. low \in 0 .. C - 1
    <2>1. t * P + P <= B * P
      <3>1. P * t + P <= P * B
        BY <1>2, MultiplesApart
      <3> QED
        BY <1>2, <3>1, SMT
    <2>2. t * P \in Nat
      BY <1>2, SMT
    <2> QED
      BY <1>1, <1>3, <2>1, <2>2, SMT
  <1> HIDE DEF C, low
  <1>6. v \div C = s /\ v % C = low
    BY <1>2, <1>3, <1>4, <1>5, DivModUnique
  <1> QED
    BY <1>2, <1>6 DEF C, low, s, t, q, r

\* DivMod in the form in which larger steps use it.
LEMMA DivModNat ==
    ASSUME NEW C \in Nat \ {0}, NEW a \in Nat
    PROVE  /\ a \div C \in Nat /\ a % C \in Nat
           /\ a = C * (a \div C) + (a % C)
           /\ a \div C <= a
  <1> DEFINE q == a \div C
             r == a % C
  <1>1. q \in Nat /\ r \in 0 .. C - 1 /\ a = C * q + r
    BY DivMod
  <1> HIDE DEF q, r
  <1>2. C * q \in Nat /\ (C - 1) * q >= 0 /\ (C - 1) * q = C * q - q
    BY <1>1, SMT
  <1>3. q \in Nat /\ r \in Nat /\ q <= a
    BY <1>1, <1>2, SMT
  <1> QED
    BY <1>1, <1>3 DEF q, r

\* What NextDigit says of the powers.
LEMMA NextPower ==
    ASSUME Machine, NEW v \in Nat, NEW k \in 0 .. Width - 1
    PROVE  /\ (v \div Power[k]) \div Byte = v \div Power[k + 1]
           /\ v % Power[k + 1] = (v % Power[k]) + Digit(v, k) * Power[k]
           /\ v \div Power[k] = Byte * (v \div Power[k + 1]) + Digit(v, k)
  <1> DEFINE P == Power[k]
  <1>1. P \in Nat \ {0} /\ Byte \in Nat \ {0} /\ Power[k + 1] = Byte * P
    BY DEF Machine
  <1> HIDE DEF P
  <1>2. /\ (v \div P) \div Byte = v \div (Byte * P)
        /\ v % (Byte * P) = (v % P) + ((v \div P) % Byte) * P
        /\ v \div P = Byte * (v \div (Byte * P)) + ((v \div P) % Byte)
    BY <1>1, NextDigit
  <1> QED
    BY <1>1, <1>2, Zenon DEF P, Digit

\* The ends of the table: everything, and nothing, is cut off.
LEMMA EndPowers ==
    ASSUME Machine, NEW v \in Value
    PROVE  /\ v \in Nat
           /\ v \div Power[0] = v /\ v % Power[0] = 0
           /\ v \div Power[Width] = 0 /\ v % Power[Width] = v
  <1>1. Power[0] = 1 /\ Power[Width] \in Nat \ {0} /\ v \in Nat
    BY DEF Machine, Value
  <1>2. v = 1 * v + 0 /\ 0 \in 0 .. 1 - 1 /\ 1 \in Nat \ {0}
    BY <1>1, SMT
  <1>3. v \div 1 = v /\ v % 1 = 0
    BY <1>1, <1>2, DivModUnique
  <1>4. v \in 0 .. Power[Width] - 1 /\ v = Power[Width] * 0 + v
    BY <1>1, SMT DEF Value
  <1>5. v \div Power[Width] = 0 /\ v % Power[Width] = v
    BY <1>1, <1>4, DivModUnique
  <1> QED
    BY <1>1, <1>3, <1>5

\* A digit is a byte.
LEMMA DigitIsByte ==
    ASSUME Machine, NEW v \in Nat, NEW k \in 0 .. Width - 1
    PROVE  Digit(v, k) \in Bytes
  <1>1. Power[k] \in Nat \ {0} /\ Byte \in Nat \ {0}
    BY DEF Machine
  <1>2. v \div Power[k] \in Nat
    BY <1>1, DivMod
  <1> QED
    BY <1>1, <1>2, DivMod DEF Digit, Bytes

-----------------------------------------------------------------------------
(* The invariant holds initially, and each action preserves it. *)

LEMMA InitIInv == Machine /\ Init => IInv
  <1> SUFFICES ASSUME Machine, Init PROVE IInv
    OBVIOUS
  <1>1. 0 \in Value
    BY DEF Machine, Value
  <1> QED
    BY <1>1 DEF Init, IInv, TypeOK, Writing, Reading, Kept, Machine

\* require_range admits exactly the offsets at which Width bytes fit.
LEMMA RangeIsExact ==
    ASSUME Machine, NEW at \in Nat
    PROVE  ~OutOfRange(at) <=> at + Width <= Size
  BY DEF Machine, OutOfRange

LEMMA StartWriteKeepsIInv ==
    ASSUME Machine, IInv, NEW o \in Orders, NEW at \in Nat, NEW v \in Value,
           StartWrite(o, at, v)
    PROVE  IInv'
  <1> USE DEF StartWrite, Start
  <1>1. at + Width <= Size
    BY RangeIsExact
  <1>2. v \in Nat /\ v \div Power[0] = v
    BY EndPowers
  <1>3. TypeOK'
    BY <1>2 DEF IInv, TypeOK, Machine
  <1>4. Writing'
    BY <1>2 DEF Writing
  <1> QED
    BY <1>1, <1>3, <1>4 DEF IInv, Reading, Kept

LEMMA StartReadKeepsIInv ==
    ASSUME Machine, IInv, NEW o \in Orders, NEW at \in Nat, StartRead(o, at)
    PROVE  IInv'
  <1> USE DEF StartRead, Start
  <1>1. at + Width <= Size
    BY RangeIsExact
  <1>2. TypeOK'
    BY DEF IInv, TypeOK, Machine
  <1>3. Reading'
    BY EndPowers DEF Reading, Machine
  <1>4. Kept'
    BY DEF IInv, Kept, Encodes
  <1> QED
    BY <1>1, <1>2, <1>3, <1>4 DEF IInv, Writing

LEMMA WriteKeepsIInv ==
    ASSUME Machine, IInv, WriteLe \/ WriteBe
    PROVE  IInv'
  <1> DEFINE v == written.value
             b == offset + i
  <1>1. /\ call = "write" /\ i \in 0 .. Width - 1 /\ i' = i + 1
        /\ UNCHANGED <<call, order, offset, result, written>>
    BY DEF WriteLe, WriteBe, Iterate, IInv, TypeOK, Machine
  <1>2. /\ v \in Value /\ v \in Nat
        /\ written.order = order /\ written.offset = offset
        /\ offset \in Nat /\ offset + Width <= Size /\ b \in 0 .. Size - 1
    BY <1>1 DEF IInv, TypeOK, Writing, Value, Machine
  <1>3. buffer' = [buffer EXCEPT ![b] = Expected(order, v, i)]
    BY <1>1, <1>2 DEF WriteLe, WriteBe, Iterate, IInv, Writing, Expected, Digit
  <1>4. /\ current' = IF order = "le" THEN v \div Power[i + 1] ELSE v
        /\ current' \in Nat
    <2>1. CASE WriteLe
      <3>1. current' = v \div Power[i + 1]
        BY <1>1, <1>2, <2>1, NextPower DEF WriteLe, Iterate, IInv, Writing
      <3>2. Power[i + 1] \in Nat \ {0}
        BY <1>1 DEF Machine
      <3> QED
        BY <1>2, <2>1, <3>1, <3>2, DivMod DEF WriteLe, Iterate
    <2>2. CASE WriteBe
      BY <1>1, <1>2, <2>2 DEF WriteBe, Iterate, IInv, Writing
    <2> QED
      BY <2>1, <2>2
  <1>5. Expected(order, v, i) \in Bytes
    BY <1>1, <1>2, DigitIsByte DEF Expected, Machine
  <1>6. TypeOK'
    BY <1>1, <1>3, <1>4, <1>5 DEF IInv, TypeOK, Machine
  <1>7. Writing'
    <2>1. \A k \in 0 .. i : buffer'[offset + k] = Expected(order, v, k)
      <3> TAKE k \in 0 .. i
      <3>1. CASE k = i
        BY <1>2, <1>3, <3>1 DEF IInv, TypeOK
      <3>2. CASE k # i
        <4>1. k \in 0 .. i - 1 /\ offset + k # b /\ offset + k \in 0 .. Size - 1
          BY <1>1, <1>2, <3>2, SMT DEF Machine
        <4> QED
          BY <1>1, <1>3, <4>1 DEF IInv, TypeOK, Writing
      <3> QED
        BY <3>1, <3>2
    <2>2. (i + 1) - 1 = i
      BY <1>1
    <2> QED
      BY <1>1, <1>2, <1>4, <2>1, <2>2 DEF Writing, Expected, Digit
  <1> QED
    BY <1>1, <1>6, <1>7 DEF IInv, Reading, Kept

LEMMA ReadKeepsIInv ==
    ASSUME Machine, IInv, ReadLe \/ ReadBe
    PROVE  IInv'
  <1>1. /\ call = "read" /\ i \in 0 .. Width - 1 /\ i' = i + 1
        /\ UNCHANGED <<buffer, call, order, offset, current, written>>
    BY DEF ReadLe, ReadBe, Iterate, IInv, TypeOK, Machine
  <1>2. buffer[offset + i] \in Nat /\ result \in Nat /\ result' \in Nat
    <2>1. buffer[offset + i] \in Nat /\ result \in Nat
      BY <1>1 DEF IInv, TypeOK, Bytes, Machine
    <2>2. Power[i] \in Nat /\ Power[Width] \in Nat \ {0} /\ Byte \in Nat
      BY <1>1 DEF Machine
    <2>3. CASE ReadLe
      BY <2>1, <2>2, <2>3 DEF ReadLe
    <2>4. CASE ReadBe
      <3>1. result * Byte \in Nat
        BY <2>1, <2>2
      <3>2. (result * Byte) % Power[Width] \in Nat
        BY <2>2, <3>1, DivModNat
      <3> QED
        BY <2>1, <2>4, <3>2 DEF ReadBe
    <2> QED
      BY <2>1, <2>3, <2>4
  <1>3. TypeOK'
    BY <1>1, <1>2 DEF IInv, TypeOK, Machine
  <1>4. Reading'
    <2> SUFFICES ASSUME NEW v \in Value, Encodes(order, offset, v)
                 PROVE  result' = IF order = "le" THEN v % Power[i + 1]
                                                  ELSE v \div Power[Width - (i + 1)]
      BY <1>1 DEF Reading, Encodes, Expected, Digit
    <2>1. v \in Nat /\ buffer[offset + i] = Expected(order, v, i)
      BY <1>1, EndPowers DEF Encodes
    <2>2. result = IF order = "le" THEN v % Power[i] ELSE v \div Power[Width - i]
      BY <1>1 DEF IInv, Reading
    <2>3. CASE ReadLe
      BY <1>1, <2>1, <2>2, <2>3, NextPower DEF ReadLe, Iterate, Expected
    <2>4. CASE ReadBe
      <3> DEFINE k == Width - 1 - i
      <3>1. k \in 0 .. Width - 1 /\ k + 1 = Width - i /\ k = Width - (i + 1)
        BY <1>1 DEF Machine
      <3>2. v \div Power[k] = Byte * result + Digit(v, k)
        BY <2>1, <2>2, <2>4, <3>1, NextPower DEF ReadBe, Iterate
      <3>3. Digit(v, k) \in Nat
        <4> HIDE DEF k
        <4>1. Digit(v, k) \in Bytes
          BY <2>1, <3>1, DigitIsByte
        <4> QED
          BY <4>1 DEF Bytes, Machine
      <3>4. v \div Power[k] \in Nat /\ v \div Power[k] <= v
        <4>1. Power[k] \in Nat \ {0}
          BY <3>1 DEF Machine
        <4> QED
          BY <2>1, <4>1, DivModNat
      <3>5. result * Byte \in Value /\ result * Byte = Byte * result
        <4>1. result * Byte \in Nat /\ result * Byte = Byte * result
          BY <1>2 DEF Machine
        <4>2. result * Byte <= v /\ v <= Power[Width] - 1
          <5> HIDE DEF k
          <5> DEFINE q == v \div Power[k]
                     d == Digit(v, k)
                     m == Byte * result
          <5>1. q = m + d /\ d \in Nat /\ m \in Nat /\ q \in Nat /\ q <= v
            BY <3>2, <3>3, <3>4, <4>1
          <5> HIDE DEF q, d, m
          <5>2. m <= v
            BY <2>1, <5>1
          <5> QED
            BY <4>1, <5>2 DEF m, Value, Machine
        <4> QED
          BY <4>1, <4>2 DEF Value, Machine
      <3>6. (result * Byte) % Power[Width] = Byte * result
        BY <3>5, EndPowers
      <3>7. buffer[offset + i] = Digit(v, k)
        BY <2>1, <2>4 DEF ReadBe, Iterate, Expected
      <3>8. result' = v \div Power[k]
        BY <2>4, <3>2, <3>6, <3>7 DEF ReadBe
      <3> QED
        BY <2>4, <3>1, <3>8 DEF ReadBe, Iterate
    <2> QED
      BY <2>3, <2>4
  <1>5. Kept'
    BY <1>1 DEF IInv, Kept, Encodes, Expected, Digit
  <1> QED
    BY <1>1, <1>3, <1>4, <1>5 DEF IInv, Writing

LEMMA ReturnKeepsIInv ==
    ASSUME Machine, IInv, Return
    PROVE  IInv'
  <1>1. TypeOK'
    BY DEF Return, IInv, TypeOK
  <1>2. Kept'
    <2>1. CASE call = "write"
      BY <2>1 DEF Return, IInv, Writing, Kept, Encodes, Expected, Digit
    <2>2. CASE call # "write"
      BY <2>2 DEF Return, IInv, Kept, Encodes, Expected, Digit
    <2> QED
      BY <2>1, <2>2
  <1> QED
    BY <1>1, <1>2 DEF Return, IInv, Writing, Reading

LEMMA StutterKeepsIInv == IInv /\ UNCHANGED vars => IInv'
  BY DEF vars, IInv, TypeOK, Writing, Reading, Kept, Encodes, Expected, Digit

LEMMA NextKeepsIInv == Machine /\ IInv /\ [Next]_vars => IInv'
  BY StartWriteKeepsIInv, StartReadKeepsIInv, WriteKeepsIInv, ReadKeepsIInv,
     ReturnKeepsIInv, StutterKeepsIInv DEF Next

-----------------------------------------------------------------------------
(* The theorems. *)

\* The inductive invariant holds in every state.
THEOREM InvariantHolds == Machine => (Spec => []IInv)
  <1> SUFFICES ASSUME Machine PROVE Spec => []IInv
    OBVIOUS
  <1>1. Init => IInv
    BY InitIInv
  <1>2. IInv /\ [Next]_vars => IInv'
    BY NextKeepsIInv
  <1> QED
    BY <1>1, <1>2, PTL DEF Spec

\* write_le and write_be store digit k of their argument in byte k, counted
\* from the front or from the back.
THEOREM WritesEncode == Machine => (Spec => []WriteEncodes)
  <1> SUFFICES ASSUME Machine PROVE Spec => []WriteEncodes
    OBVIOUS
  <1>1. IInv => WriteEncodes
    BY DEF IInv, Writing, WriteEncodes, Encodes
  <1> QED
    BY <1>1, InvariantHolds, PTL

\* read_le and read_be return the number whose digits they find.
THEOREM ReadsDecode == Machine => (Spec => []ReadDecodes)
  <1> SUFFICES ASSUME Machine PROVE Spec => []ReadDecodes
    OBVIOUS
  <1>1. IInv => ReadDecodes
    BY EndPowers DEF IInv, Reading, ReadDecodes, Machine
  <1> QED
    BY <1>1, InvariantHolds, PTL

\* Every value survives the round trip through the buffer.
THEOREM RoundTrips == Machine => (Spec => []RoundTrip)
  <1> SUFFICES ASSUME Machine PROVE Spec => []RoundTrip
    OBVIOUS
  <1>1. IInv => RoundTrip
    <2> SUFFICES ASSUME IInv, call = "read", i = Width,
                        order = written.order, offset = written.offset
                 PROVE  result = written.value
      BY DEF RoundTrip
    <2>1. written.order # "none" /\ written.value \in Value
      BY DEF IInv, TypeOK, Orders
    <2>2. Encodes(order, offset, written.value)
      BY <2>1 DEF IInv, Kept
    <2>3. ReadDecodes
      BY EndPowers DEF IInv, Reading, ReadDecodes, Machine
    <2> QED
      BY <2>1, <2>2, <2>3 DEF ReadDecodes
  <1> QED
    BY <1>1, InvariantHolds, PTL

\* No call touches a byte outside its Width bytes or outside the buffer.
THEOREM CallsStayInRange == Machine => (Spec => StaysInRange)
  <1> SUFFICES ASSUME Machine PROVE Spec => StaysInRange
    OBVIOUS
  <1> DEFINE Stays == /\ call # "idle" => offset + Width <= Size
                      /\ \A b \in 0 .. Size - 1 :
                           buffer'[b] # buffer[b] =>
                             call = "write" /\ b \in offset .. offset + Width - 1
  <1>1. IInv /\ [Next]_vars => [Stays]_vars
    <2> SUFFICES ASSUME IInv, Next, NEW b \in 0 .. Size - 1,
                        buffer'[b] # buffer[b]
                 PROVE  call = "write" /\ b \in offset .. offset + Width - 1
      BY DEF IInv
    <2>1. WriteLe \/ WriteBe
      BY DEF Next, StartRead, StartWrite, ReadLe, ReadBe, Return
    <2>2. /\ call = "write" /\ i \in 0 .. Width - 1 /\ offset \in Nat
          /\ b = offset + i
      BY <2>1, SMTT(30) DEF WriteLe, WriteBe, Iterate, IInv, TypeOK, Machine
    <2> QED
      BY <2>2 DEF Machine
  <1> QED
    BY <1>1, InvariantHolds, PTL DEF Spec, StaysInRange

-----------------------------------------------------------------------------
(* obz::ring_buffer.                                                        *)

\* Consecutive positions that fit into the buffer have cells of their own.
LEMMA RingCells ==
    ASSUME head \in Cells
    PROVE  /\ \A k \in Nat \ {0} : CellOf(k) \in Cells
           /\ \A j, k \in 1 .. Capacity :
                j # k => CellOf(j) # CellOf(k)
  <1>1. head \in Nat
    BY CapacityAssumption, RawAssumption DEF Cells
  <1>2. ASSUME NEW k \in Nat \ {0}
        PROVE  CellOf(k) \in Cells
    <2>1. head + k - 1 \in Nat
      BY <1>1
    <2> QED
      BY CapacityAssumption, RawAssumption, <2>1, DivMod DEF CellOf, Cells
  <1>3. ASSUME NEW j \in 1 .. Capacity, NEW k \in 1 .. Capacity, j < k
        PROVE  CellOf(j) # CellOf(k)
    <2>1. /\ head + j - 1 \in Nat /\ head + k - 1 \in Nat
          /\ head + j - 1 < head + k - 1
          /\ head + k - 1 < (head + j - 1) + Capacity
      BY CapacityAssumption, RawAssumption, <1>1, <1>3
    <2> QED
      BY CapacityAssumption, RawAssumption, <2>1, NearPositionsDiffer
       DEF CellOf
  <1>4. ASSUME NEW j \in 1 .. Capacity, NEW k \in 1 .. Capacity, j # k
        PROVE  CellOf(j) # CellOf(k)
    <2>1. j < k \/ k < j
      BY CapacityAssumption, RawAssumption, <1>4
    <2> QED
      BY <1>3, <2>1
  <1> QED
    BY <1>2, <1>4

\* The cell behind the last value, and the cells after a pop.
LEMMA RingMoves ==
    ASSUME head \in Cells, NEW n \in Nat
    PROVE  /\ (head + n) % Capacity = CellOf(n + 1)
           /\ NextIndex((head + n) % Capacity) = CellOf(n + 2)
           /\ CellOf(1) = head
           /\ (NextIndex(head) + n) % Capacity = CellOf(n + 2)
  <1>1. head \in Nat /\ Capacity \in Nat \ {0}
    BY CapacityAssumption, RawAssumption DEF Cells
  <1>2. /\ head + (n + 1) - 1 = head + n /\ head + (n + 2) - 1 = (head + n) + 1
        /\ head + 1 - 1 = head /\ (head + 1) + n = (head + n) + 1
        /\ head + n \in Nat /\ head + 1 \in Nat
    BY <1>1
  <1>3. head % Capacity = head
    BY <1>1, FirstRounds DEF Cells
  <1>4. /\ (((head + n) % Capacity) + 1) % Capacity = ((head + n) + 1) % Capacity
        /\ (((head + 1) % Capacity) + n) % Capacity = ((head + 1) + n) % Capacity
    BY <1>1, <1>2, ReducedPosition
  <1> QED
    BY <1>2, <1>3, <1>4 DEF CellOf, NextIndex

\* What a push does to a buffer that is not full.
LEMMA RingPush ==
    ASSUME LifetimesMatch, NEW v \in Items,
           EmplaceBack(v)
    PROVE  LifetimesMatch' /\ Contents' = Append(Contents, v)
  <1>1. /\ head \in Cells /\ size \in Nat /\ size < Capacity
        /\ Capacity \in Nat \ {0} /\ tail = CellOf(size + 1)
        /\ head' = head /\ size' = size + 1 /\ popped' = popped
        /\ cells' = [cells EXCEPT ![tail] = v]
        /\ cells \in [Cells -> Items \cup {Raw}]
        /\ tail \in Cells
    <2>1. /\ head \in Cells /\ size \in 0 .. Capacity /\ size # Capacity
          /\ Capacity \in Nat \ {0} /\ tail = (head + size) % Capacity
          /\ head' = head /\ size' = size + 1 /\ popped' = popped
          /\ cells' = [cells EXCEPT ![tail] = v]
          /\ cells \in [Cells -> Items \cup {Raw}]
          /\ tail \in Cells
      BY CapacityAssumption, RawAssumption
         DEF LifetimesMatch, RingTypeOK, EmplaceBack, Full
    <2>2. size \in Nat /\ size < Capacity
      BY <2>1
    <2> QED
      BY <2>1, <2>2, RingMoves
  <1>2. tail' = (head' + size') % Capacity /\ tail' = CellOf(size + 2)
    <2>1. tail' = NextIndex((head + size) % Capacity)
      BY DEF EmplaceBack, LifetimesMatch
    <2>2. /\ tail' = CellOf(size + 2)
          /\ (head + (size + 1)) % Capacity = CellOf((size + 1) + 1)
      BY <1>1, <2>1, RingMoves
    <2>3. (size + 1) + 1 = size + 2
      BY <1>1
    <2> QED
      BY <1>1, <2>2, <2>3
  <1>3. \A k \in 1 .. size : tail # CellOf(k) /\ CellOf(k) \in Cells
    <2>1. \A k \in 1 .. size : k \in 1 .. Capacity /\ size + 1 \in 1 .. Capacity
                                 /\ k # size + 1
      BY <1>1
    <2> QED
      BY <1>1, <2>1, RingCells
  <1>4. RingTypeOK'
    <2>1. tail' \in Cells /\ size' \in 0 .. Capacity
      BY <1>1, <1>2, RingCells
    <2>2. /\ cells' \in [Cells -> Items \cup {Raw}]
          /\ popped' \in Items \cup {Raw}
      BY <1>1 DEF LifetimesMatch, RingTypeOK
    <2> QED
      BY <1>1, <2>1, <2>2 DEF RingTypeOK, Cells
  <1>5. Occupied' = Occupied \cup {tail}
    <2>1. 1 .. size + 1 = (1 .. size) \cup {size + 1}
      BY <1>1
    <2>2. \A k : CellOf(k)' = CellOf(k)
      BY <1>1 DEF CellOf
    <2> QED
      BY <1>1, <2>1, <2>2 DEF Occupied, CellOf
  <1>6. \A c \in Cells : cells'[c] # Raw <=> c \in Occupied'
    BY CapacityAssumption, RawAssumption, <1>1, <1>5 DEF LifetimesMatch
  <1>7. LifetimesMatch'
    BY <1>2, <1>4, <1>6 DEF LifetimesMatch, Cells
  <1>8. Contents' = Append(Contents, v)
    <2> DEFINE old == Contents
               new == Contents'
    <2>1. /\ old = [k \in 1 .. size |-> cells[CellOf(k)]]
          /\ new = [k \in 1 .. size + 1 |-> cells'[CellOf(k)]]
      BY <1>1 DEF Contents, CellOf
    <2>2. \A k \in 1 .. size : new[k] = old[k]
      BY <1>1, <1>3, <2>1
    <2>3. new[size + 1] = v
      BY <1>1, <2>1
    <2>4. Len(old) = size /\ old \in Seq(Items \cup {Raw})
      BY <1>1, <1>3, <2>1
    <2>5. Len(new) = size + 1 /\ new \in Seq(Items \cup {Raw})
      <3>1. \A k \in 1 .. size + 1 : CellOf(k) \in Cells
        BY <1>1, RingCells
      <3>2. \A c \in Cells : cells'[c] \in Items \cup {Raw}
        BY <1>1
      <3> QED
        BY <1>1, <2>1, <3>1, <3>2
    <2> HIDE DEF old, new
    <2>7. new = Append(old, v)
      BY <1>1, <2>2, <2>3, <2>4, <2>5
    <2> QED
      BY <2>7 DEF old, new
  <1> QED
    BY <1>7, <1>8

LEMMA RingPop ==
    ASSUME LifetimesMatch, PopFront
    PROVE  /\ LifetimesMatch' /\ Contents # <<>>
           /\ popped' = Head(Contents)
           /\ Contents' = Tail(Contents)
  <1>1. /\ head \in Cells /\ size \in Nat /\ size >= 1 /\ size <= Capacity
        /\ Capacity \in Nat \ {0} /\ tail' = tail /\ size' = size - 1
        /\ head' = NextIndex(head) /\ popped' = cells[head]
        /\ cells' = [cells EXCEPT ![head] = Raw]
        /\ cells \in [Cells -> Items \cup {Raw}]
        /\ tail \in Cells
    BY CapacityAssumption, RawAssumption
       DEF LifetimesMatch, RingTypeOK, PopFront
  <1>2. /\ head = CellOf(1) /\ head' = CellOf(2)
        /\ head' \in Cells
    <2>1. (head + 1) % Capacity = CellOf(1 + 1) /\ head = CellOf(1)
      BY <1>1, RingMoves
    <2>2. 1 + 1 = 2 /\ 2 \in Nat \ {0}
      OBVIOUS
    <2>3. CellOf(2) \in Cells
      BY <1>1, <2>2, RingCells
    <2> QED
      BY <1>1, <2>1, <2>2, <2>3 DEF NextIndex
  <1>3. \A k \in 1 .. size - 1 : CellOf(k)' = CellOf(k + 1)
    <2> TAKE k \in 1 .. size - 1
    <2>1. k - 1 \in Nat /\ (k - 1) + 2 = k + 1
      BY <1>1
    <2>2. (NextIndex(head) + (k - 1)) % Capacity = CellOf((k - 1) + 2)
      BY <1>1, <2>1, RingMoves
    <2>3. NextIndex(head) + (k - 1) = head' + k - 1
      <3>1. head' \in Nat
        BY <1>1, <1>2 DEF Cells
      <3> QED
        BY <1>1, <3>1
    <2> QED
      BY <2>1, <2>2, <2>3 DEF CellOf
  <1>4. \A k \in 1 .. size - 1 : /\ CellOf(k + 1) # head
                                 /\ CellOf(k + 1) \in Cells
    <2>1. \A k \in 1 .. size - 1 : k + 1 \in 1 .. Capacity /\ 1 \in 1 .. Capacity
                                     /\ k + 1 # 1 /\ k + 1 \in Nat \ {0}
      BY <1>1
    <2> QED
      BY <1>1, <1>2, <2>1, RingCells
  <1>5. tail' = (head' + size') % Capacity
    <2>1. tail = CellOf(size + 1)
      BY <1>1, RingMoves DEF LifetimesMatch
    <2>2. (NextIndex(head) + (size - 1)) % Capacity
            = CellOf((size - 1) + 2)
      <3>1. size - 1 \in Nat
        BY <1>1
      <3> QED
        BY <1>1, <3>1, RingMoves
    <2>3. (size - 1) + 2 = size + 1
      BY <1>1
    <2> QED
      BY <1>1, <2>1, <2>2, <2>3
  <1>6. RingTypeOK'
    <2>1. size' \in 0 .. Capacity
      BY <1>1
    <2>2. cells' \in [Cells -> Items \cup {Raw}] /\ popped' \in Items \cup {Raw}
      BY <1>1
    <2> QED
      BY <1>1, <1>2, <2>1, <2>2 DEF RingTypeOK, Cells
  <1>7. Occupied' = Occupied \ {head}
    <2>1. Occupied' = {CellOf(k + 1) : k \in 1 .. size - 1}
      BY <1>1, <1>3 DEF Occupied
    <2>2. ASSUME NEW c
          PROVE  c \in Occupied' <=> c \in Occupied /\ c # head
      <3>1. ASSUME c \in Occupied'
            PROVE  c \in Occupied /\ c # head
        <4>1. PICK k \in 1 .. size - 1 : c = CellOf(k + 1)
          BY <2>1, <3>1
        <4>2. k + 1 \in 1 .. size
          BY <1>1
        <4> QED
          BY <1>4, <4>1, <4>2 DEF Occupied
      <3>2. ASSUME c \in Occupied, c # head
            PROVE  c \in Occupied'
        <4>1. PICK k \in 1 .. size : c = CellOf(k)
          BY <3>2 DEF Occupied
        <4>2. k # 1
          BY <1>2, <3>2, <4>1
        <4>3. k - 1 \in 1 .. size - 1 /\ (k - 1) + 1 = k
          BY <1>1, <4>2
        <4> QED
          BY <2>1, <4>1, <4>3
      <3> QED
        BY <3>1, <3>2
    <2> QED
      BY <2>2
  <1>8. \A c \in Cells : cells'[c] # Raw <=> c \in Occupied'
    BY <1>1, <1>7 DEF LifetimesMatch
  <1>9. LifetimesMatch'
    BY <1>5, <1>6, <1>8 DEF LifetimesMatch, Cells
  <1>10. /\ Contents # <<>> /\ popped' = Head(Contents)
         /\ Contents' = Tail(Contents)
    <2> DEFINE old == Contents
               new == Contents'
    <2>1. /\ old = [k \in 1 .. size |-> cells[CellOf(k)]]
          /\ new = [k \in 1 .. size - 1 |-> cells'[CellOf(k)']]
      BY <1>1 DEF Contents
    <2>2. \A k \in 1 .. size - 1 : new[k] = old[k + 1]
      <3> TAKE k \in 1 .. size - 1
      <3>1. k + 1 \in 1 .. size
        BY <1>1
      <3>2. cells'[CellOf(k + 1)] = cells[CellOf(k + 1)]
        BY <1>1, <1>4
      <3> QED
        BY <1>3, <2>1, <3>1, <3>2
    <2>3. old[1] = popped'
      BY <1>1, <1>2, <2>1
    <2>4. Len(old) = size /\ old \in Seq(Items \cup {Raw})
      <3>1. \A k \in 1 .. size : CellOf(k) \in Cells
        BY <1>1, RingCells
      <3> QED
        BY <1>1, <2>1, <3>1
    <2>5. Len(new) = size - 1 /\ new \in Seq(Items \cup {Raw})
      <3>1. \A k \in 1 .. size - 1 : old[k + 1] \in Items \cup {Raw}
        <4> HIDE DEF old
        <4> QED
          BY <1>1, <2>4
      <3>2. DOMAIN new = 1 .. size - 1 /\ size - 1 \in Nat
        BY <1>1, <2>1
      <3>3. new = [k \in 1 .. size - 1 |-> new[k]]
        BY <2>1
      <3> HIDE DEF new, old
      <3> QED
        BY <2>2, <3>1, <3>2, <3>3
    <2> HIDE DEF old, new
    <2>7. new = Tail(old) /\ old # <<>> /\ popped' = Head(old)
      BY <1>1, <2>2, <2>3, <2>4, <2>5
    <2> QED
      BY <2>7 DEF old, new
  <1> QED
    BY <1>9, <1>10

LEMMA RingClear ==
    ASSUME LifetimesMatch, Clear
    PROVE  /\ LifetimesMatch' /\ Contents' = <<>> /\ popped' = popped
  <1>1. /\ head' = 0 /\ tail' = 0 /\ size' = 0 /\ popped' = popped
        /\ cells' = [c \in Cells |->
                       IF c \in Occupied THEN Raw ELSE cells[c]]
        /\ Capacity \in Nat \ {0}
    BY CapacityAssumption, RawAssumption
       DEF Clear, ClearedTail, Occupied, CellOf
  <1>2. cells' = [c \in Cells |-> Raw]
    BY <1>1 DEF LifetimesMatch
  <1>3. Occupied' = {} /\ 0 \in Cells /\ (0 + 0) % Capacity = 0
    <2>1. 0 \in Cells
      BY <1>1 DEF Cells
    <2>2. 0 % Capacity = 0
      BY <1>1, FirstRounds
    <2> QED
      BY <1>1, <2>1, <2>2 DEF Occupied
  <1>4. RingTypeOK'
    BY <1>1, <1>2, <1>3 DEF LifetimesMatch, RingTypeOK, Cells
  <1>5. LifetimesMatch'
    BY <1>1, <1>2, <1>3, <1>4 DEF LifetimesMatch, Cells
  <1>6. Contents' = <<>>
    BY <1>1 DEF Contents
  <1> QED
    BY <1>1, <1>5, <1>6

LEMMA RingStarts ==
    ASSUME RingInit
    PROVE  LifetimesMatch
  <1>1. Occupied = {} /\ 0 \in Cells /\ (0 + 0) % Capacity = 0
    <2>1. 0 \in Cells
      BY CapacityAssumption, RawAssumption DEF Cells
    <2>2. 0 % Capacity = 0
      BY CapacityAssumption, RawAssumption, FirstRounds
    <2> QED
      BY <2>1, <2>2 DEF Occupied, RingInit
  <1> QED
    BY CapacityAssumption, RawAssumption, <1>1
       DEF RingInit, LifetimesMatch, RingTypeOK

\* Exactly the cells of the values between head_ and tail_ hold objects, after
\* any calls: emplace_back constructs into raw storage, pop_front and clear()
\* destroy what lives.
THEOREM RingLifetimes == RingSpec => []LifetimesMatch
  <1>1. RingInit => LifetimesMatch
    BY RingStarts
  <1>2. LifetimesMatch /\ [RingNext]_ringVars => LifetimesMatch'
    <2> SUFFICES ASSUME LifetimesMatch, [RingNext]_ringVars
                 PROVE  LifetimesMatch'
      OBVIOUS
    <2>1. CASE UNCHANGED ringVars
      BY <2>1 DEF ringVars, LifetimesMatch, RingTypeOK, Occupied,
                  CellOf, Cells
    <2> QED
      BY <2>1, RingPush, RingPop, RingClear DEF RingNext
  <1> QED
    BY <1>1, <1>2, PTL DEF RingSpec

\* Every call appends one value, delivers and removes the oldest one, or
\* empties the buffer.
THEOREM RingIsFifo == RingSpec => FifoSteps
  <1> DEFINE Change == \/ \E v \in Items :
                            Contents' = Append(Contents, v)
                       \/ /\ Contents # <<>>
                          /\ popped' = Head(Contents)
                          /\ Contents' = Tail(Contents)
                       \/ Contents' = <<>> /\ UNCHANGED popped
  <1>1. LifetimesMatch /\ [RingNext]_ringVars => [Change]_ringVars
    BY RingPush, RingPop, RingClear DEF RingNext
  <1> QED
    BY <1>1, RingLifetimes, PTL DEF RingSpec, FifoSteps

-----------------------------------------------------------------------------
(* obz::emotional_state.                                                    *)

LEMMA StepsApart ==
    ASSUME NEW C \in Nat, NEW a \in Int, NEW b \in Int, a < b
    PROVE  a * C + C <= b * C /\ a * C \in Int /\ b * C \in Int
  <1>1. (b - a - 1) * C >= 0
    BY SMT
  <1>2. (b - a - 1) * C = b * C - a * C - C
    BY SMT
  <1>3. a * C \in Int /\ b * C \in Int
    BY SMT
  <1> QED
    BY <1>1, <1>2, <1>3

\* A positive coordinate y is rounded to the nearest of the points a * G, and to
\* G where that were 0; H is half a step.
Step(G, H, y) == IF (y + H) \div G = 0 THEN 1 ELSE (y + H) \div G

LEMMA NearestStep ==
    ASSUME NEW G \in Nat \ {0}, NEW H \in Nat, G = 2 * H,
           NEW A \in Nat \ {0}, NEW y \in Nat \ {0}, y <= A * G
    PROVE  /\ (y + H) \div G \in 0 .. A
           /\ Step(G, H, y) \in 1 .. A
           /\ \A a \in Int \ {0} : Distance(Step(G, H, y) * G, y)
                                     <= Distance(a * G, y)
  <1> DEFINE q == (y + H) \div G
             r == (y + H) % G
             m == Step(G, H, y)
  <1>1. /\ q \in Nat /\ r \in 0 .. G - 1 /\ y + H = q * G + r
    <2>1. y + H \in Nat
      OBVIOUS
    <2>2. q \in Nat /\ r \in 0 .. G - 1 /\ y + H = G * q + r
      BY <2>1, DivMod
    <2>3. G * q = q * G
      BY <2>2
    <2> QED
      BY <2>2, <2>3
  <1>2. m = IF q = 0 THEN 1 ELSE q
    BY DEF Step
  <1> HIDE DEF q, r, m
  <1>3. q \in 0 .. A /\ m \in 1 .. A
    <2>1. ~(A < q)
      <3> SUFFICES ASSUME A < q PROVE FALSE
        OBVIOUS
      <3>1. A * G + G <= q * G /\ A * G \in Int /\ q * G \in Int
        BY <1>1, StepsApart
      <3> QED
        BY <1>1, <3>1
    <2> QED
      BY <1>1, <1>2, <2>1
  <1>4. ASSUME NEW a \in Int \ {0}
        PROVE  Distance(m * G, y) <= Distance(a * G, y)
    <2>1. /\ q * G \in Int /\ a * G \in Int /\ 1 * G = G /\ 0 * G = 0
          /\ a < q => a * G + G <= q * G
          /\ q < a => q * G + G <= a * G
          /\ a < 0 => a * G + G <= 0 * G
          /\ 1 < a => 1 * G + G <= a * G
      <3>1. q * G \in Int /\ a * G \in Int /\ 1 * G = G /\ 0 * G = 0
        BY <1>1
      <3>2. q \in Int /\ 0 \in Int /\ 1 \in Int /\ G \in Nat /\ a \in Int
        BY <1>1
      <3>3. a < q => a * G + G <= q * G
        BY <3>2, StepsApart
      <3>4. q < a => q * G + G <= a * G
        BY <3>2, StepsApart
      <3>5. a < 0 => a * G + G <= 0 * G
        BY <3>2, StepsApart
      <3>6. 1 < a => 1 * G + G <= a * G
        BY <3>2, StepsApart
      <3> QED
        BY <3>1, <3>3, <3>4, <3>5, <3>6
    <2>2. CASE q = 0
      <3>1. m * G = G /\ y < H
        BY <1>1, <1>2, <2>1, <2>2
      <3>2. CASE a = 1
        BY <1>2, <2>2, <3>2 DEF Distance
      <3>3. CASE 1 < a
        BY <2>1, <3>1, <3>3 DEF Distance
      <3>4. CASE a < 0
        BY <2>1, <3>1, <3>4 DEF Distance
      <3> QED
        BY <3>2, <3>3, <3>4
    <2>3. CASE q # 0
      <3>1. m = q
        BY <1>2, <2>3
      <3>2. Distance(q * G, y) <= H
        BY <1>1, <2>1 DEF Distance
      <3>3. CASE a = q
        BY <3>1, <3>3, <2>1 DEF Distance
      <3>4. CASE a < q
        BY <1>1, <2>1, <3>1, <3>2, <3>4 DEF Distance
      <3>5. CASE q < a
        BY <1>1, <2>1, <3>1, <3>2, <3>5 DEF Distance
      <3> QED
        BY <1>1, <3>3, <3>4, <3>5
    <2> QED
      BY <2>2, <2>3
  <1> QED
    BY <1>3, <1>4 DEF q, m

LEMMA HalfGrain == /\ Grain \in Nat \ {0} /\ Grain \div 2 \in Nat
           /\ Grain = 2 * (Grain \div 2) /\ AxisMax \in Nat \ {0}
           /\ AxisMax * Grain \in Nat \ {0}
  <1>1. Grain \div 2 \in Nat /\ Grain = 2 * (Grain \div 2) /\ Grain \in Nat \ {0}
    BY GridAssumption
  <1>2. AxisMax * Grain \in Nat \ {0}
    <2>1. AxisMax = 1 \/ AxisMax = 2 \/ AxisMax = 3 \/ AxisMax = 4 \/ AxisMax = 5
      BY GridAssumption
    <2> QED
      BY <1>1, <2>1
  <1> QED
    BY GridAssumption, <1>1, <1>2

\* The same for negative coordinates: the axis value is on the coordinate's
\* side, nearest to it, and never needs the clamp.
LEMMA SnappedIsNearest ==
    ASSUME NEW x \in Coordinate, x # 0, NEW before
    PROVE  LET s == SnappedAxis(x, before)
           IN  /\ s \in Axis /\ Sign(s) = Sign(x)
               /\ \A a \in Axis : Distance(a * Grain, x)
                                            >= Distance(s * Grain, x)
  <1> DEFINE G == Grain
             H == Grain \div 2
             A == AxisMax
             s == SnappedAxis(x, before)
  <1>1. /\ G \in Nat \ {0} /\ H \in Nat /\ G = 2 * H /\ A \in Nat \ {0}
        /\ x \in Int /\ A * G \in Nat /\ x <= A * G /\ -x <= A * G
    <2>1. x \in -A * G .. A * G
      BY DEF Coordinate
    <2>2. A * G \in Nat /\ -A * G = -(A * G)
      BY HalfGrain
    <2> QED
      BY <2>1, <2>2, HalfGrain
  <1>2. ASSUME 0 < x
        PROVE  s = Step(G, H, x)
    <2>1. (x + H) \div G \in 0 .. A
      BY <1>1, <1>2, NearestStep
    <2>2. Rounded(x) = (x + H) \div G
      BY <1>1, <1>2 DEF Rounded
    <2> QED
      BY <1>1, <1>2, <2>1, <2>2
         DEF Step, SnappedAxis, Clamp
  <1>3. ASSUME x < 0
        PROVE  s = -Step(G, H, -x)
    <2>1. (-x + H) \div G \in 0 .. A
      <3>1. -x \in Nat \ {0} /\ -x <= A * G
        BY <1>1, <1>3
      <3> QED
        BY <1>1, <3>1, NearestStep
    <2>2. Rounded(x) = -((-x + H) \div G)
      <3>1. H - x = -x + H /\ ~(x > 0)
        BY <1>1, <1>3
      <3> QED
        BY <3>1 DEF Rounded
    <2> QED
      BY <1>1, <1>3, <2>1, <2>2
         DEF Step, SnappedAxis, Clamp
  <1>4. CASE 0 < x
    <2>1. /\ s \in 1 .. A
          /\ \A a \in Int \ {0} : Distance(s * G, x)
                                    <= Distance(a * G, x)
      <3>1. x \in Nat \ {0} /\ s = Step(G, H, x)
        BY <1>1, <1>2, <1>4
      <3> HIDE DEF s
      <3> QED
        BY <1>1, <3>1, NearestStep
    <2> HIDE DEF s
    <2>2. s \in Axis /\ Sign(s) = 1 /\ Sign(x) = 1
      BY <1>1, <1>4, <2>1 DEF Axis, Sign
    <2>3. ASSUME NEW a \in Axis
          PROVE  Distance(a * G, x) >= Distance(s * G, x)
      <3>1. a \in Int \ {0}
        BY <1>1 DEF Axis
      <3>2. a * G \in Int /\ s * G \in Int
        BY <1>1, <2>1, <3>1
      <3> QED
        BY <1>1, <2>1, <3>1, <3>2 DEF Distance
    <2> QED
      BY <2>2, <2>3 DEF s
  <1>5. CASE x < 0
    <2> DEFINE t == Step(G, H, -x)
    <2>1. /\ t \in 1 .. A /\ s = -t
          /\ \A a \in Int \ {0} : Distance(t * G, -x)
                                    <= Distance(a * G, -x)
      <3>1. -x \in Nat \ {0} /\ -x <= A * G
        BY <1>1, <1>5
      <3> QED
        BY <1>1, <1>3, <1>5, <3>1, NearestStep
    <2> HIDE DEF s, t
    <2>2. s \in Axis /\ Sign(s) = -1 /\ Sign(x) = -1
      BY <1>1, <1>5, <2>1 DEF Axis, Sign
    <2>3. ASSUME NEW a \in Axis
          PROVE  Distance(a * G, x) >= Distance(s * G, x)
      <3>1. -a \in Int \ {0} /\ a \in Int
        BY <1>1 DEF Axis
      <3>2. /\ a * G \in Int /\ t * G \in Int
            /\ (-a) * G = -(a * G) /\ s * G = -(t * G)
        BY <1>1, <2>1, <3>1
      <3>3. Distance(t * G, -x) <= Distance((-a) * G, -x)
        BY <2>1, <3>1
      <3> QED
        BY <1>1, <3>2, <3>3 DEF Distance
    <2> QED
      BY <2>2, <2>3 DEF s
  <1> QED
    BY <1>1, <1>4, <1>5

\* What Snapped says of one axis.
Follows(x, axis, s) ==
    /\ Sign(axis) = s
    /\ x # 0 => \A a \in Axis : Distance(a * Grain, x)
                                           >= Distance(axis * Grain, x)

\* Whatever is passed to a setter, the new axis value follows the coordinate.
LEMMA SetCoordinate ==
    ASSUME NEW x \in Int, NEW before \in Axis
    PROVE  LET next == ClampedCoordinate(x)
               s == IF next = 0 THEN Sign(before) ELSE Sign(next)
           IN  /\ next \in Coordinate /\ s \in {-1, 1}
               /\ SnappedAxis(next, before) \in Axis
               /\ Follows(next, SnappedAxis(next, before), s)
               /\ x # 0 => Sign(next) = Sign(x)
               /\ x = 0 => next = 0
  <1> DEFINE next == ClampedCoordinate(x)
             M == AxisMax * Grain
  <1>1. M \in Nat \ {0} /\ -AxisMax * Grain = -M
    BY HalfGrain
  <1>2. /\ next \in Coordinate
        /\ x # 0 => next # 0 /\ Sign(next) = Sign(x)
        /\ x = 0 => next = 0
    <2>1. next = IF x < -M THEN -M ELSE IF x > M THEN M ELSE x
      BY <1>1 DEF ClampedCoordinate, Clamp
    <2> HIDE DEF next, M
    <2> QED
      BY <1>1, <2>1 DEF Coordinate, Sign, M
  <1> HIDE DEF next
  <1>3. CASE next = 0
    <2>1. SnappedAxis(next, before) = before
      BY <1>3 DEF SnappedAxis
    <2> QED
      BY <1>2, <1>3, <2>1 DEF Follows, Sign, next
  <1>4. CASE next # 0
    <2>1. /\ SnappedAxis(next, before) \in Axis
          /\ Follows(next, SnappedAxis(next, before), Sign(next))
      BY <1>2, <1>4, SnappedIsNearest DEF Follows
    <2> QED
      BY <1>2, <1>4, <2>1 DEF Sign, next
  <1> QED
    BY <1>3, <1>4

\* Snapped in these terms.
LEMMA FollowsBoth ==
    Snapped <=>
      /\ EmotionTypeOK
      /\ Follows(pleasantness, axes[1], side[1])
      /\ Follows(energy, axes[2], side[2])
  BY DEF Snapped, Follows

Stage == {"mood", "inMood", "quadrant", "inQuadrant"}
Call == [from : Axis \X Axis, to : Axis \X Axis,
         at : Stage]

LEMMA EmotionStarts ==
    ASSUME EmotionInit
    PROVE  EmotionIInv
  <1>1. PICK x \in Pleasantnesses, y \in Energies :
          /\ pleasantness = ClampedCoordinate(x)
          /\ energy = ClampedCoordinate(y)
          /\ axes = <<SnappedAxis(pleasantness, 1),
                      SnappedAxis(energy, 1)>>
          /\ previous = axes
          /\ side = <<Sign(x), Sign(y)>>
          /\ moodCallback = FALSE /\ quadrantCallback = FALSE
          /\ calls = <<>> /\ told = MoodAt(axes)
    BY DEF EmotionInit
  <1>2. x \in Int /\ y \in Int /\ 1 \in Axis
        /\ Sign(1) = 1 /\ Sign(0) = 1
    BY GridAssumption, HalfGrain DEF Axis, Sign
  <1>3. /\ pleasantness \in Coordinate /\ axes[1] \in Axis
        /\ Follows(pleasantness, axes[1], side[1]) /\ side[1] \in {-1, 1}
    BY <1>1, <1>2, SetCoordinate DEF Sign
  <1>4. /\ energy \in Coordinate /\ axes[2] \in Axis
        /\ Follows(energy, axes[2], side[2]) /\ side[2] \in {-1, 1}
    BY <1>1, <1>2, SetCoordinate DEF Sign
  <1>5. EmotionTypeOK
    <2>1. moodCallback \in BOOLEAN /\ quadrantCallback \in BOOLEAN
      BY <1>1, Zenon
    <2>2. /\ axes \in Axis \X Axis
          /\ side \in {-1, 1} \X {-1, 1}
      BY <1>1, <1>3, <1>4
    <2>3. calls \in Seq(Call)
      BY <1>1
    <2> QED
      BY <1>1, <1>3, <1>4, <2>1, <2>2, <2>3 DEF EmotionTypeOK, Call, Stage
  <1>6. Reports
    BY <1>1 DEF Reports, Depth
  <1> QED
    BY <1>3, <1>4, <1>5, <1>6, FollowsBoth DEF EmotionIInv

\* What a setter leaves behind.
LEMMA EmotionSet ==
    ASSUME EmotionIInv, NEW x \in Int, NEW y \in Int,
           SetPosition(x, y)
    PROVE  EmotionIInv'
  <1> DEFINE p == ClampedCoordinate(x)
             e == ClampedCoordinate(y)
             next == <<SnappedAxis(p, axes[1]),
                       SnappedAxis(e, axes[2])>>
             started == [from |-> axes, to |-> next, at |-> "mood"]
  <1>1. /\ MayCall /\ pleasantness' = p /\ energy' = e
        /\ previous' = axes /\ axes' = next
        /\ side' = <<IF p = 0 THEN side[1] ELSE Sign(p),
                     IF e = 0 THEN side[2] ELSE Sign(e)>>
        /\ calls' = Append(calls, started)
        /\ UNCHANGED <<moodCallback, quadrantCallback, told>>
    BY DEF SetPosition
  <1>2. /\ EmotionTypeOK /\ axes[1] \in Axis /\ axes[2] \in Axis
        /\ axes \in Axis \X Axis
        /\ side[1] = Sign(axes[1]) /\ side[2] = Sign(axes[2])
        /\ calls \in Seq(Call)
    BY FollowsBoth DEF EmotionIInv, EmotionTypeOK, Follows, Call, Stage
  <1> HIDE DEF p, e
  <1>3. /\ p \in Coordinate /\ next[1] \in Axis
        /\ side'[1] \in {-1, 1} /\ Follows(p, next[1], side'[1])
    BY <1>1, <1>2, SetCoordinate DEF p
  <1>4. /\ e \in Coordinate /\ next[2] \in Axis
        /\ side'[2] \in {-1, 1} /\ Follows(e, next[2], side'[2])
    BY <1>1, <1>2, SetCoordinate DEF e
  <1>5. next \in Axis \X Axis /\ started \in Call
    BY <1>2, <1>3, <1>4 DEF Call, Stage
  <1> HIDE DEF next, started
  <1>6. EmotionTypeOK'
    <2>1. calls' \in Seq(Call)
      BY <1>1, <1>2, <1>5
    <2>2. side' \in {-1, 1} \X {-1, 1}
      BY <1>1, <1>3, <1>4
    <2>3. moodCallback' \in BOOLEAN /\ quadrantCallback' \in BOOLEAN
      BY <1>1, <1>2, Zenon DEF EmotionTypeOK
    <2> QED
      BY <1>1, <1>2, <1>3, <1>4, <1>5, <2>1, <2>2, <2>3
         DEF EmotionTypeOK, Call, Stage, Axis, Coordinate
  <1>7. Snapped'
    <2>1. /\ Follows(pleasantness, axes[1], side[1])'
          /\ Follows(energy, axes[2], side[2])'
      BY <1>1, <1>3, <1>4 DEF Follows, Sign, Distance,
                              Axis
    <2> QED
      BY <1>6, <2>1 DEF Snapped, Follows
  <1>8. Reports'
    <2> DEFINE d == Len(calls)
    <2>1. /\ d \in Nat /\ Len(calls') = d + 1 /\ calls'[d + 1] = started
          /\ \A k \in 1 .. d : calls'[k] = calls[k]
      BY <1>1, <1>2, <1>5
    <2>2. \A k \in 1 .. d : calls[k].at \in {"inMood", "inQuadrant"}
      <3>1. \A k \in 1 .. d - 1 : calls[k].at \in {"inMood", "inQuadrant"}
        BY DEF EmotionIInv, Reports, Depth
      <3>2. d > 0 => calls[d].at \in {"inMood", "inQuadrant"}
        BY <1>1, <2>1 DEF MayCall, InCallback, Inner,
                          Depth
      <3> QED
        BY <2>1, <3>1, <3>2
    <2>3. moodCallback => told = MoodAt(axes)
      <3>1. ~(d > 0 /\ calls[d].at = "mood")
        BY <2>1, <2>2
      <3> QED
        BY <3>1 DEF EmotionIInv, Reports, Depth, Inner
    <2>4. started.to = axes' /\ started.from = axes /\ started.at = "mood"
      BY <1>1 DEF started
    <2>5. MoodAt(axes)' = MoodAt(axes')
      BY DEF MoodAt, Pack
    <2> HIDE DEF d
    <2>6. /\ \A k \in 1 .. Len(calls') - 1 :
               calls'[k].at \in {"inMood", "inQuadrant"}
          /\ Len(calls') > 0 /\ calls'[Len(calls')] = started
      BY <2>1, <2>2
    <2> QED
      BY <1>1, <2>3, <2>4, <2>6 DEF Reports, Depth, Inner,
                                    MoodAt, Pack
  <1> QED
    BY <1>7, <1>8 DEF EmotionIInv

\* Reports, of given values of the variables.
ReportsOf(cs, registered, at, knows) ==
    /\ \A k \in 1 .. Len(cs) - 1 : cs[k].at \in {"inMood", "inQuadrant"}
    /\ IF Len(cs) > 0 /\ cs[Len(cs)].at = "mood"
         THEN /\ cs[Len(cs)].to = at
              /\ registered => knows = MoodAt(cs[Len(cs)].from)
         ELSE registered => knows = MoodAt(at)

LEMMA ReportsAre ==
    /\ Reports <=> ReportsOf(calls, moodCallback, axes, told)
    /\ Reports' <=> ReportsOf(calls', moodCallback', axes', told')
  BY DEF Reports, ReportsOf, Depth, Inner,
         MoodAt, Pack

\* A step that changes no coordinate.
LEMMA PositionStays ==
    ASSUME Snapped, UNCHANGED position,
           calls' \in Seq(Call), moodCallback' \in BOOLEAN,
           quadrantCallback' \in BOOLEAN
    PROVE  Snapped'
  <1>1. UNCHANGED <<pleasantness, energy, axes, previous, side>>
    BY DEF position
  <1>2. EmotionTypeOK'
    BY <1>1 DEF Snapped, EmotionTypeOK, Call, Stage,
                Axis, Coordinate
  <1> QED
    BY <1>1, <1>2 DEF Snapped, Sign,
                      Distance, Axis

\* The innermost call goes on, or ends.
LEMMA InnermostMoves ==
    ASSUME calls \in Seq(Call), Len(calls) > 0, NEW step \in Stage,
           MoveTo(step)
    PROVE  /\ calls' \in Seq(Call) /\ Len(calls') = Len(calls)
           /\ \A k \in 1 .. Len(calls) - 1 : calls'[k] = calls[k]
           /\ calls'[Len(calls)].at = step
           /\ calls'[Len(calls)].from = calls[Len(calls)].from
           /\ calls'[Len(calls)].to = calls[Len(calls)].to
  <1> DEFINE d == Len(calls)
  <1>1. d \in 1 .. Len(calls) /\ calls[d] \in Call /\ d \in Nat
    <2>1. d \in 1 .. Len(calls)
      OBVIOUS
    <2> QED
      BY <2>1
  <1>2. calls' = [calls EXCEPT ![d] = [calls[d] EXCEPT !.at = step]]
    BY DEF MoveTo, Depth
  <1> PICK c : c = [calls[d] EXCEPT !.at = step]
    OBVIOUS
  <1>3. c \in Call /\ c.at = step /\ c.from = calls[d].from /\ c.to = calls[d].to
    BY <1>1 DEF Call
  <1> HIDE DEF d
  <1>4. calls' \in Seq(Call) /\ Len(calls') = Len(calls) /\ calls'[d] = c
    BY <1>1, <1>2, <1>3, SMTT(30)
  <1>5. \A k \in 1 .. Len(calls) - 1 : calls'[k] = calls[k]
    BY <1>1, <1>2 DEF d
  <1> QED
    BY <1>3, <1>4, <1>5 DEF d

LEMMA InnermostLeaves ==
    ASSUME calls \in Seq(Call), Len(calls) > 0, Leave
    PROVE  /\ calls' \in Seq(Call) /\ Len(calls') = Len(calls) - 1
           /\ \A k \in 1 .. Len(calls) - 1 : calls'[k] = calls[k]
  <1> DEFINE d == Len(calls)
  <1>1. d \in Nat /\ d - 1 \in Nat /\ calls' = SubSeq(calls, 1, d - 1)
    BY DEF Leave, Depth
  <1>2. SubSeq(calls, 1, d - 1) = [k \in 1 .. d - 1 |-> calls[k]]
    <2>1. 1 + d - 1 - 1 = d - 1 /\ \A k \in 1 .. d - 1 : 1 + k - 1 = k
      BY <1>1
    <2> QED
      BY <1>1, <2>1
  <1>3. \A k \in 1 .. d - 1 : calls[k] \in Call
    BY <1>1
  <1> HIDE DEF d
  <1>4. calls' \in Seq(Call) /\ Len(calls') = d - 1
    BY <1>1, <1>2, <1>3
  <1> QED
    BY <1>1, <1>2, <1>4 DEF d

\* Leaving a call that has reported its mood.
LEMMA ReportsAfterLeave ==
    ASSUME calls \in Seq(Call), Len(calls) > 0, Reports,
           calls[Len(calls)].at # "mood", Leave,
           UNCHANGED <<axes, moodCallback, told>>
    PROVE  Reports' /\ calls' \in Seq(Call)
  <1>1. /\ calls' \in Seq(Call) /\ Len(calls') = Len(calls) - 1
        /\ \A k \in 1 .. Len(calls) - 1 : calls'[k] = calls[k]
        /\ Len(calls) \in Nat
    BY InnermostLeaves
  <1>2. /\ \A k \in 1 .. Len(calls) - 1 : calls'[k].at \in {"inMood", "inQuadrant"}
        /\ moodCallback => told = MoodAt(axes)
    BY <1>1, ReportsAre DEF ReportsOf
  <1>3. Len(calls') > 0 => calls'[Len(calls')].at # "mood"
    BY <1>1, <1>2
  <1>4. \A k \in 1 .. Len(calls') - 1 : calls'[k].at \in {"inMood", "inQuadrant"}
    BY <1>1, <1>2
  <1> QED
    BY <1>1, <1>2, <1>3, <1>4, ReportsAre DEF ReportsOf

\* A call that has reported its mood goes on to its next step.
LEMMA ReportsAfterMove ==
    ASSUME calls \in Seq(Call), Len(calls) > 0, Reports,
           calls[Len(calls)].at # "mood", NEW step \in Stage \ {"mood"},
           MoveTo(step), UNCHANGED <<axes, moodCallback, told>>
    PROVE  Reports' /\ calls' \in Seq(Call)
  <1>1. /\ calls' \in Seq(Call) /\ Len(calls') = Len(calls)
        /\ \A k \in 1 .. Len(calls) - 1 : calls'[k] = calls[k]
        /\ calls'[Len(calls)].at = step
    BY InnermostMoves
  <1> QED
    BY <1>1, ReportsAre DEF ReportsOf

LEMMA InvokeMoodReports ==
    ASSUME EmotionIInv, InvokeMood
    PROVE  EmotionIInv'
  <1> DEFINE c == calls[Len(calls)]
  <1>1. /\ calls \in Seq(Call) /\ Len(calls) > 0 /\ c.at = "mood" /\ c.to = axes
        /\ moodCallback => told = MoodAt(c.from)
        /\ UNCHANGED <<position, moodCallback, quadrantCallback>>
        /\ moodCallback \in BOOLEAN /\ quadrantCallback \in BOOLEAN
        /\ Snapped /\ axes' = axes
        /\ \A k \in 1 .. Len(calls) - 1 : calls[k].at \in {"inMood", "inQuadrant"}
    BY ReportsAre DEF EmotionIInv, ReportsOf, InvokeMood, Depth,
         Inner, Snapped, EmotionTypeOK, Call, Stage,
         position
  <1>2. PICK step \in {"inMood", "quadrant"} :
          /\ MoveTo(step)
          /\ moodCallback => told' = MoodAt(axes)
    <2>1. CASE /\ MoodAt(c.from) # MoodAt(c.to)
               /\ moodCallback
      BY <1>1, <2>1 DEF InvokeMood, ToldMood, Inner,
                        Depth
    <2>2. CASE ~(/\ MoodAt(c.from) # MoodAt(c.to)
                 /\ moodCallback)
      BY <1>1, <2>2 DEF InvokeMood, Inner, Depth
    <2> QED
      BY <2>1, <2>2
  <1>3. /\ calls' \in Seq(Call) /\ Len(calls') = Len(calls)
        /\ \A k \in 1 .. Len(calls) - 1 : calls'[k] = calls[k]
        /\ calls'[Len(calls)].at = step
    BY <1>1, <1>2, InnermostMoves DEF Stage
  <1>4. Reports'
    BY <1>1, <1>2, <1>3, ReportsAre DEF ReportsOf
  <1>5. Snapped'
    BY <1>1, <1>3, PositionStays
  <1> QED
    BY <1>4, <1>5 DEF EmotionIInv

LEMMA CallbacksReport ==
    ASSUME EmotionIInv,
           \/ InvokeQuadrant \/ CallbackReturns
           \/ CallbackThrows
    PROVE  EmotionIInv'
  <1>1. /\ calls \in Seq(Call) /\ Len(calls) > 0
        /\ calls[Len(calls)].at # "mood"
        /\ UNCHANGED <<position, moodCallback, quadrantCallback, told>>
        /\ moodCallback \in BOOLEAN /\ quadrantCallback \in BOOLEAN
        /\ Snapped /\ axes' = axes /\ Reports
    BY DEF EmotionIInv, InvokeQuadrant, CallbackReturns,
         CallbackThrows, InCallback, Depth, Inner,
         Snapped, EmotionTypeOK, Call, Stage,
         position
  <1>2. \/ Leave
        \/ \E step \in Stage \ {"mood"} : MoveTo(step)
    BY DEF InvokeQuadrant, CallbackReturns,
           CallbackThrows, Stage
  <1>3. Reports' /\ calls' \in Seq(Call)
    BY <1>1, <1>2, ReportsAfterLeave, ReportsAfterMove
  <1> QED
    BY <1>1, <1>3, PositionStays DEF EmotionIInv

LEMMA RegistrationReports ==
    ASSUME EmotionIInv, NEW registered \in BOOLEAN,
           \/ OnMoodChanged(registered)
           \/ OnQuadrantChanged(registered)
    PROVE  EmotionIInv'
  <1>1. /\ calls \in Seq(Call) /\ calls' = calls
        /\ UNCHANGED position /\ axes' = axes
        /\ Snapped /\ Reports /\ MayCall
    BY DEF EmotionIInv, OnMoodChanged, OnQuadrantChanged,
         Snapped, EmotionTypeOK, Call, Stage,
         position
  <1>2. moodCallback' \in BOOLEAN /\ quadrantCallback' \in BOOLEAN
    <2>1. moodCallback \in BOOLEAN /\ quadrantCallback \in BOOLEAN
      BY DEF EmotionIInv, Snapped, EmotionTypeOK
    <2> QED
      BY <2>1, Zenon DEF OnMoodChanged, OnQuadrantChanged
  <1>3. ~(Len(calls) > 0 /\ calls[Len(calls)].at = "mood")
    BY <1>1 DEF MayCall, InCallback, Inner, Depth
  <1>4. moodCallback' => told' = MoodAt(axes)
    <2>1. CASE OnMoodChanged(registered)
      BY <2>1 DEF OnMoodChanged
    <2>2. CASE OnQuadrantChanged(registered)
      BY <1>1, <1>3, <2>2, ReportsAre DEF OnQuadrantChanged, ReportsOf
    <2> QED
      BY <2>1, <2>2
  <1>5. Reports'
    BY <1>1, <1>3, <1>4, ReportsAre DEF ReportsOf
  <1> QED
    BY <1>1, <1>2, <1>5, PositionStays DEF EmotionIInv

\* Every setter is a set_position.
LEMMA SettersSet ==
    ASSUME EmotionIInv,
           \/ \E x \in Pleasantnesses, y \in Energies : SetPosition(x, y)
           \/ \E x \in Pleasantnesses : SetPleasantness(x)
           \/ \E y \in Energies : SetEnergy(y)
           \/ \E dx, dy \in Deltas : Adjust(dx, dy)
    PROVE  \E x, y \in Int : SetPosition(x, y)
  <1>1. pleasantness \in Int /\ energy \in Int
    <2>1. AxisMax * Grain \in Int
      BY HalfGrain
    <2> QED
      BY <2>1 DEF EmotionIInv, Snapped, EmotionTypeOK,
                  Coordinate
  <1>2. ASSUME NEW dx \in Deltas, NEW dy \in Deltas
        PROVE  pleasantness + dx \in Int /\ energy + dy \in Int
    BY GridAssumption, <1>1
  <1>3. /\ \A x \in Pleasantnesses : x \in Int
        /\ \A y \in Energies : y \in Int
    BY GridAssumption
  <1> QED
    BY <1>1, <1>2, <1>3, Zenon DEF SetPleasantness, SetEnergy, Adjust

\* The axes follow the coordinates, and the innermost set_position in progress
\* is about to report where it comes from, or everything has been reported.
THEOREM EmotionInvariant == EmotionSpec => []EmotionIInv
  <1>1. EmotionInit => EmotionIInv
    BY EmotionStarts
  <1>2. EmotionIInv /\ [EmotionNext]_emotionVars => EmotionIInv'
    <2> SUFFICES ASSUME EmotionIInv, [EmotionNext]_emotionVars
                 PROVE  EmotionIInv'
      OBVIOUS
    <2>1. CASE \E x, y \in Int : SetPosition(x, y)
      BY <2>1, EmotionSet
    <2>2. CASE UNCHANGED emotionVars
      <3>1. /\ UNCHANGED position /\ axes' = axes
            /\ UNCHANGED <<calls, moodCallback, quadrantCallback, told>>
        BY <2>2 DEF emotionVars, position
      <3>2. /\ calls' \in Seq(Call) /\ moodCallback' \in BOOLEAN
            /\ quadrantCallback' \in BOOLEAN
        BY <3>1 DEF EmotionIInv, Snapped, EmotionTypeOK,
                    Call, Stage
      <3>3. Reports'
        BY <3>1, ReportsAre DEF EmotionIInv
      <3> QED
        BY <3>1, <3>2, <3>3, PositionStays DEF EmotionIInv
    <2>3. CASE InvokeMood \/ InvokeQuadrant
                 \/ CallbackReturns \/ CallbackThrows
      BY <2>3, InvokeMoodReports, CallbacksReport
    <2>4. CASE \E registered \in BOOLEAN :
                 \/ OnMoodChanged(registered)
                 \/ OnQuadrantChanged(registered)
      BY <2>4, RegistrationReports
    <2> QED
      BY <2>1, <2>2, <2>3, <2>4, SettersSet DEF EmotionNext
  <1> QED
    BY <1>1, <1>2, PTL DEF EmotionSpec

\* The cached axis is the grid value nearest to the coordinate, on the side of
\* its last non-zero value, and a step that leaves a coordinate at zero keeps
\* the whole axis value, however callbacks nest and for every grain.
THEOREM AxesFollowCoordinates == EmotionSpec => AxisFollowsCoordinate
  <1> DEFINE KeepsAxis == /\ pleasantness' = 0 => axes'[1] = axes[1]
                          /\ energy' = 0 => axes'[2] = axes[2]
  <1>1. EmotionIInv => Snapped
    BY DEF EmotionIInv
  <1>2. EmotionIInv /\ [EmotionNext]_emotionVars => [KeepsAxis]_emotionVars
    <2> SUFFICES ASSUME EmotionIInv, EmotionNext PROVE KeepsAxis
      OBVIOUS
    <2>1. CASE \E x, y \in Int : SetPosition(x, y)
      BY <2>1 DEF SetPosition, SnappedAxis
    <2>2. CASE \/ InvokeMood \/ InvokeQuadrant
               \/ CallbackReturns \/ CallbackThrows
      BY <2>2 DEF InvokeMood, InvokeQuadrant, CallbackReturns, CallbackThrows,
                  position
    <2>3. CASE \E registered \in BOOLEAN :
                 \/ OnMoodChanged(registered)
                 \/ OnQuadrantChanged(registered)
      BY <2>3 DEF OnMoodChanged, OnQuadrantChanged, position
    <2> QED
      BY <2>1, <2>2, <2>3, SettersSet, Zenon DEF EmotionNext
  <1> QED
    BY <1>1, <1>2, EmotionInvariant, PTL DEF EmotionSpec, AxisFollowsCoordinate

\* No two pairs of axis values share a packed mood.
LEMMA UnpackedMood ==
    ASSUME NEW a \in Axis \X Axis
    PROVE  AxesOf(MoodAt(a)) = a
  <1> PICK x, y : x = a[1] /\ y = a[2]
    OBVIOUS
  <1>1. x \in -5 .. 5 /\ y \in -5 .. 5 /\ a = <<x, y>>
    BY GridAssumption DEF Axis
  <1>2. /\ (((x + 5) * 16 + (y + 5)) \div 16) - 5 = x
        /\ (((x + 5) * 16 + (y + 5)) % 16) - 5 = y
    <2> PICK u : u = x + 5
      OBVIOUS
    <2> PICK v : v = y + 5
      OBVIOUS
    <2>1. u \in Nat /\ v \in 0 .. 15 /\ x = u - 5 /\ y = v - 5
      BY <1>1
    <2> PICK m : m = u * 16 + v
      OBVIOUS
    <2>2. m \in Nat /\ 16 \in Nat \ {0} /\ v \in 0 .. 16 - 1 /\ m = 16 * u + v
      BY <2>1
    <2>3. m \div 16 = u /\ m % 16 = v
      BY <2>1, <2>2, DivModUnique
    <2> QED
      BY <2>1, <2>3
  <1> QED
    BY <1>1, <1>2 DEF AxesOf, MoodAt, Pack,
                      PleasantnessOf, EnergyOf

\* Each report to the mood callback starts where the one before ended and ends
\* at the current mood, however callbacks nest, throw and are replaced.
THEOREM ReportsChain == EmotionSpec => MoodReportsChain
  <1> DEFINE Report == Depth' = Depth /\ InvokesMood =>
                         /\ AxesOf(told) = Inner.from
                         /\ AxesOf(told') = axes
  <1>1. EmotionIInv /\ [EmotionNext]_emotionVars => [Report]_emotionVars
    <2> SUFFICES ASSUME EmotionIInv, EmotionNext, Len(calls') = Len(calls),
                        calls # <<>>, calls[Len(calls)].at = "mood",
                        calls'[Len(calls)].at = "inMood"
                 PROVE  /\ AxesOf(told) = calls[Len(calls)].from
                        /\ AxesOf(told') = axes
      BY DEF InvokesMood, Inner, Depth
    <2> DEFINE c == calls[Len(calls)]
    <2>1. /\ calls \in Seq(Call) /\ Len(calls) > 0 /\ c \in Call
          /\ c.to = axes /\ (moodCallback => told = MoodAt(c.from))
      <3>1. calls \in Seq(Call)
        BY DEF EmotionIInv, Snapped, EmotionTypeOK, Call,
               Stage
      <3>2. Len(calls) > 0 /\ Len(calls) \in 1 .. Len(calls)
        BY <3>1
      <3>3. c \in Call
        BY <3>1, <3>2
      <3> QED
        BY <3>1, <3>2, <3>3, ReportsAre DEF EmotionIInv, ReportsOf
    <2>2. ~MayCall
      BY <2>1 DEF MayCall, InCallback, Inner, Depth
    <2>3. InvokeMood
      BY <2>2 DEF EmotionNext, SetPosition, SetPleasantness,
           SetEnergy, Adjust, InvokeQuadrant,
           CallbackReturns, CallbackThrows, MayCall,
           OnMoodChanged, OnQuadrantChanged, Inner,
           Depth
    <2>4. moodCallback /\ told' = MoodAt(c.to)
      <3>1. ~MoveTo("quadrant")
        BY <2>1, InnermostMoves DEF Stage
      <3> QED
        BY <2>3, <3>1 DEF InvokeMood, ToldMood, Inner,
                          Depth
    <2>5. /\ c.from \in Axis \X Axis
          /\ c.to \in Axis \X Axis
      BY <2>1 DEF Call
    <2> HIDE DEF c
    <2> QED
      BY <2>1, <2>4, <2>5, UnpackedMood DEF c
  <1> QED
    BY <1>1, EmotionInvariant, PTL DEF EmotionSpec, MoodReportsChain

-----------------------------------------------------------------------------
(* obz::weighted_set.                                                       *)

\* A finite function to weights.
WeightMap(w) ==
    /\ IsFiniteSet(DOMAIN w) /\ \A v \in DOMAIN w : w[v] \in Weight

TicketCount(w) == Cardinality(Tickets(w))

LEMMA TicketsFinite ==
    ASSUME NEW w, WeightMap(w)
    PROVE  IsFiniteSet(Tickets(w)) /\ TicketCount(w) \in Nat
  <1>1. IsFiniteSet(DOMAIN w) /\ IsFiniteSet(Weight)
    BY MaxWeightAssumption, FS_Interval DEF WeightMap, Weight
  <1>2. IsFiniteSet((DOMAIN w) \X Weight)
    BY <1>1, FS_Product
  <1>3. Tickets(w) \in SUBSET ((DOMAIN w) \X Weight)
    BY DEF Tickets
  <1>4. IsFiniteSet(Tickets(w))
    BY <1>2, <1>3, FS_Subset
  <1> QED
    BY <1>4, FS_CardinalityType DEF TicketCount

\* Without the value v there are as many tickets less as v weighs.
LEMMA TicketsSplit ==
    ASSUME NEW w, NEW f, WeightMap(w), NEW v \in DOMAIN w,
           DOMAIN f = DOMAIN w \ {v}, \A x \in DOMAIN f : f[x] = w[x]
    PROVE  /\ WeightMap(f)
           /\ TicketCount(w) = TicketCount(f) + w[v]
  <1> DEFINE own == {v} \X (1 .. w[v])
  <1>1. w[v] \in Nat /\ 1 .. w[v] \subseteq Weight
    BY MaxWeightAssumption DEF WeightMap, Weight
  <1>2. WeightMap(f)
    <2>1. IsFiniteSet(DOMAIN w \ {v})
      BY FS_RemoveElement DEF WeightMap
    <2> QED
      BY <2>1 DEF WeightMap
  <1>3. IsFiniteSet(own) /\ Cardinality(own) = w[v]
    <2>1. IsFiniteSet({v}) /\ Cardinality({v}) = 1
      BY FS_Singleton
    <2>2. IsFiniteSet(1 .. w[v]) /\ Cardinality(1 .. w[v]) = w[v]
      BY <1>1, FS_Interval
    <2>3. /\ IsFiniteSet(own)
          /\ Cardinality(own) = Cardinality({v}) * Cardinality(1 .. w[v])
      BY <2>1, <2>2, FS_Product
    <2>4. 1 * w[v] = w[v]
      BY <1>1
    <2> HIDE DEF own
    <2> QED
      BY <2>1, <2>2, <2>3, <2>4
  <1>4. Tickets(w) = Tickets(f) \cup own
    <2>1. ASSUME NEW x \in DOMAIN w, NEW k \in Weight
          PROVE  <<x, k>> \in Tickets(w)
                   <=> <<x, k>> \in Tickets(f) \cup own
      <3>1. <<x, k>> \in Tickets(w) <=> k <= w[x]
        BY DEF Tickets
      <3>2. <<x, k>> \in Tickets(f) <=> x # v /\ k <= w[x]
        BY DEF Tickets
      <3>3. <<x, k>> \in own <=> x = v /\ k <= w[x]
        BY MaxWeightAssumption, <1>1 DEF Weight
      <3> QED
        BY <3>1, <3>2, <3>3
    <2>2. /\ Tickets(w) \subseteq (DOMAIN w) \X Weight
          /\ Tickets(f) \subseteq (DOMAIN w) \X Weight
          /\ own \subseteq (DOMAIN w) \X Weight
      BY <1>1 DEF Tickets
    <2> HIDE DEF own
    <2> QED
      BY <2>1, <2>2
  <1>5. Tickets(f) \cap own = {}
    BY DEF Tickets
  <1>6. IsFiniteSet(Tickets(f)) /\ TicketCount(f) \in Nat
    BY <1>2, TicketsFinite
  <1> HIDE DEF own
  <1>7. Cardinality(Tickets(w))
          = Cardinality(Tickets(f)) + Cardinality(own) - 0
    BY <1>3, <1>4, <1>5, <1>6, FS_Union, FS_EmptySet
  <1> QED
    BY <1>1, <1>2, <1>3, <1>6, <1>7 DEF TicketCount

\* A number that fits is not changed by unsigned arithmetic.
LEMMA WrapFits ==
    ASSUME NEW n \in Nat
    PROVE  /\ Wrap(n) \in 0 .. MaxWeight
           /\ n <= MaxWeight => Wrap(n) = n
           /\ n <= MaxWeight => Wrap(n + (MaxWeight + 1)) = n
  <1>1. MaxWeight + 1 \in Nat \ {0} /\ (MaxWeight + 1) - 1 = MaxWeight
    BY MaxWeightAssumption
  <1>2. n % (MaxWeight + 1) \in 0 .. (MaxWeight + 1) - 1
    BY <1>1, DivMod
  <1>3. ASSUME n <= MaxWeight
        PROVE  /\ n % (MaxWeight + 1) = n
               /\ (n + (MaxWeight + 1)) % (MaxWeight + 1) = n
    <2>1. n \in 0 .. (MaxWeight + 1) - 1
      BY <1>1, <1>3
    <2>2. n % (MaxWeight + 1) = n
      BY <1>1, <2>1, FirstRounds
    <2>3. (n + (MaxWeight + 1)) % (MaxWeight + 1) = n % (MaxWeight + 1)
      BY <1>1, NextRoundSameCell
    <2> QED
      BY <2>2, <2>3
  <1> QED
    BY <1>1, <1>2, <1>3 DEF Wrap

\* The remainder of any integer by the size B of the number range.
LEMMA IntDivMod ==
    ASSUME NEW B \in Nat \ {0}, NEW a \in Int
    PROVE  /\ a \div B \in Int
           /\ a % B \in 0 .. B - 1
           /\ a = B * (a \div B) + (a % B)
  BY SMT

LEMMA IntModUnique ==
    ASSUME NEW B \in Nat \ {0}, NEW q \in Int, NEW r \in 0 .. B - 1,
           NEW a \in Int, a = B * q + r
    PROVE  a % B = r
  <1> DEFINE k == a \div B
             s == a % B
  <1>1. k \in Int /\ s \in 0 .. B - 1 /\ a = B * k + s
    BY IntDivMod
  <1> HIDE DEF k, s
  <1>2. PICK m \in Int : m = q - k
    BY <1>1
  <1>3. B * m = s - r
    <2>1. B * m = B * q - B * k
      BY <1>1, <1>2, SMT
    <2>2. B * q \in Int /\ B * k \in Int
      BY <1>1, SMT
    <2> QED
      BY <1>1, <2>1, <2>2
  <1>4. m = 0
    <2>1. m >= 1 => B * m >= B
      BY SMT
    <2>2. m <= -1 => B * m <= -B
      BY SMT
    <2> QED
      BY <1>1, <1>2, <1>3, <2>1, <2>2
  <1>5. s = r
    <2>1. B * m = 0
      BY <1>4
    <2> QED
      BY <1>1, <1>3, <2>1
  <1> QED
    BY <1>5 DEF s

\* A total t beside c tickets with a drift of d: the same number but for whole
\* ranges of the unsigned type, and exactly the same if nothing is missing.
Off(t, c, d) == \E q \in Int : /\ t = c + d + (MaxWeight + 1) * q
                               /\ d >= 0 => q = 0

LEMMA OffMeans ==
    ASSUME NEW t \in 0 .. MaxWeight, NEW c \in Nat, NEW d \in Int
    PROVE  Off(t, c, d) <=> t = Wrap(c + d) /\ (d >= 0 => t = c + d)
  <1>. PICK B : B = MaxWeight + 1
    OBVIOUS
  <1>1. B \in Nat \ {0} /\ t \in 0 .. B - 1 /\ c + d \in Int
    BY MaxWeightAssumption
  <1>2. ASSUME Off(t, c, d)
        PROVE  t = Wrap(c + d) /\ (d >= 0 => t = c + d)
    <2>1. PICK q \in Int : t = c + d + B * q /\ (d >= 0 => q = 0)
      BY <1>2 DEF Off
    <2>2. PICK k, n \in Int : n = c + d /\ n = B * k + t
      <3>1. B * q \in Int /\ B * (-q) = -(B * q) /\ -q \in Int
        BY <1>1, SMT
      <3>2. c + d = B * (-q) + t
        BY <1>1, <2>1, <3>1
      <3> QED
        BY <1>1, <3>1, <3>2
    <2>3. (c + d) % B = t
      <3>1. n % B = t
        BY <1>1, <2>2, IntModUnique
      <3> QED
        BY <2>2, <3>1
    <2>4. q = 0 => t = c + d
      <3>1. B * 0 = 0
        BY <1>1
      <3> QED
        BY <1>1, <2>1, <3>1
    <2> QED
      BY <2>1, <2>3, <2>4 DEF Wrap
  <1>3. ASSUME t = Wrap(c + d), d >= 0 => t = c + d
        PROVE  Off(t, c, d)
    <2>1. CASE d >= 0
      <3>1. B * 0 = 0
        BY <1>1
      <3>2. t = c + d + B * 0
        BY <1>1, <1>3, <2>1, <3>1
      <3> QED
        BY <3>2 DEF Off
    <2>2. CASE ~(d >= 0)
      <3>1. PICK k \in Int : c + d = B * k + t
        <4>1. t = (c + d) % B
          BY <1>3 DEF Wrap
        <4> QED
          BY <1>1, <4>1, IntDivMod
      <3>2. -k \in Int /\ t = c + d + B * (-k)
        <4>1. B * k \in Int /\ B * (-k) = -(B * k)
          BY <1>1, SMT
        <4> QED
          BY <1>1, <3>1, <4>1
      <3> QED
        BY <2>2, <3>2 DEF Off
    <2> QED
      BY <2>1, <2>2
  <1> QED
    BY <1>2, <1>3

\* A total that is set beside c tickets without regard to them.
LEMMA OffBy ==
    ASSUME NEW t \in 0 .. MaxWeight, NEW c \in Nat
    PROVE  Off(t, c, t - c)
  <1>1. (MaxWeight + 1) * 0 = 0 /\ t = c + (t - c) + 0
    BY MaxWeightAssumption
  <1> QED
    BY <1>1 DEF Off

\* Tickets and total grow by the same amount.
LEMMA OffAdd ==
    ASSUME NEW t \in Nat, NEW c \in Nat, NEW d \in Int, Off(t, c, d),
           NEW w \in Nat
    PROVE  Off(t + w, c + w, d)
  <1>1. PICK q \in Int : /\ t = c + d + (MaxWeight + 1) * q
                         /\ d >= 0 => q = 0
    BY DEF Off
  <1>2. (MaxWeight + 1) * q \in Int
    BY MaxWeightAssumption, SMT
  <1>3. t + w = (c + w) + d + (MaxWeight + 1) * q
    BY <1>1, <1>2
  <1> QED
    BY <1>1, <1>3 DEF Off

\* Tickets are taken away, and the total is reduced in unsigned arithmetic.
LEMMA OffSubtract ==
    ASSUME NEW t \in 0 .. MaxWeight, NEW c \in Nat, NEW d \in Int,
           NEW w \in 1 .. MaxWeight, Off(t, c + w, d)
    PROVE  /\ Wrap(t + MaxWeight + 1 - w) \in 0 .. MaxWeight
           /\ Off(Wrap(t + MaxWeight + 1 - w), c, d)
  <1>. PICK B : B = MaxWeight + 1
    OBVIOUS
  <1>. PICK n : n = t + MaxWeight + 1 - w
    OBVIOUS
  <1>1. B \in Nat \ {0} /\ n \in Nat /\ n = t + B - w /\ MaxWeight \in Nat
    BY MaxWeightAssumption
  <1>2. Wrap(n) \in 0 .. MaxWeight
    BY <1>1, WrapFits
  <1>3. PICK q \in Int : t = (c + w) + d + B * q /\ (d >= 0 => q = 0)
    BY DEF Off
  <1>4. CASE d >= 0
    <2>1. B * q = 0 /\ B * 0 = 0
      BY <1>1, <1>3, <1>4
    <2>2. c + d \in Nat /\ c + d <= MaxWeight /\ n = (c + d) + B
      BY <1>1, <1>3, <1>4, <2>1
    <2>3. Wrap(n) = c + d
      BY <2>2, WrapFits
    <2>4. Wrap(n) = c + d + B * 0
      BY <2>1, <2>2, <2>3
    <2> QED
      BY <1>2, <2>4 DEF Off
  <1>5. CASE ~(d >= 0)
    <2>1. PICK k \in Nat : n = B * k + Wrap(n)
      BY <1>1, DivMod DEF Wrap
    <2>2. q + 1 - k \in Int /\ B * (q + 1 - k) = B * q + B - B * k
      BY <1>1, SMT
    <2>3. B * q \in Int /\ B * k \in Int
      BY <1>1, SMT
    <2>4. Wrap(n) = c + d + B * (q + 1 - k)
      BY <1>1, <1>2, <1>3, <2>1, <2>2, <2>3
    <2> QED
      BY <1>2, <1>5, <2>2, <2>4 DEF Off
  <1> QED
    BY <1>4, <1>5

\* What TotalIsSumAndDrift says of an object.
MapOf(o) == WeightMap(weights[o]) /\ DOMAIN weights[o] \subseteq Values
Exact(o) == Off(total[o], TicketCount(weights[o]), drift[o])

Totals ==
    /\ DOMAIN weights = Objects /\ DOMAIN total = Objects
    /\ drift \in [Objects -> Int]
    /\ \A o \in Objects : MapOf(o) /\ Exact(o) /\ total[o] \in 0 .. MaxWeight

LEMMA TotalsAre == TotalIsSumAndDrift <=> Totals
  <1>1. \A o : Range(weights[o]) \subseteq 1 .. MaxWeight
                 <=> \A v \in DOMAIN weights[o] : weights[o][v] \in 1 .. MaxWeight
    BY DEF Range
  <1>2. \A o : MapOf(o) <=> /\ DOMAIN weights[o] \subseteq Values
                            /\ IsFiniteSet(DOMAIN weights[o])
                            /\ Range(weights[o]) \subseteq Weight
    BY <1>1 DEF MapOf, WeightMap, Weight
  <1>3. ASSUME NEW o \in Objects, MapOf(o), total[o] \in 0 .. MaxWeight,
               drift \in [Objects -> Int]
        PROVE  Exact(o) <=> /\ total[o] = Wrap(SumOf(o) + drift[o])
                            /\ drift[o] >= 0 => total[o] = SumOf(o) + drift[o]
    <2>1. SumOf(o) = TicketCount(weights[o])
      BY Zenon DEF SumOf, TicketCount
    <2>2. TicketCount(weights[o]) \in Nat /\ drift[o] \in Int
      BY <1>3, TicketsFinite DEF MapOf
    <2> QED
      BY <1>3, <2>1, <2>2, OffMeans DEF Exact
  <1>4. WeightedTypeOK <=>
          /\ DOMAIN weights = Objects /\ DOMAIN total = Objects
          /\ drift \in [Objects -> Int]
          /\ \A o \in Objects : MapOf(o) /\ total[o] \in 0 .. MaxWeight
    BY <1>2, Zenon DEF WeightedTypeOK
  <1> QED
    BY <1>3, <1>4, Zenon DEF TotalIsSumAndDrift, Totals

\* One object changes, to a map and a total that fit each other and its drift.
LEMMA ObjectChanges ==
    ASSUME TotalIsSumAndDrift, NEW o \in Objects,
           NEW w, NEW t \in 0 .. MaxWeight, Set(o, w, t),
           WeightMap(w), DOMAIN w \subseteq Values,
           NEW d \in Int, drift' = [drift EXCEPT ![o] = d],
           Off(t, TicketCount(w), d)
    PROVE  TotalIsSumAndDrift'
  <1>1. /\ DOMAIN weights = Objects /\ DOMAIN total = Objects
        /\ drift \in [Objects -> Int]
        /\ \A p \in Objects : MapOf(p) /\ Exact(p) /\ total[p] \in 0 .. MaxWeight
    BY TotalsAre DEF Totals
  <1>2. /\ weights' = [weights EXCEPT ![o] = w]
        /\ total' = [total EXCEPT ![o] = t]
    BY DEF Set
  <1>3. ASSUME NEW p \in Objects
        PROVE  MapOf(p)' /\ Exact(p)' /\ total'[p] \in 0 .. MaxWeight
    <2>1. CASE p = o
      <3>1. weights'[p] = w /\ total'[p] = t /\ drift'[p] = d
        BY <1>1, <1>2, <2>1
      <3> QED
        BY <2>1, <3>1 DEF MapOf, Exact, Off, WeightMap, TicketCount, Tickets,
                          Weight
    <2>2. CASE p # o
      <3>1. /\ weights'[p] = weights[p] /\ total'[p] = total[p]
            /\ drift'[p] = drift[p]
        BY <1>1, <1>2, <2>2
      <3> QED
        BY <1>1, <2>2, <3>1 DEF MapOf, Exact, Off, WeightMap, TicketCount,
                                Tickets, Weight
    <2> QED
      BY <2>1, <2>2
  <1>4. /\ DOMAIN weights' = Objects /\ DOMAIN total' = Objects
        /\ drift' \in [Objects -> Int]
    BY <1>1, <1>2
  <1>5. Totals'
    BY <1>3, <1>4 DEF Totals
  <1>6. Totals' => TotalIsSumAndDrift'
    BY TotalsAre, PTL
  <1> QED
    BY <1>5, <1>6

\* So it does when its drift stays what it was.
LEMMA ObjectKeepsDrift ==
    ASSUME TotalIsSumAndDrift, NEW o \in Objects,
           NEW w, NEW t \in 0 .. MaxWeight, Set(o, w, t),
           WeightMap(w), DOMAIN w \subseteq Values,
           UNCHANGED drift, Off(t, TicketCount(w), drift[o])
    PROVE  TotalIsSumAndDrift'
  <1>1. drift \in [Objects -> Int]
    BY TotalsAre DEF Totals
  <1>2. drift[o] \in Int /\ drift' = [drift EXCEPT ![o] = drift[o]]
    BY <1>1
  <1> QED
    BY <1>2, ObjectChanges

\* An empty map has no tickets.
LEMMA EmptyMap == WeightMap(<<>>) /\ TicketCount(<<>>) = 0 /\ DOMAIN <<>> = {}
  <1>1. DOMAIN <<>> = {}
    OBVIOUS
  <1>2. Tickets(<<>>) = {}
    BY <1>1 DEF Tickets
  <1> QED
    BY <1>1, <1>2, FS_EmptySet DEF WeightMap, TicketCount

LEMMA InsertKeepsSum ==
    ASSUME TotalIsSumAndDrift, NEW o \in Objects,
           NEW v \in Values, NEW w \in Weight, Insert(o, v, w)
    PROVE  TotalIsSumAndDrift'
  <1> DEFINE f == [x \in DOMAIN weights[o] \cup {v} |->
                     IF x = v THEN w ELSE weights[o][x]]
  <1>1. /\ v \notin DOMAIN weights[o] /\ w <= MaxWeight - total[o]
        /\ Set(o, f, Wrap(total[o] + w))
        /\ UNCHANGED drift
    BY DEF Insert, Has, Fits
  <1>2. /\ MapOf(o) /\ Exact(o) /\ total[o] \in 0 .. MaxWeight
        /\ drift[o] \in Int /\ TicketCount(weights[o]) \in Nat
    BY TotalsAre, TicketsFinite DEF Totals, MapOf
  <1>3. /\ total[o] + w \in Nat /\ total[o] + w <= MaxWeight
        /\ total[o] + w \in 0 .. MaxWeight
        /\ total[o] \in Nat /\ w \in Nat
    BY MaxWeightAssumption, <1>1, <1>2 DEF Weight
  <1>4. Wrap(total[o] + w) = total[o] + w
    BY <1>3, WrapFits
  <1>5. WeightMap(f) /\ DOMAIN f \subseteq Values
    <2>1. IsFiniteSet(DOMAIN weights[o] \cup {v})
      BY <1>2, FS_AddElement DEF MapOf, WeightMap
    <2> QED
      BY <1>2, <2>1 DEF MapOf, WeightMap
  <1>6. TicketCount(f) = TicketCount(weights[o]) + w
    <2>1. /\ v \in DOMAIN f /\ f[v] = w
          /\ DOMAIN weights[o] = DOMAIN f \ {v}
          /\ \A x \in DOMAIN weights[o] : weights[o][x] = f[x]
      BY <1>1
    <2> HIDE DEF f
    <2> QED
      BY <1>5, <2>1, TicketsSplit
  <1> HIDE DEF f
  <1>7. Off(total[o] + w, TicketCount(f), drift[o])
    BY <1>2, <1>3, <1>6, OffAdd DEF Exact
  <1> QED
    BY <1>1, <1>3, <1>4, <1>5, <1>7, ObjectKeepsDrift

\* The total without a value's weight.
LEMMA RemainingWeight ==
    ASSUME TotalIsSumAndDrift, NEW o \in Objects,
           NEW v \in DOMAIN weights[o], NEW f,
           DOMAIN f = DOMAIN weights[o] \ {v},
           \A x \in DOMAIN f : f[x] = weights[o][x]
    PROVE  LET t == Wrap(total[o] + MaxWeight + 1 - weights[o][v])
           IN  /\ t \in 0 .. MaxWeight
               /\ WeightMap(f) /\ TicketCount(f) \in Nat
               /\ Off(t, TicketCount(f), drift[o])
  <1>1. /\ MapOf(o) /\ Exact(o) /\ total[o] \in 0 .. MaxWeight
        /\ drift[o] \in Int
    BY TotalsAre DEF Totals
  <1>2. /\ WeightMap(f) /\ TicketCount(f) \in Nat
        /\ TicketCount(weights[o]) = TicketCount(f) + weights[o][v]
        /\ weights[o][v] \in 1 .. MaxWeight
    BY <1>1, TicketsSplit, TicketsFinite DEF MapOf, WeightMap, Weight
  <1>3. Off(total[o], TicketCount(f) + weights[o][v], drift[o])
    BY <1>1, <1>2 DEF Exact
  <1> QED
    BY <1>1, <1>2, <1>3, OffSubtract

LEMMA EraseKeepsSum ==
    ASSUME TotalIsSumAndDrift, NEW o \in Objects,
           NEW v \in Values, Erase(o, v)
    PROVE  TotalIsSumAndDrift'
  <1> DEFINE f == [x \in DOMAIN weights[o] \ {v} |-> weights[o][x]]
             t == Wrap(total[o] + MaxWeight + 1 - weights[o][v])
  <1>1. v \in DOMAIN weights[o] /\ Set(o, f, t) /\ UNCHANGED drift
    BY DEF Erase, Has, Restrict
  <1>2. MapOf(o)
    BY TotalsAre DEF Totals
  <1>3. /\ DOMAIN f = DOMAIN weights[o] \ {v} /\ DOMAIN f \subseteq Values
        /\ \A x \in DOMAIN f : f[x] = weights[o][x]
    BY <1>2 DEF MapOf
  <1> HIDE DEF f
  <1>4. /\ t \in 0 .. MaxWeight /\ WeightMap(f)
        /\ Off(t, TicketCount(f), drift[o])
    BY <1>1, <1>3, RemainingWeight
  <1> HIDE DEF t
  <1> QED
    BY <1>1, <1>3, <1>4, ObjectKeepsDrift

LEMMA SetWeightKeepsSum ==
    ASSUME TotalIsSumAndDrift, NEW o \in Objects,
           NEW v \in Values, NEW w \in Weight, SetWeight(o, v, w)
    PROVE  TotalIsSumAndDrift'
  <1> DEFINE rest == [x \in DOMAIN weights[o] \ {v} |-> weights[o][x]]
             f == [weights[o] EXCEPT ![v] = w]
             t == Wrap(total[o] + MaxWeight + 1 - weights[o][v])
  <1>1. /\ v \in DOMAIN weights[o] /\ w <= MaxWeight - t
        /\ Set(o, f, Wrap(t + w))
        /\ UNCHANGED drift
    BY DEF SetWeight, Has
  <1>2. MapOf(o) /\ drift[o] \in Int
    BY TotalsAre DEF Totals
  <1>3. /\ DOMAIN f = DOMAIN weights[o] /\ f[v] = w
        /\ \A x \in DOMAIN f : f[x] \in Weight
        /\ DOMAIN rest = DOMAIN f \ {v}
        /\ \A x \in DOMAIN rest : rest[x] = weights[o][x] /\ rest[x] = f[x]
    BY <1>1, <1>2 DEF MapOf, WeightMap
  <1> HIDE DEF f, rest
  <1>4. /\ t \in 0 .. MaxWeight /\ WeightMap(rest) /\ TicketCount(rest) \in Nat
        /\ Off(t, TicketCount(rest), drift[o])
    BY <1>1, <1>3, RemainingWeight
  <1> HIDE DEF t
  <1>5. WeightMap(f) /\ DOMAIN f \subseteq Values
    BY <1>2, <1>3 DEF MapOf, WeightMap
  <1>6. TicketCount(f) = TicketCount(rest) + w
    BY <1>1, <1>3, <1>5, TicketsSplit
  <1>7. /\ t + w \in Nat /\ t + w <= MaxWeight /\ t + w \in 0 .. MaxWeight
        /\ t \in Nat /\ w \in Nat
    BY MaxWeightAssumption, <1>1, <1>4 DEF Weight
  <1>8. Wrap(t + w) = t + w
    BY <1>7, WrapFits
  <1>9. Off(t + w, TicketCount(f), drift[o])
    BY <1>2, <1>4, <1>6, <1>7, OffAdd
  <1> QED
    BY <1>1, <1>5, <1>7, <1>8, <1>9, ObjectKeepsDrift

LEMMA ClearKeepsSum ==
    ASSUME TotalIsSumAndDrift, NEW o \in Objects,
           ClearAll(o)
    PROVE  TotalIsSumAndDrift'
  <1>1. Set(o, <<>>, 0) /\ drift' = [drift EXCEPT ![o] = 0]
    BY DEF ClearAll
  <1>2. WeightMap(<<>>) /\ TicketCount(<<>>) = 0 /\ DOMAIN <<>> = {}
    BY EmptyMap
  <1>3. 0 \in 0 .. MaxWeight /\ 0 \in Nat /\ 0 - 0 = 0 /\ 0 \in Int
    BY MaxWeightAssumption
  <1>4. Off(0, TicketCount(<<>>), 0)
    BY <1>2, <1>3, OffBy
  <1> QED
    BY <1>1, <1>2, <1>3, <1>4, ObjectChanges

LEMMA CopyKeepsSum ==
    ASSUME TotalIsSumAndDrift, NEW to \in Objects,
           NEW from \in Objects \ {to}, Copy(to, from)
    PROVE  TotalIsSumAndDrift'
  <1>. PICK w : w = weights[from]
    OBVIOUS
  <1>. PICK t : t = total[from]
    OBVIOUS
  <1>. PICK d : d = drift[from]
    OBVIOUS
  <1>1. Set(to, w, t) /\ drift' = [drift EXCEPT ![to] = d]
    BY DEF Copy
  <1>2. /\ WeightMap(w) /\ DOMAIN w \subseteq Values /\ t \in 0 .. MaxWeight
        /\ d \in Int /\ Off(t, TicketCount(w), d)
    BY TotalsAre DEF Totals, MapOf, Exact
  <1> QED
    BY <1>1, <1>2, ObjectChanges

\* A copy assignment that throws leaves a part of the map beside the old total.
LEMMA CopyThrowsKeepsSum ==
    ASSUME TotalIsSumAndDrift, NEW to \in Objects,
           NEW from \in Objects \ {to}, CopyThrows(to, from)
    PROVE  TotalIsSumAndDrift'
  <1>1. PICK copied \in SUBSET DOMAIN weights[from] :
          /\ Set(to, Restrict(weights[from], copied), total[to])
          /\ drift' = [drift EXCEPT ![to] =
               total[to] - Cardinality(Tickets(Restrict(weights[from], copied)))]
    BY Zenon DEF CopyThrows
  <1>. PICK f : f = Restrict(weights[from], copied)
    OBVIOUS
  <1>2. MapOf(from) /\ total[to] \in 0 .. MaxWeight
    BY TotalsAre DEF Totals
  <1>3. /\ DOMAIN f = copied /\ DOMAIN f \subseteq DOMAIN weights[from]
        /\ \A v \in DOMAIN f : f[v] = weights[from][v]
    BY DEF Restrict
  <1>4. WeightMap(f) /\ DOMAIN f \subseteq Values
    <2>1. IsFiniteSet(DOMAIN f)
      BY <1>2, <1>3, FS_Subset DEF MapOf, WeightMap
    <2> QED
      BY <1>2, <1>3, <2>1 DEF MapOf, WeightMap
  <1>5. TicketCount(f) \in Nat
    BY <1>4, TicketsFinite
  <1>6. Off(total[to], TicketCount(f), total[to] - TicketCount(f))
    BY <1>2, <1>5, OffBy
  <1>7. total[to] - TicketCount(f) \in Int
    BY <1>2, <1>5
  <1>8. /\ Set(to, f, total[to])
        /\ drift' = [drift EXCEPT ![to] = total[to] - TicketCount(f)]
    BY <1>1, Zenon DEF TicketCount
  <1> QED
    BY <1>2, <1>4, <1>6, <1>7, <1>8, ObjectChanges

LEMMA MoveKeepsSum ==
    ASSUME TotalIsSumAndDrift, NEW to \in Objects,
           NEW from \in Objects \ {to}, Move(to, from)
    PROVE  TotalIsSumAndDrift'
  <1>1. /\ weights' = [weights EXCEPT ![to] = weights[from], ![from] = <<>>]
        /\ total' = [total EXCEPT ![to] = total[from]]
        /\ drift' = [drift EXCEPT ![to] = drift[from], ![from] = total[from]]
    BY DEF Move
  <1>2. Totals
    BY TotalsAre
  <1>3. total[from] \in 0 .. MaxWeight /\ total[from] \in Int
    BY <1>2 DEF Totals
  <1>4. /\ DOMAIN weights' = Objects /\ DOMAIN total' = Objects
        /\ drift' \in [Objects -> Int]
        /\ weights'[to] = weights[from] /\ weights'[from] = <<>>
        /\ total'[to] = total[from] /\ total'[from] = total[from]
        /\ drift'[to] = drift[from] /\ drift'[from] = total[from]
        /\ \A p \in Objects : p # to /\ p # from =>
             /\ weights'[p] = weights[p] /\ total'[p] = total[p]
             /\ drift'[p] = drift[p]
    BY <1>1, <1>2, <1>3 DEF Totals
  <1>5. ASSUME NEW p \in Objects
        PROVE  MapOf(p)' /\ Exact(p)' /\ total'[p] \in 0 .. MaxWeight
    <2> USE DEF Totals, MapOf, Exact, Off, WeightMap, TicketCount, Tickets,
                Weight
    <2>1. CASE p = to
      BY <1>2, <1>4, <2>1
    <2>2. CASE p = from
      <3>1. WeightMap(<<>>) /\ TicketCount(<<>>) = 0 /\ DOMAIN <<>> = {}
        BY EmptyMap
      <3>2. Off(total[from], 0, total[from])
        <4>1. total[from] - 0 = total[from]
          BY <1>3
        <4>2. Off(total[from], 0, total[from] - 0)
          BY <1>3, OffBy
        <4> QED
          BY <4>1, <4>2
      <3> QED
        BY <1>3, <1>4, <2>2, <3>1, <3>2
    <2>3. CASE p # to /\ p # from
      BY <1>2, <1>4, <2>3
    <2> QED
      BY <2>1, <2>2, <2>3
  <1>6. Totals'
    BY <1>4, <1>5 DEF Totals
  <1>7. Totals' => TotalIsSumAndDrift'
    BY TotalsAre, PTL
  <1> QED
    BY <1>6, <1>7

\* After any sequence of insertions, updates, removals, copies and moves, of
\* which copy assignments may throw, the cached total of every object is the
\* sum of its weights and what a move or a throwing copy left beside it: no
\* other call adds to that, and while nothing is missing none wraps around.
THEOREM TotalDriftsOnlyBehindMoves == WeightedSpec => []TotalIsSumAndDrift
  <1>1. WeightedInit => TotalIsSumAndDrift
    <2> SUFFICES ASSUME WeightedInit PROVE Totals
      BY TotalsAre
    <2>1. WeightMap(<<>>) /\ TicketCount(<<>>) = 0 /\ DOMAIN <<>> = {}
      BY EmptyMap
    <2>2. Off(0, 0, 0)
      <3>1. 0 \in 0 .. MaxWeight /\ 0 \in Nat /\ 0 - 0 = 0
        BY MaxWeightAssumption
      <3> QED
        BY <3>1, OffBy
    <2> QED
      BY MaxWeightAssumption, <2>1, <2>2 DEF WeightedInit, Totals, MapOf, Exact
  <1>2. TotalIsSumAndDrift /\ [WeightedNext]_weightedVars
          => TotalIsSumAndDrift'
    <2> SUFFICES ASSUME TotalIsSumAndDrift, [WeightedNext]_weightedVars
                 PROVE  TotalIsSumAndDrift'
      OBVIOUS
    <2>1. CASE UNCHANGED weightedVars
      BY <2>1 DEF weightedVars, TotalIsSumAndDrift, WeightedTypeOK,
                  SumOf, Tickets, Weight, Wrap,
                  Range
    <2>2. CASE WeightedNext
      BY <2>2, InsertKeepsSum, EraseKeepsSum, SetWeightKeepsSum, ClearKeepsSum,
         CopyKeepsSum, CopyThrowsKeepsSum, MoveKeepsSum, Zenon
         DEF WeightedNext
    <2> QED
      BY <2>1, <2>2
  <1> QED
    BY <1>1, <1>2, PTL DEF WeightedSpec

\* An iteration order of a map, and the tickets of its first k values.
IsOrder(w, walk) ==
    /\ walk \in [1 .. Cardinality(DOMAIN w) -> DOMAIN w]
    /\ \A l, j \in 1 .. Cardinality(DOMAIN w) : l # j => walk[l] # walk[j]
FirstOf(w, walk, k) == [v \in {walk[l] : l \in 1 .. k} |-> w[v]]
Prefix(w, walk, k) == TicketCount(FirstOf(w, walk, k))

LEMMA OrderCovers ==
    ASSUME NEW w, WeightMap(w), NEW walk, IsOrder(w, walk)
    PROVE  /\ Cardinality(DOMAIN w) \in Nat
           /\ \A v \in DOMAIN w :
                \E k \in 1 .. Cardinality(DOMAIN w) : walk[k] = v
  <1>. PICK n : n = Cardinality(DOMAIN w)
    OBVIOUS
  <1>1. IsFiniteSet(DOMAIN w) /\ n \in Nat
    BY FS_CardinalityType DEF WeightMap
  <1>2. Cardinality(1 .. n) = n
    BY <1>1, FS_Interval
  <1>3. walk \in Injection(1 .. n, DOMAIN w)
    BY DEF IsOrder, Injection, IsInjective
  <1>4. walk \in Surjection(1 .. n, DOMAIN w)
    BY <1>1, <1>2, <1>3, FS_Injection
  <1> QED
    BY <1>1, <1>4 DEF Surjection

LEMMA PrefixSums ==
    ASSUME NEW w, WeightMap(w), NEW walk, IsOrder(w, walk),
           NEW n \in Nat, n = Cardinality(DOMAIN w)
    PROVE  /\ \A k \in 0 .. n : Prefix(w, walk, k) \in Nat
           /\ Prefix(w, walk, 0) = 0
           /\ \A k \in 1 .. n : Prefix(w, walk, k)
                                  = Prefix(w, walk, k - 1) + w[walk[k]]
           /\ Prefix(w, walk, n) = TicketCount(w)
           /\ \A j, k \in 0 .. n :
                j <= k => Prefix(w, walk, j) <= Prefix(w, walk, k)
  <1> DEFINE f(k) == FirstOf(w, walk, k)
  <1>1. \A k : /\ \A v : v \in DOMAIN f(k) <=> \E l \in 1 .. k : walk[l] = v
               /\ \A v \in DOMAIN f(k) : f(k)[v] = w[v]
    BY DEF FirstOf
  <1>2. ASSUME NEW k \in 0 .. n
        PROVE  DOMAIN f(k) \subseteq DOMAIN w
    <2>1. \A l \in 1 .. k : l \in 1 .. n
      OBVIOUS
    <2>2. \A l \in 1 .. n : walk[l] \in DOMAIN w
      BY DEF IsOrder
    <2> HIDE DEF f
    <2> QED
      BY <1>1, <2>1, <2>2
  <1> HIDE DEF f
  <1>3. ASSUME NEW k \in 0 .. n
        PROVE  WeightMap(f(k)) /\ TicketCount(f(k)) \in Nat
    <2>1. IsFiniteSet(DOMAIN f(k))
      BY <1>2, FS_Subset DEF WeightMap
    <2>2. WeightMap(f(k))
      BY <1>1, <1>2, <2>1 DEF WeightMap
    <2> QED
      BY <2>2, TicketsFinite
  <1>4. TicketCount(f(0)) = 0
    <2>1. \A v : v \notin DOMAIN f(0)
      <3>1. \A l : l \notin 1 .. 0
        OBVIOUS
      <3> QED
        BY <1>1, <3>1
    <2>2. Tickets(f(0)) = {}
      BY <2>1 DEF Tickets
    <2> QED
      BY <2>2, FS_EmptySet DEF TicketCount
  <1>5. ASSUME NEW k \in 1 .. n
        PROVE  TicketCount(f(k)) = TicketCount(f(k - 1)) + w[walk[k]]
    <2>1. /\ k \in 0 .. n /\ k - 1 \in 0 .. n /\ k \in 1 .. k
          /\ \A l \in 1 .. k - 1 : l \in 1 .. k /\ l # k /\ l \in 1 .. n
          /\ \A l \in 1 .. k : l # k => l \in 1 .. k - 1
      OBVIOUS
    <2>2. walk[k] \in DOMAIN f(k) /\ f(k)[walk[k]] = w[walk[k]]
      BY <1>1, <2>1
    <2>3. \A l \in 1 .. k - 1 : walk[l] # walk[k]
      BY <2>1 DEF IsOrder
    <2>4. DOMAIN f(k - 1) = DOMAIN f(k) \ {walk[k]}
      <3>1. ASSUME NEW v \in DOMAIN f(k - 1)
            PROVE  v \in DOMAIN f(k) /\ v # walk[k]
        BY <1>1, <2>1, <2>3
      <3>2. ASSUME NEW v \in DOMAIN f(k), v # walk[k]
            PROVE  v \in DOMAIN f(k - 1)
        BY <1>1, <2>1, <3>2
      <3> QED
        BY <3>1, <3>2
    <2>5. \A v \in DOMAIN f(k - 1) : f(k - 1)[v] = f(k)[v]
      BY <1>1, <2>4
    <2>6. WeightMap(f(k))
      BY <1>3, <2>1
    <2> QED
      BY <2>2, <2>4, <2>5, <2>6, TicketsSplit
  <1>6. TicketCount(f(n)) = TicketCount(w)
    <2>1. DOMAIN f(n) = DOMAIN w
      <3>1. DOMAIN f(n) \subseteq DOMAIN w
        BY <1>2
      <3>2. \A v \in DOMAIN w : \E k \in 1 .. n : walk[k] = v
        BY OrderCovers
      <3> QED
        BY <1>1, <3>1, <3>2
    <2>2. Tickets(f(n)) = Tickets(w)
      BY <1>1, <2>1 DEF Tickets
    <2> QED
      BY <2>2 DEF TicketCount
  <1>7. ASSUME NEW j \in 0 .. n, NEW k \in 0 .. n, j <= k
        PROVE  TicketCount(f(j)) <= TicketCount(f(k))
    <2>1. \A l \in 1 .. j : l \in 1 .. k
      BY <1>7
    <2>2. DOMAIN f(j) \subseteq DOMAIN f(k)
      BY <1>1, <2>1
    <2>3. \A v \in DOMAIN f(j) : f(j)[v] = f(k)[v]
      BY <1>1, <2>2
    <2>4. Tickets(f(j)) \in SUBSET Tickets(f(k))
      BY <2>2, <2>3 DEF Tickets
    <2>5. IsFiniteSet(Tickets(f(k)))
      BY <1>3, TicketsFinite
    <2> QED
      BY <2>4, <2>5, FS_Subset DEF TicketCount
  <1> QED
    BY <1>3, <1>4, <1>5, <1>6, <1>7 DEF Prefix, f

\* The loop of random() adds up the tickets of the values it has passed: its
\* sum does not wrap around while it fits the largest number.
LEMMA Cumulates ==
    ASSUME NEW o, WeightMap(weights[o]),
           NEW walk, IsOrder(weights[o], walk),
           TicketCount(weights[o]) <= MaxWeight
    PROVE  \A k \in 0 .. Cardinality(DOMAIN weights[o]) :
             Cumulative(o, walk)[k] = Prefix(weights[o], walk, k)
  <1>. PICK w : w = weights[o]
    OBVIOUS
  <1>. PICK n \in Nat : n = Cardinality(DOMAIN w)
    BY OrderCovers
  <1> DEFINE P(k) == Prefix(w, walk, k)
  <1>1. /\ \A k \in 0 .. n : P(k) \in Nat
        /\ P(0) = 0
        /\ \A k \in 1 .. n : P(k) = P(k - 1) + w[walk[k]]
        /\ P(n) = TicketCount(w)
        /\ \A j, k \in 0 .. n : j <= k => P(j) <= P(k)
    BY PrefixSums
  <1>2. Len(walk) = n
    <2>1. DOMAIN walk = 1 .. n /\ walk \in Seq(DOMAIN w)
      BY DEF IsOrder
    <2> QED
      BY <2>1
  <1> DEFINE g == [k \in 0 .. n |-> P(k)]
  <1> HIDE DEF P
  <1>3. ASSUME NEW k \in 1 .. n
        PROVE  P(k) = Wrap(P(k - 1) + w[walk[k]])
    <2>1. k \in 0 .. n /\ n \in 0 .. n /\ k <= n
      OBVIOUS
    <2>2. P(k) \in Nat /\ P(k) <= MaxWeight
      <3>1. P(k) \in Nat /\ P(n) \in Nat /\ P(k) <= P(n) /\ P(n) <= MaxWeight
        BY <1>1, <2>1
      <3> QED
        BY MaxWeightAssumption, <3>1
    <2>3. Wrap(P(k)) = P(k)
      BY <2>2, WrapFits
    <2> QED
      BY <1>1, <2>3
  <1>4. g = [k \in 0 .. n |->
               IF k = 0 THEN 0 ELSE Wrap(g[k - 1] + w[walk[k]])]
    <2>1. ASSUME NEW k \in 0 .. n
          PROVE  P(k) = IF k = 0 THEN 0
                                 ELSE Wrap(g[k - 1] + w[walk[k]])
      <3>1. CASE k = 0
        BY <1>1, <3>1
      <3>2. CASE k # 0
        <4>1. k \in 1 .. n /\ k - 1 \in 0 .. n
          BY <3>2
        <4>2. g[k - 1] = P(k - 1)
          BY <4>1
        <4> QED
          BY <1>3, <3>2, <4>1, <4>2
      <3> QED
        BY <3>1, <3>2
    <2> QED
      BY <2>1
  <1> HIDE DEF g
  <1> DEFINE h == Cumulative(o, walk)
  <1>5. h = [k \in 0 .. n |->
               IF k = 0 THEN 0 ELSE Wrap(h[k - 1] + w[walk[k]])]
    BY <1>2, <1>4, Zenon DEF Cumulative
  <1> HIDE DEF h
  <1>6. /\ h[0] = 0
        /\ \A k \in 1 .. n : h[k] = Wrap(h[k - 1] + w[walk[k]])
    <2>1. 0 \in 0 .. n /\ \A k \in 1 .. n : k \in 0 .. n /\ k # 0
      OBVIOUS
    <2> QED
      BY <1>5, <2>1
  <1> DEFINE T == {k \in Nat : k <= n => h[k] = P(k)}
  <1>7. 0 \in T
    BY <1>1, <1>6
  <1>8. ASSUME NEW k \in Nat, k \in T
        PROVE  k + 1 \in T
    <2> SUFFICES ASSUME k + 1 <= n PROVE h[k + 1] = P(k + 1)
      OBVIOUS
    <2>1. k + 1 \in 1 .. n /\ (k + 1) - 1 = k /\ h[k] = P(k)
      BY <1>8
    <2> HIDE DEF T
    <2> QED
      BY <1>3, <1>6, <2>1
  <1>9. Nat \subseteq T
    <2> HIDE DEF T
    <2> QED
      BY <1>7, <1>8, SetInduction
  <1>10. \A k \in 0 .. n : h[k] = P(k)
    BY <1>9
  <1> QED
    BY <1>10 DEF h, P

\* The value of the first sum above the target is drawn, if there is one.
SumsAbove(o, walk, t) ==
    {j \in 1 .. Cardinality(DOMAIN weights[o]) : t < Prefix(weights[o], walk, j)}

LEMMA SelectsFirst ==
    ASSUME NEW o, WeightMap(weights[o]),
           NEW walk, IsOrder(weights[o], walk),
           TicketCount(weights[o]) <= MaxWeight, NEW t \in Nat
    PROVE  LET hits == SumsAbove(o, walk, t)
           IN  Selected(o, walk, t)
                 = IF hits = {} THEN {} ELSE {walk[Min(hits)]}
  <1>. PICK n \in Nat : n = Cardinality(DOMAIN weights[o])
    BY OrderCovers
  <1> DEFINE hits == SumsAbove(o, walk, t)
  <1>1. Len(walk) = n
    <2>1. DOMAIN walk = 1 .. n /\ walk \in Seq(DOMAIN weights[o])
      BY DEF IsOrder
    <2> QED
      BY <2>1
  <1>2. \A j \in 1 .. n : Cumulative(o, walk)[j] = Prefix(weights[o], walk, j)
    <2>1. \A j \in 0 .. n : Cumulative(o, walk)[j] = Prefix(weights[o], walk, j)
      BY Cumulates
    <2> QED
      BY <2>1
  <1>3. {j \in 1 .. Len(walk) : Reached(t, Cumulative(o, walk)[j])} = hits
    BY <1>1, <1>2 DEF Reached, SumsAbove
  <1> HIDE DEF hits
  <1> QED
    BY <1>3, Zenon DEF Selected, hits

\* The k-th value is drawn by the targets from the sum before it up to its own.
LEMMA Selects ==
    ASSUME NEW o, WeightMap(weights[o]),
           NEW walk, IsOrder(weights[o], walk),
           TicketCount(weights[o]) <= MaxWeight,
           NEW k \in 1 .. Cardinality(DOMAIN weights[o]), NEW t \in Nat
    PROVE  Selected(o, walk, t) = {walk[k]}
             <=> /\ Prefix(weights[o], walk, k - 1) <= t
                 /\ t < Prefix(weights[o], walk, k)
  <1>. PICK w : w = weights[o]
    OBVIOUS
  <1>. PICK n \in Nat : n = Cardinality(DOMAIN w)
    BY OrderCovers
  <1> DEFINE P(j) == Prefix(w, walk, j)
             hits == {j \in 1 .. n : t < P(j)}
  <1>1. /\ \A j \in 0 .. n : P(j) \in Nat
        /\ P(0) = 0
        /\ \A l, j \in 0 .. n : l <= j => P(l) <= P(j)
    BY PrefixSums
  <1>3. Selected(o, walk, t)
          = IF hits = {} THEN {} ELSE {walk[Min(hits)]}
    BY SelectsFirst DEF SumsAbove
  <1> HIDE DEF P
  <1>4. hits # {} => /\ Min(hits) \in hits
                     /\ \A j \in hits : Min(hits) <= j
    <2>1. hits \in SUBSET Nat
      OBVIOUS
    <2> HIDE DEF hits
    <2>2. hits # {} => \E m \in hits : \A j \in hits : m <= j
      BY <2>1, SmallestNumber
    <2> QED
      BY <2>2, Zenon DEF Min
  <1>5. ASSUME NEW l \in 1 .. n, NEW j \in 1 .. n, walk[l] = walk[j]
        PROVE  l = j
    BY <1>5 DEF IsOrder
  <1>6. ASSUME Selected(o, walk, t) = {walk[k]}
        PROVE  P(k - 1) <= t /\ t < P(k)
    <2>1. hits # {} /\ walk[Min(hits)] = walk[k]
      BY <1>3, <1>6
    <2>2. Min(hits) = k
      BY <1>4, <1>5, <2>1
    <2>3. t < P(k) /\ \A j \in hits : k <= j
      BY <1>4, <2>1, <2>2
    <2>4. CASE k = 1
      BY <1>1, <2>3, <2>4
    <2>5. CASE k # 1
      <3>1. k - 1 \in 1 .. n /\ k - 1 \in 0 .. n /\ ~(k <= k - 1)
        BY <2>5
      <3>2. ~(t < P(k - 1)) /\ P(k - 1) \in Nat
        BY <1>1, <2>3, <3>1
      <3> QED
        BY <2>3, <3>2
    <2> QED
      BY <2>4, <2>5
  <1>7. ASSUME P(k - 1) <= t, t < P(k)
        PROVE  Selected(o, walk, t) = {walk[k]}
    <2>1. k \in hits
      BY <1>7
    <2>2. ASSUME NEW j \in hits, j < k
          PROVE  FALSE
      <3>1. j \in 0 .. n /\ k - 1 \in 0 .. n /\ j <= k - 1 /\ t < P(j)
        BY <2>2
      <3>2. P(j) <= P(k - 1) /\ P(j) \in Nat /\ P(k - 1) \in Nat
        BY <1>1, <3>1
      <3> QED
        BY <1>7, <3>1, <3>2
    <2>3. Min(hits) \in hits /\ Min(hits) <= k
      BY <1>4, <2>1
    <2>4. Min(hits) = k
      <3>1. ~(Min(hits) < k) /\ Min(hits) \in Nat /\ k \in Nat
        BY <2>2, <2>3
      <3> QED
        BY <2>3, <3>1
    <2> QED
      BY <1>3, <2>1, <2>4
  <1> QED
    BY <1>6, <1>7 DEF P

\* A target falls off the end exactly if it is not below the sum of all weights.
LEMMA SelectsNone ==
    ASSUME NEW o, WeightMap(weights[o]), DOMAIN weights[o] # {},
           NEW walk, IsOrder(weights[o], walk),
           TicketCount(weights[o]) <= MaxWeight, NEW t \in Nat
    PROVE  Selected(o, walk, t) = {} <=> TicketCount(weights[o]) <= t
  <1>. PICK w : w = weights[o]
    OBVIOUS
  <1>. PICK n \in Nat : n = Cardinality(DOMAIN w)
    BY OrderCovers
  <1> DEFINE P(j) == Prefix(w, walk, j)
             hits == {j \in 1 .. n : t < P(j)}
  <1>1. /\ \A j \in 0 .. n : P(j) \in Nat
        /\ P(n) = TicketCount(w)
        /\ \A l, j \in 0 .. n : l <= j => P(l) <= P(j)
    BY PrefixSums
  <1>2. n \in 1 .. n /\ n \in 0 .. n
    <2>1. PICK v \in DOMAIN w : TRUE
      OBVIOUS
    <2>2. \E k \in 1 .. n : walk[k] = v
      BY OrderCovers
    <2> QED
      BY <2>2
  <1>3. Selected(o, walk, t) = {} <=> hits = {}
    <2>1. hits = SumsAbove(o, walk, t)
      BY DEF SumsAbove
    <2> HIDE DEF hits
    <2>2. Selected(o, walk, t)
            = IF SumsAbove(o, walk, t) = {} THEN {}
                                 ELSE {walk[Min(SumsAbove(o, walk, t))]}
      BY SelectsFirst
    <2> QED
      BY <2>1, <2>2
  <1> HIDE DEF P
  <1>4. ASSUME P(n) <= t, NEW j \in hits
        PROVE  FALSE
    <2>1. j \in 0 .. n /\ j <= n /\ t < P(j)
      OBVIOUS
    <2>2. P(j) <= P(n) /\ P(j) \in Nat /\ P(n) \in Nat
      BY <1>1, <1>2, <2>1
    <2> QED
      BY <1>4, <2>1, <2>2
  <1>5. ASSUME ~(P(n) <= t)
        PROVE  n \in hits
    <2>1. P(n) \in Nat
      BY <1>1, <1>2
    <2> QED
      BY <1>2, <1>5, <2>1
  <1> QED
    BY <1>1, <1>3, <1>4, <1>5

\* random() of any object that is not empty and whose total is not below the sum
\* of its weights, moved-from ones that were filled again included: whatever the
\* iteration order of the map, each value is drawn by as many targets as its
\* weight, and the targets that draw no value (the call throws logic_error) are
\* as many as the total is too large by.
THEOREM RandomDrawsByWeight == WeightedSpec => []RandomIsProportional
  <1>1. TotalIsSumAndDrift => RandomIsProportional
    <2> DEFINE Draws(o, walk, hit) ==
                 Cardinality({t \in 0 .. Wrap(total[o] + MaxWeight) :
                                Selected(o, walk, t) = hit})
    <2> SUFFICES ASSUME TotalIsSumAndDrift, NEW o \in Objects,
                        DOMAIN weights[o] # {}, SumOf(o) <= total[o],
                        NEW walk \in SetToSeqs(DOMAIN weights[o])
                 PROVE  /\ \A v \in DOMAIN weights[o] :
                             Draws(o, walk, {v}) = weights[o][v]
                        /\ Draws(o, walk, {}) = total[o] - SumOf(o)
      BY Zenon DEF RandomIsProportional
    <2>. PICK w : w = weights[o]
      OBVIOUS
    <2>. PICK s : s = TicketCount(w)
      OBVIOUS
    <2>1. /\ WeightMap(w) /\ total[o] \in 0 .. MaxWeight /\ s \in Nat
          /\ s <= total[o] /\ SumOf(o) = s
      <3>1. SumOf(o) = s
        BY Zenon DEF SumOf, TicketCount
      <3> QED
        BY <3>1, TotalsAre, TicketsFinite DEF Totals, MapOf
    <2>2. IsOrder(w, walk)
      BY DEF SetToSeqs, IsOrder
    <2>. PICK n \in Nat : n = Cardinality(DOMAIN w)
      BY <2>1, <2>2, OrderCovers
    <2>3. ASSUME NEW v \in DOMAIN w
          PROVE  \E k \in 1 .. n, a, b \in Nat :
                   /\ walk[k] = v
                   /\ a = Prefix(w, walk, k - 1) /\ b = Prefix(w, walk, k)
                   /\ b = a + w[v] /\ b <= s /\ w[v] \in Nat \ {0}
      <3>1. PICK k \in 1 .. n : walk[k] = v
        BY <2>1, <2>2, OrderCovers
      <3>2. k \in 0 .. n /\ k - 1 \in 0 .. n /\ n \in 0 .. n /\ k <= n
        OBVIOUS
      <3>3. w[v] \in Nat \ {0}
        BY MaxWeightAssumption, <2>1 DEF WeightMap, Weight
      <3> QED
        BY <2>1, <2>2, <3>1, <3>2, <3>3, PrefixSums
    <2>4. s \in Nat \ {0} /\ total[o] \in Nat \ {0}
      <3>1. PICK v \in DOMAIN w : TRUE
        OBVIOUS
      <3>2. PICK a, b \in Nat : b = a + w[v] /\ b <= s /\ w[v] \in Nat \ {0}
        BY <2>3
      <3> QED
        BY MaxWeightAssumption, <2>1, <3>2
    <2>5. Wrap(total[o] + MaxWeight) = total[o] - 1
      <3>1. /\ total[o] - 1 \in Nat /\ total[o] - 1 <= MaxWeight
            /\ total[o] + MaxWeight = (total[o] - 1) + (MaxWeight + 1)
        BY MaxWeightAssumption, <2>1, <2>4
      <3> QED
        BY <3>1, WrapFits
    <2>6. s <= MaxWeight
      BY MaxWeightAssumption, <2>1
    <2>7. ASSUME NEW v \in DOMAIN w
          PROVE  Draws(o, walk, {v}) = w[v]
      <3>1. PICK k \in 1 .. n, a, b \in Nat :
              /\ walk[k] = v
              /\ a = Prefix(w, walk, k - 1) /\ b = Prefix(w, walk, k)
              /\ b = a + w[v] /\ b <= s /\ w[v] \in Nat \ {0}
        BY <2>3
      <3>2. ASSUME NEW t \in Nat
            PROVE  Selected(o, walk, t) = {v} <=> a <= t /\ t < b
        <4>1. WeightMap(weights[o]) /\ TicketCount(weights[o]) <= MaxWeight
          BY <2>1, <2>6
        <4>2. k \in 1 .. Cardinality(DOMAIN weights[o])
          OBVIOUS
        <4>3. Selected(o, walk, t) = {walk[k]}
                <=> /\ Prefix(weights[o], walk, k - 1) <= t
                    /\ t < Prefix(weights[o], walk, k)
          BY <2>2, <4>1, <4>2, Selects
        <4> QED
          BY <3>1, <4>3
      <3>3. {t \in 0 .. total[o] - 1 : Selected(o, walk, t) = {v}} = a .. b - 1
        BY <2>1, <2>4, <3>1, <3>2
      <3>4. Cardinality(a .. b - 1) = w[v]
        <4>1. /\ a \in Int /\ b - 1 \in Int /\ ~(a > b - 1)
              /\ (b - 1) - a + 1 = w[v]
          BY <3>1
        <4>2. Cardinality(a .. b - 1)
                = IF a > b - 1 THEN 0 ELSE (b - 1) - a + 1
          BY <4>1, FS_Interval
        <4> QED
          BY <4>1, <4>2
      <3> QED
        BY <2>5, <3>3, <3>4
    <2>8. Draws(o, walk, {}) = total[o] - s
      <3>1. \A t \in Nat : Selected(o, walk, t) = {} <=> s <= t
        BY <2>1, <2>2, <2>6, SelectsNone
      <3>2. {t \in 0 .. total[o] - 1 : Selected(o, walk, t) = {}}
              = s .. total[o] - 1
        BY <2>4, <3>1
      <3>3. Cardinality(s .. total[o] - 1) = total[o] - s
        <4>1. /\ s \in Int /\ total[o] - 1 \in Int
              /\ s > total[o] - 1 <=> total[o] = s
              /\ (total[o] - 1) - s + 1 = total[o] - s
              /\ total[o] = s => total[o] - s = 0
          BY <2>1, <2>4
        <4>2. Cardinality(s .. total[o] - 1)
                = IF s > total[o] - 1 THEN 0 ELSE (total[o] - 1) - s + 1
          BY <4>1, FS_Interval
        <4> QED
          BY <4>1, <4>2
      <3> QED
        BY <2>5, <3>2, <3>3
    <2> HIDE DEF Draws
    <2> QED
      BY <2>1, <2>7, <2>8
  <1> QED
    BY <1>1, TotalDriftsOnlyBehindMoves, PTL
=============================================================================
