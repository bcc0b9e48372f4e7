---------------------------- MODULE SendBufProofs ----------------------------
(***************************************************************************)
(* The ring buffer never holds more than its capacity, for every capacity  *)
(* and every width of size_t: the room that a push makes is exact also in  *)
(* the states in which wpos has wrapped and rpos has not.  And it is the   *)
(* queue of ByteFifo: the queue read off the cells between the positions   *)
(* changes with every operation as ByteFifo says.                          *)
(***************************************************************************)
EXTENDS SendBuf, SequenceTheorems, TLAPS

\* A buffer without a capacity is empty, and one with data has its capacity.
GateInv ==
  /\ capacity = 0 => wpos = 0 /\ rpos = 0
  /\ data # NoData => capacity = Capacity

IInv == TypeOK /\ NeverOverfull /\ GateInv

-----------------------------------------------------------------------------
\* Both memcpy of a push replace cells by bytes of the payload.
LEMMA CopiedType ==
  ASSUME NEW d \in [0..(Capacity - 1) -> Byte \union {Junk}],
         NEW at \in Int, NEW b \in Seq(Byte)
  PROVE  Copied(d, at, b) \in [0..(Capacity - 1) -> Byte \union {Junk}]
<1> DEFINE cell(i) == IF i \in at..(at + Len(b) - 1) THEN b[i - at + 1] ELSE d[i]
<1>1. ASSUME NEW i \in 0..(Capacity - 1)
      PROVE  cell(i) \in Byte \union {Junk}
  <2>1. CASE i \in at..(at + Len(b) - 1)
    <3>1. i - at + 1 \in 1..Len(b)
      BY <2>1, SizesAssumption
    <3>2. b[i - at + 1] \in Byte
      BY <3>1
    <3>3. QED BY <2>1, <3>2
  <2>2. CASE i \notin at..(at + Len(b) - 1)
    BY <2>2
  <2>3. QED BY <2>1, <2>2
<1>2. QED BY <1>1 DEF Copied

\* The index of a position is a cell, and the two pieces of a push are parts of
\* its payload.
LEMMA WrittenType ==
  ASSUME TypeOK, GateInv, data # NoData, NEW b \in Payloads
  PROVE  Written(b) \in [0..(Capacity - 1) -> Byte \union {Junk}]
<1> DEFINE s == Split(wpos, Len(b))
           first == SubSeq(b, 1, s.first)
           second == SubSeq(b, s.first + 1, Len(b))
<1>1. b \in Seq(Byte) /\ Len(b) \in Nat
  BY SizesAssumption DEF Payloads
<1>2. s.at \in Nat /\ s.first \in 0..Len(b)
  <2>1. capacity \in Nat \ {0} /\ wpos \in Nat
    BY SizesAssumption DEF GateInv, TypeOK
  <2>2. wpos % capacity \in 0..(capacity - 1)
    BY <2>1
  <2>3. QED BY <1>1, <2>1, <2>2 DEF Split
<1>3. first \in Seq(Byte) /\ second \in Seq(Byte)
  BY <1>1, <1>2
<1>4. Written(b) = Copied(Copied(data, s.at, first), 0, second)
  BY DEF Written
<1> HIDE DEF s, first, second
<1>5. Copied(data, s.at, first) \in [0..(Capacity - 1) -> Byte \union {Junk}]
  BY <1>2, <1>3, CopiedType DEF TypeOK
<1>6. Copied(Copied(data, s.at, first), 0, second)
        \in [0..(Capacity - 1) -> Byte \union {Junk}]
  BY <1>3, <1>5, CopiedType
<1>7. QED BY <1>4, <1>6

\* The distance from reader to writer grows and shrinks with their steps, wrapped
\* or not.
LEMMA Distance ==
  ASSUME NEW w \in 0..(SizeMod - 1), NEW r \in 0..(SizeMod - 1),
         NEW m \in Nat, NEW n \in Nat,
         m < SizeMod, n < SizeMod,
         n <= Minus(w, r) + m, Minus(w, r) + m - n < SizeMod
  PROVE  /\ Plus(w, m) \in 0..(SizeMod - 1)
         /\ Plus(r, n) \in 0..(SizeMod - 1)
         /\ Minus(Plus(w, m), Plus(r, n)) = Minus(w, r) + m - n
BY SizesAssumption DEF Plus, Minus

-----------------------------------------------------------------------------
\* The buffer starts empty.
LEMMA InvInit == Init => IInv
BY SizesAssumption DEF Init, IInv, TypeOK, NeverOverfull, GateInv, Used, Minus, NoData

\* A push drops exactly what does not fit.
LEMMA InvPush == ASSUME IInv, NEW b \in Payloads, Push(b) PROVE IInv'
<1>1. CASE data = NoData \/ capacity = 0
  BY <1>1, SizesAssumption DEF IInv, TypeOK, NeverOverfull, GateInv, Used, Minus, Push
<1>2. CASE ~(data = NoData \/ capacity = 0)
  <2> DEFINE len == Len(b)
             drop == Dropped(len)
  <2>1. len \in 1..MaxPayload /\ capacity = Capacity
    BY <1>2 DEF Payloads, IInv, GateInv
  <2>2. Used \in 0..Capacity
    BY <2>1, SizesAssumption DEF IInv, TypeOK, NeverOverfull, Used, Minus
  <2>3. /\ drop \in 0..len
        /\ Used + len - drop <= Capacity
        /\ drop <= Used + len
    BY <2>1, <2>2, SizesAssumption DEF Dropped
  <2>4. /\ wpos' \in 0..(SizeMod - 1)
        /\ rpos' \in 0..(SizeMod - 1)
        /\ Used' = Used + len - drop
    <3>1. wpos' = Plus(wpos, len) /\ rpos' = Plus(rpos, drop)
      BY <1>2 DEF Push
    <3>2. len \in Nat /\ drop \in Nat /\ len < SizeMod /\ drop < SizeMod
      BY <2>1, <2>3, SizesAssumption
    <3>3. wpos \in 0..(SizeMod - 1) /\ rpos \in 0..(SizeMod - 1)
      BY DEF IInv, TypeOK
    <3>4. drop <= Minus(wpos, rpos) + len /\ Minus(wpos, rpos) + len - drop < SizeMod
      BY <2>1, <2>2, <2>3, SizesAssumption DEF Used
    <3> HIDE DEF drop, len
    <3>5. QED BY <3>1, <3>2, <3>3, <3>4, Distance DEF Used
  <2>5. data' \in [0..(Capacity - 1) -> Byte \union {Junk}]
    BY <1>2, WrittenType DEF Push, IInv
  <2>6. capacity' = Capacity /\ lost' = drop
    BY <1>2, <2>1 DEF Push
  <2>7. lost' \in 0..MaxPayload
    BY <2>1, <2>3, <2>6, SizesAssumption
  <2> HIDE DEF drop, len
  <2>8. QED
    BY <2>1, <2>3, <2>4, <2>5, <2>6, <2>7, SizesAssumption
    DEF IInv, TypeOK, NeverOverfull, GateInv
<1>3. QED BY <1>1, <1>2

\* A read takes no more than there is.
LEMMA InvRead == ASSUME IInv, NEW max \in ReadSizes, Read(max) PROVE IInv'
<1> DEFINE n == IF Used < max THEN Used ELSE max
<1>1. CASE data = NoData \/ capacity = 0 \/ n = 0
  BY <1>1, SizesAssumption DEF IInv, TypeOK, NeverOverfull, GateInv, Used, Minus, Read
<1>2. CASE ~(data = NoData \/ capacity = 0 \/ n = 0)
  <2>1. Used \in 0..Capacity /\ max \in Nat /\ capacity = Capacity
    BY <1>2, SizesAssumption DEF IInv, TypeOK, NeverOverfull, GateInv, Used, Minus
  <2>2. n \in 0..Used
    BY <2>1
  <2>3. /\ wpos' = wpos /\ rpos' = Plus(rpos, n)
        /\ UNCHANGED <<data, capacity>> /\ lost' = 0
    BY <1>2 DEF Read
  <2>4. wpos \in 0..(SizeMod - 1) /\ rpos \in 0..(SizeMod - 1)
    BY DEF IInv, TypeOK
  <2>5. n <= Minus(wpos, rpos) /\ n < SizeMod /\ Minus(wpos, rpos) < SizeMod
    BY <2>1, <2>2, SizesAssumption DEF Used
  <2> HIDE DEF n
  <2>6. rpos' \in 0..(SizeMod - 1) /\ Used' = Used - n
    BY <2>1, <2>2, <2>3, <2>4, <2>5, SizesAssumption DEF Used, Plus, Minus
  <2>7. QED
    BY <2>1, <2>2, <2>3, <2>4, <2>6, SizesAssumption DEF IInv, TypeOK, NeverOverfull, GateInv
<1>3. QED BY <1>1, <1>2

\* Init and free leave an empty buffer.
LEMMA InvOpenFree == ASSUME IInv, Open \/ Free PROVE IInv'
BY SizesAssumption
DEF IInv, TypeOK, NeverOverfull, GateInv, Used, Minus, Open, Free, Fresh, NoData

\* Every operation keeps the invariant.
LEMMA InvNext == IInv /\ [Next]_vars => IInv'
<1> SUFFICES ASSUME IInv, [Next]_vars
             PROVE  IInv'
  OBVIOUS
<1>1. CASE UNCHANGED vars
  BY <1>1 DEF vars, IInv, TypeOK, NeverOverfull, GateInv, Used, Minus
<1>2. QED
  BY <1>1, InvOpenFree, InvPush, InvRead DEF Next

\* The invariant holds in every behaviour.
THEOREM Invariant == Spec => []IInv
BY InvInit, InvNext, PTL DEF Spec

\* Positions stay in the range of size_t and every cell holds a byte.
THEOREM TypeCorrect == Spec => []TypeOK
<1>1. IInv => TypeOK
  BY DEF IInv
<1>2. QED BY <1>1, Invariant, PTL

\* The buffer never holds more than its capacity.
THEOREM Bounded == Spec => []NeverOverfull
<1>1. IInv => NeverOverfull
  BY DEF IInv
<1>2. QED BY <1>1, Invariant, PTL

\* No memcpy of a push or of a read leaves the data, at any position, as long as no
\* push is longer than the capacity and one byte.
THEOREM MemorySafe == Spec => []CopiesInside
<1>1. IInv => CopiesInside
  <2> SUFFICES ASSUME IInv, data # NoData
               PROVE  /\ \A n \in 1..MaxPayload : Inside(Split(wpos, n))
                      /\ \A n \in 1..Used : Inside(Split(rpos, n))
    BY DEF CopiesInside
  <2>1. capacity = Capacity /\ Capacity \in Nat \ {0} /\ wpos \in Nat /\ rpos \in Nat
    BY SizesAssumption DEF IInv, GateInv, TypeOK
  <2>2. ASSUME NEW pos \in Nat, NEW n \in 1..(Capacity + 1)
        PROVE  Inside(Split(pos, n))
    <3>1. pos % Capacity \in 0..(Capacity - 1)
      BY <2>1
    <3>2. QED BY <2>1, <3>1 DEF Inside, Split
  <2>3. 1..MaxPayload \subseteq 1..(Capacity + 1) /\ 1..Used \subseteq 1..(Capacity + 1)
    BY <2>1, SizesAssumption DEF IInv, TypeOK, NeverOverfull, Used, Minus
  <2>4. QED BY <2>1, <2>2, <2>3
<1>2. QED BY <1>1, Invariant, PTL

-----------------------------------------------------------------------------
(***************************************************************************)
(* The ring implements the queue.  The remainder by an unknown capacity is *)
(* beyond linear arithmetic, so these lemmas turn the cell of a position   *)
(* into a sum that wraps at the capacity; the rest is linear.              *)
(***************************************************************************)
\* Multiplication by the capacity is strictly monotone.
LEMMA Monotone ==
  ASSUME NEW c \in Nat \ {0}, NEW p \in Int, NEW q \in Int, p >= q + 1
  PROVE  c * p >= c * q + c
<1>1. c * (p - q) >= c /\ c * (p - q) = c * p - c * q
  OBVIOUS
<1>2. c * p \in Int /\ c * q \in Int
  OBVIOUS
<1>3. QED BY <1>1, <1>2

\* Quotient and remainder.
LEMMA DivMod ==
  ASSUME NEW c \in Nat \ {0}, NEW x \in Int
  PROVE  x = c * (x \div c) + (x % c) /\ x % c \in 0..(c - 1) /\ x \div c \in Int
OBVIOUS

\* The remainder is the only one.
LEMMA OneRemainder ==
  ASSUME NEW c \in Nat \ {0}, NEW p \in Int, NEW q \in Int,
         NEW r \in 0..(c - 1), NEW s \in 0..(c - 1), c * p + r = c * q + s
  PROVE  r = s
<1>1. c * p \in Int /\ c * q \in Int
  OBVIOUS
<1>2. CASE p >= q + 1
  BY <1>1, <1>2, Monotone
<1>3. CASE q >= p + 1
  BY <1>1, <1>3, Monotone
<1>4. CASE p = q
  BY <1>1, <1>4
<1>5. QED BY <1>2, <1>3, <1>4

\* Multiples of the capacity leave the cell as it is.
LEMMA Remainder ==
  ASSUME NEW c \in Nat \ {0}, NEW k \in Int, NEW r \in 0..(c - 1)
  PROVE  (c * k + r) % c = r
<1> DEFINE y == c * k + r
<1>1. c * k \in Int /\ y \in Int
  OBVIOUS
<1>2. y = c * (y \div c) + (y % c) /\ y % c \in 0..(c - 1) /\ y \div c \in Int
  BY <1>1, DivMod
<1>3. y = c * k + r
  OBVIOUS
<1> HIDE DEF y
<1>4. y % c = r
  BY <1>2, <1>3, OneRemainder
<1>5. QED BY <1>4 DEF y

\* The cell that is n further than the cell a, for up to two rounds.
Around(a) == IF a < Capacity THEN a
             ELSE IF a < 2 * Capacity THEN a - Capacity ELSE a - 2 * Capacity

\* The cell of a position that has moved, across the end of the data and across the
\* wrap of the positions.
LEMMA CellOfPlus ==
  ASSUME NEW pos \in 0..(SizeMod - 1), NEW n \in Nat, (pos % Capacity) + n < 3 * Capacity
  PROVE  Plus(pos, n) % Capacity = Around((pos % Capacity) + n)
<1> DEFINE q == pos \div Capacity
           a == pos % Capacity
           m == SizeMod \div Capacity
           turns == IF a + n < Capacity THEN 0 ELSE IF a + n < 2 * Capacity THEN 1 ELSE 2
           r == Around(a + n)
<1>1. Capacity \in Nat \ {0} /\ SizeMod \in Nat /\ SizeMod % Capacity = 0 /\ pos \in Int
  BY SizesAssumption
<1>2. pos = Capacity * q + a /\ a \in 0..(Capacity - 1) /\ q \in Int
  BY <1>1, DivMod
<1>3. SizeMod = Capacity * m /\ m \in Int
  <2>1. Capacity \in Nat \ {0} /\ SizeMod \in Int
    BY <1>1
  <2>2. SizeMod = Capacity * m + (SizeMod % Capacity) /\ m \in Int
    BY <2>1, DivMod
  <2> HIDE DEF m
  <2>3. Capacity * m \in Int
    BY <2>1, <2>2
  <2>4. QED BY <1>1, <2>2, <2>3
<1>4. a + n < 3 * Capacity
  OBVIOUS
<1> HIDE DEF q, a, m
<1>5. r \in 0..(Capacity - 1) /\ turns \in Int /\ a + n = Capacity * turns + r
  BY <1>1, <1>2, <1>4 DEF Around
<1> HIDE DEF turns, r
<1>6. q + turns \in Int /\ q + turns - m \in Int
  BY <1>2, <1>3, <1>5
<1>7. /\ Capacity * (q + turns) = Capacity * q + Capacity * turns
      /\ Capacity * (q + turns - m) = Capacity * q + Capacity * turns - Capacity * m
      /\ Capacity * q \in Int /\ Capacity * turns \in Int /\ Capacity * m \in Int
  BY <1>1, <1>2, <1>3, <1>5
<1>8. /\ pos + n = Capacity * (q + turns) + r
      /\ pos + n - SizeMod = Capacity * (q + turns - m) + r
  BY <1>1, <1>2, <1>3, <1>5, <1>7
<1>9. (pos + n) % Capacity = r
  <2>1. (Capacity * (q + turns) + r) % Capacity = r
    BY <1>1, <1>5, <1>6, Remainder
  <2>2. QED BY <1>8, <2>1
<1>10. (pos + n - SizeMod) % Capacity = r
  <2>1. (Capacity * (q + turns - m) + r) % Capacity = r
    BY <1>1, <1>5, <1>6, Remainder
  <2>2. QED BY <1>8, <2>1
<1>11. QED BY <1>9, <1>10 DEF Plus, r, a

-----------------------------------------------------------------------------
\* A buffer without data is empty.
NoDataEmpty == data = NoData => wpos = 0 /\ rpos = 0

\* What the refinement mapping reads off the ring.
Queue == [i \in 1..Used |-> data[Plus(rpos, i - 1) % Capacity]]

\* Data are never mistaken for none.
LEMMA DataThere ==
  ASSUME NEW S, NEW d \in [0..(Capacity - 1) -> S]
  PROVE  d # NoData
<1>1. 0 \in DOMAIN d
  BY SizesAssumption
<1>2. DOMAIN NoData = {}
  BY DEF NoData
<1>3. QED BY <1>1, <1>2

\* Without data the positions are 0.
LEMMA EmptyNext == IInv /\ NoDataEmpty /\ [Next]_vars => NoDataEmpty'
<1> SUFFICES ASSUME IInv, NoDataEmpty, [Next]_vars
             PROVE  NoDataEmpty'
  OBVIOUS
<1>1. CASE Open \/ Free
  BY <1>1 DEF Open, Free, NoDataEmpty
<1>2. ASSUME NEW b \in Payloads, Push(b) PROVE NoDataEmpty'
  <2>1. CASE data = NoData \/ capacity = 0
    BY <1>2, <2>1 DEF Push, NoDataEmpty
  <2>2. CASE ~(data = NoData \/ capacity = 0)
    <3>1. data' = Written(b)
      BY <1>2, <2>2 DEF Push
    <3>2. Written(b) # NoData
      BY <2>2, WrittenType, DataThere DEF IInv
    <3>3. QED BY <3>1, <3>2 DEF NoDataEmpty
  <2>3. QED BY <2>1, <2>2
<1>3. ASSUME NEW max \in ReadSizes, Read(max) PROVE NoDataEmpty'
  BY <1>3 DEF Read, NoDataEmpty
<1>4. CASE UNCHANGED vars
  BY <1>4 DEF vars, NoDataEmpty
<1>5. QED BY <1>1, <1>2, <1>3, <1>4 DEF Next

\* The positions of a buffer with data: the writer is Used further than the reader.
LEMMA Positions ==
  ASSUME IInv, data # NoData
  PROVE  /\ capacity = Capacity /\ Capacity \in Nat \ {0} /\ Used \in 0..Capacity
         /\ rpos \in 0..(SizeMod - 1) /\ wpos \in 0..(SizeMod - 1)
         /\ rpos % Capacity \in 0..(Capacity - 1)
         /\ wpos % Capacity = Around((rpos % Capacity) + Used)
<1>1. /\ capacity = Capacity /\ Capacity \in Nat \ {0} /\ Used \in 0..Capacity
      /\ rpos \in 0..(SizeMod - 1) /\ wpos \in 0..(SizeMod - 1)
  BY SizesAssumption DEF IInv, TypeOK, NeverOverfull, GateInv, Used, Minus
<1>2. rpos % Capacity \in 0..(Capacity - 1)
  BY <1>1
<1>3. wpos = Plus(rpos, Used)
  BY <1>1, SizesAssumption DEF Used, Minus, Plus
<1>4. wpos % Capacity = Around((rpos % Capacity) + Used)
  BY <1>1, <1>2, <1>3, CellOfPlus
<1>5. QED BY <1>1, <1>2, <1>4

\* What is queued, cell by cell.
LEMMA QueueCells ==
  ASSUME IInv, data # NoData
  PROVE  /\ DOMAIN Queue = 1..Used
         /\ \A i \in 1..Used : Queue[i] = data[Around((rpos % Capacity) + (i - 1))]
<1>1. ASSUME NEW i \in 1..Used
      PROVE  Plus(rpos, i - 1) % Capacity = Around((rpos % Capacity) + (i - 1))
  BY Positions, CellOfPlus
<1>2. QED BY <1>1 DEF Queue

\* What a push writes into the cell c.
LEMMA WrittenCell ==
  ASSUME IInv, data # NoData, NEW b \in Payloads, NEW c \in 0..(Capacity - 1)
  PROVE  LET w == wpos % Capacity
         IN Written(b)[c] = IF c < w + Len(b) - Capacity THEN b[Capacity - w + c + 1]
                            ELSE IF w <= c /\ c < w + Len(b) THEN b[c - w + 1]
                            ELSE data[c]
<1> DEFINE w == wpos % Capacity
           s == Split(wpos, Len(b))
           first == SubSeq(b, 1, s.first)
           second == SubSeq(b, s.first + 1, Len(b))
           once == Copied(data, s.at, first)
<1>1. capacity = Capacity /\ Capacity \in Nat \ {0} /\ w \in 0..(Capacity - 1)
  BY Positions DEF IInv, TypeOK
<1>2. b \in Seq(Byte) /\ Len(b) \in Nat \ {0}
  BY SizesAssumption DEF Payloads
<1>3. /\ s.at = w
      /\ s.first = IF Capacity - w >= Len(b) THEN Len(b) ELSE Capacity - w
  BY <1>1 DEF Split
<1> HIDE DEF w
<1>4. s.first \in 0..Len(b) /\ s.first \in Int
  BY <1>1, <1>2, <1>3
<1> HIDE DEF s
<1>5. /\ Len(first) = s.first /\ \A i \in 1..s.first : first[i] = b[i]
      /\ Len(second) = Len(b) - s.first
      /\ \A i \in 1..(Len(b) - s.first) : second[i] = b[s.first + i]
  BY <1>2, <1>4
<1>6. DOMAIN data = 0..(Capacity - 1)
  BY DEF IInv, TypeOK
<1> HIDE DEF first, second
<1>7. /\ DOMAIN once = 0..(Capacity - 1)
      /\ once[c] = IF c \in w..(w + s.first - 1) THEN first[c - w + 1] ELSE data[c]
  BY <1>3, <1>5, <1>6 DEF Copied
<1>8. Written(b) = Copied(once, 0, second)
  BY DEF Written, once, first, second, s
<1> HIDE DEF once
<1>9. Written(b)[c] = IF c \in 0..(Len(b) - s.first - 1) THEN second[c + 1] ELSE once[c]
  <2>1. Copied(once, 0, second)[c] =
          IF c \in 0..(0 + Len(second) - 1) THEN second[c - 0 + 1] ELSE once[c]
    BY <1>7 DEF Copied
  <2>2. 0 + Len(second) - 1 = Len(b) - s.first - 1 /\ c - 0 + 1 = c + 1
    BY <1>2, <1>4, <1>5
  <2>3. QED BY <1>8, <2>1, <2>2
<1>10. CASE c < w + Len(b) - Capacity
  <2>1. s.first = Capacity - w /\ c \in 0..(Len(b) - s.first - 1)
    BY <1>1, <1>2, <1>3, <1>10
  <2>2. c + 1 \in 1..(Len(b) - s.first) /\ s.first + (c + 1) = Capacity - w + c + 1
    BY <1>1, <1>2, <2>1
  <2>3. Written(b)[c] = b[Capacity - w + c + 1]
    BY <1>5, <1>9, <2>1, <2>2
  <2>4. QED BY <1>10, <2>3 DEF w
<1>11. CASE ~(c < w + Len(b) - Capacity) /\ w <= c /\ c < w + Len(b)
  <2>1. c \notin 0..(Len(b) - s.first - 1) /\ c \in w..(w + s.first - 1)
    BY <1>1, <1>2, <1>3, <1>11
  <2>2. c - w + 1 \in 1..s.first
    BY <1>1, <1>4, <2>1
  <2>3. Written(b)[c] = b[c - w + 1]
    BY <1>5, <1>7, <1>9, <2>1, <2>2
  <2>4. QED BY <1>11, <2>3 DEF w
<1>12. CASE ~(c < w + Len(b) - Capacity) /\ ~(w <= c /\ c < w + Len(b))
  <2>1. c \notin 0..(Len(b) - s.first - 1) /\ c \notin w..(w + s.first - 1)
    BY <1>1, <1>2, <1>3, <1>12
  <2>2. Written(b)[c] = data[c]
    BY <1>7, <1>9, <2>1
  <2>3. QED BY <1>12, <2>2 DEF w
<1>13. QED BY <1>10, <1>11, <1>12

\* After a push the newest Capacity bytes of queue and payload are in their cells.
LEMMA PushedCell ==
  ASSUME IInv, data # NoData, NEW b \in Payloads,
         NEW k \in Nat, k < Used + Len(b), k >= Used + Len(b) - Capacity
  PROVE  LET c == Around((rpos % Capacity) + k)
         IN Written(b)[c] = IF k < Used THEN data[c] ELSE b[k - Used + 1]
<1> DEFINE a == rpos % Capacity
           w == wpos % Capacity
           u == Used
           len == Len(b)
           c == Around(a + k)
<1>1. /\ Capacity \in Nat \ {0} /\ u \in 0..Capacity /\ a \in 0..(Capacity - 1)
      /\ w = Around(a + u) /\ len \in 1..(Capacity + 1)
  <2>1. len \in 1..(Capacity + 1)
    BY SizesAssumption DEF Payloads
  <2>2. QED BY <2>1, Positions
<1>2. k < u + len /\ k >= u + len - Capacity
  OBVIOUS
<1> HIDE DEF a, w, u, len
<1>3. c \in 0..(Capacity - 1) /\ w \in 0..(Capacity - 1)
  BY <1>1, <1>2 DEF Around
<1>4. Written(b)[c] = IF c < w + len - Capacity THEN b[Capacity - w + c + 1]
                      ELSE IF w <= c /\ c < w + len THEN b[c - w + 1]
                      ELSE data[c]
  BY <1>3, WrittenCell DEF w, len
<1>5. CASE k < u
  <2>1. ~(c < w + len - Capacity) /\ ~(w <= c /\ c < w + len)
    BY <1>1, <1>2, <1>3, <1>5 DEF Around
  <2>2. QED BY <1>4, <1>5, <2>1 DEF a, u
<1>6. CASE k >= u
  <2>1. IF c < w + len - Capacity THEN Capacity - w + c + 1 = k - u + 1
        ELSE w <= c /\ c < w + len /\ c - w + 1 = k - u + 1
    BY <1>1, <1>2, <1>3, <1>6 DEF Around
  <2>2. Written(b)[c] = b[k - u + 1]
    BY <1>4, <2>1
  <2>3. QED BY <1>1, <1>6, <2>2 DEF a, u
<1>7. QED BY <1>1, <1>5, <1>6


-----------------------------------------------------------------------------
\* A part of a sequence, as a function.
LEMMA PartOf ==
  ASSUME NEW S, NEW s \in Seq(S), NEW m \in 1..(Len(s) + 1), NEW n \in 0..Len(s), n >= m - 1
  PROVE  SubSeq(s, m, n) = [i \in 1..(n - m + 1) |-> s[m + i - 1]]
<1> DEFINE part == SubSeq(s, m, n)
           f == [i \in 1..(n - m + 1) |-> s[m + i - 1]]
<1>1. m \in Int /\ n \in Int /\ n - m + 1 \in Nat
  OBVIOUS
<1>2. \A i \in 1..(n - m + 1) : s[m + i - 1] \in S
  OBVIOUS
<1>3. f \in Seq(S) /\ Len(f) = n - m + 1
  BY <1>1, <1>2
<1>4. part \in Seq(S) /\ Len(part) = n - m + 1
  BY <1>1
<1>5. \A i \in 1..(n - m + 1) : part[i] = s[m + i - 1] /\ f[i] = s[m + i - 1]
  BY <1>1
<1> HIDE DEF part, f
<1>6. part = f
  BY <1>3, <1>4, <1>5, SeqEqual
<1>7. QED BY <1>6 DEF part, f

\* The queue is one of cells.
LEMMA QueueIsSeq ==
  ASSUME IInv, data # NoData
  PROVE  Queue \in Seq(Byte \union {Junk}) /\ Len(Queue) = Used
<1>1. ASSUME NEW i \in 1..Used
      PROVE  data[Plus(rpos, i - 1) % Capacity] \in Byte \union {Junk}
  <2>1. Plus(rpos, i - 1) \in Int
    BY Positions, SizesAssumption DEF Plus
  <2>2. Plus(rpos, i - 1) % Capacity \in 0..(Capacity - 1)
    BY <2>1, DivMod, SizesAssumption
  <2>3. QED BY <2>2 DEF IInv, TypeOK
<1>2. Used \in Nat
  BY Positions
<1>3. QED BY <1>1, <1>2 DEF Queue


\* A push appends, and the oldest bytes go: the two copies and the step of the reader's
\* position do to the queue what ByteFifo says.
LEMMA QueuePush ==
  ASSUME IInv, data # NoData, NEW b \in Payloads, Push(b)
  PROVE  LET all == Queue \o b
             excess == IF Len(all) > Capacity THEN Len(all) - Capacity ELSE 0
         IN lost' = excess /\ Queue' = SubSeq(all, excess + 1, Len(all)) /\ data' # NoData
<1> DEFINE all == Queue \o b
           a == rpos % Capacity
           u == Used
           len == Len(b)
           d == Dropped(len)
           S == Byte \union {Junk}
<1>1. /\ capacity = Capacity /\ Capacity \in Nat \ {0} /\ u \in 0..Capacity
      /\ a \in 0..(Capacity - 1) /\ rpos \in 0..(SizeMod - 1)
  BY Positions
<1>2. /\ lost' = d /\ data' = Written(b) /\ rpos' = Plus(rpos, d) /\ wpos' = Plus(wpos, len)
  BY <1>1 DEF Push
<1>3. len \in 1..(Capacity + 1) /\ len \in 1..MaxPayload /\ b \in Seq(S)
  BY SizesAssumption DEF Payloads
<1>4. Queue \in Seq(S) /\ Len(Queue) = u
  BY QueueIsSeq
<1>5. /\ all \in Seq(S) /\ Len(all) = u + len
      /\ \A i \in 1..u : all[i] = Queue[i]
      /\ \A i \in (u + 1)..(u + len) : all[i] = b[i - u]
  BY <1>1, <1>3, <1>4
<1>6. /\ d = IF u + len > Capacity THEN u + len - Capacity ELSE 0
      /\ d \in 0..(Capacity + 1) /\ d <= u + len
  BY <1>1, <1>3 DEF Dropped
<1>7. Written(b) # NoData
  BY WrittenType, DataThere DEF IInv
<1>8. rpos' \in 0..(SizeMod - 1) /\ Used' = u + len - d
  <2>1. wpos \in 0..(SizeMod - 1)
    BY Positions
  <2>2. len \in Nat /\ d \in Nat /\ len < SizeMod /\ d < SizeMod
    BY <1>1, <1>3, <1>6, SizesAssumption
  <2>3. d <= Minus(wpos, rpos) + len /\ Minus(wpos, rpos) + len - d < SizeMod
    <3>1. u = Minus(wpos, rpos)
      BY DEF Used
    <3>2. Capacity < SizeMod /\ SizeMod \in Nat
      BY <1>1, SizesAssumption
    <3> HIDE DEF d, len, u
    <3>3. QED BY <1>1, <1>3, <1>6, <3>1, <3>2
  <2> HIDE DEF d, len
  <2>4. QED BY <1>1, <1>2, <2>1, <2>2, <2>3, Distance DEF Used, u
<1> HIDE DEF a, u, len, d, all
<1>9. rpos' % Capacity = Around(a + d)
  BY <1>1, <1>2, <1>6, CellOfPlus DEF a
<1>10. ASSUME NEW i \in 1..(u + len - d)
       PROVE  data'[Plus(rpos', i - 1) % Capacity] = all[d + i]
  <2>1. Plus(rpos', i - 1) % Capacity = Around(Around(a + d) + (i - 1))
    <3>1. Around(a + d) + (i - 1) < 3 * Capacity
      BY <1>1, <1>3, <1>6, <1>10 DEF Around
    <3>2. i - 1 \in Nat
      BY <1>1, <1>3, <1>6, <1>10
    <3>3. QED BY <1>8, <1>9, <3>1, <3>2, CellOfPlus
  <2>2. Around(Around(a + d) + (i - 1)) = Around(a + (d + i - 1))
    BY <1>1, <1>3, <1>6, <1>10 DEF Around
  <2> DEFINE k == d + i - 1
  <2>3. k \in Nat /\ k < u + len /\ k >= u + len - Capacity
    BY <1>1, <1>3, <1>6, <1>10
  <2>4. d + i = k + 1 /\ (d + i) - 1 = k
    BY <1>6, <1>10
  <2> HIDE DEF k
  <2>5. Written(b)[Around(a + k)] = IF k < u THEN data[Around(a + k)] ELSE b[k - u + 1]
    BY <2>3, PushedCell DEF a, u, len
  <2>6. data'[Plus(rpos', i - 1) % Capacity] = Written(b)[Around(a + k)]
    BY <1>2, <2>1, <2>2 DEF k
  <2>7. CASE k < u
    <3>1. d + i \in 1..u
      BY <1>1, <2>3, <2>4, <2>7
    <3>2. Queue[d + i] = data[Around(a + ((d + i) - 1))]
      BY <3>1, QueueCells DEF a, u
    <3>3. QED BY <1>5, <2>4, <2>5, <2>6, <2>7, <3>1, <3>2
  <2>8. CASE ~(k < u)
    <3> DEFINE e == d + i
    <3>1. e \in (u + 1)..(u + len) /\ k - u + 1 = e - u
      BY <1>1, <1>3, <1>6, <1>10, <2>3, <2>4, <2>8
    <3> HIDE DEF e
    <3>2. all[e] = b[e - u]
      BY <1>5, <3>1
    <3>3. QED BY <2>5, <2>6, <2>8, <3>1, <3>2 DEF e
  <2>9. QED BY <2>7, <2>8
<1>11. SubSeq(all, d + 1, u + len) = [i \in 1..(u + len - d) |-> all[d + i]]
  <2> DEFINE m == d + 1
             e == u + len
  <2>1. m \in 1..(Len(all) + 1) /\ e \in 0..Len(all) /\ e >= m - 1
    BY <1>1, <1>3, <1>5, <1>6
  <2>2. e - m + 1 = u + len - d /\ \A i \in 1..(u + len - d) : m + i - 1 = d + i
    BY <1>1, <1>3, <1>6
  <2> HIDE DEF m, e
  <2>3. SubSeq(all, m, e) = [i \in 1..(e - m + 1) |-> all[m + i - 1]]
    BY <1>5, <2>1, PartOf
  <2>4. SubSeq(all, m, e) = [i \in 1..(u + len - d) |-> all[d + i]]
    BY <2>2, <2>3
  <2>5. QED BY <2>4 DEF m, e
<1>12. Queue' = SubSeq(all, d + 1, u + len)
  <2>1. Queue' = [i \in 1..(u + len - d) |-> data'[Plus(rpos', i - 1) % Capacity]]
    BY <1>8 DEF Queue
  <2>2. QED BY <1>10, <1>11, <2>1
<1>13. d = IF Len(all) > Capacity THEN Len(all) - Capacity ELSE 0
  BY <1>1, <1>3, <1>5, <1>6
<1>14. lost' = d /\ Queue' = SubSeq(all, d + 1, Len(all)) /\ data' # NoData
  BY <1>2, <1>5, <1>7, <1>12
<1>15. QED BY <1>13, <1>14 DEF all

\* A read takes the oldest bytes, and leaves the others as they are.
LEMMA QueueRead ==
  ASSUME IInv, data # NoData, NEW max \in ReadSizes, Read(max)
  PROVE  LET n == IF Len(Queue) < max THEN Len(Queue) ELSE max
         IN got' = SubSeq(Queue, 1, n) /\ Queue' = SubSeq(Queue, n + 1, Len(Queue))
<1> DEFINE a == rpos % Capacity
           u == Used
           n == IF u < max THEN u ELSE max
           S == Byte \union {Junk}
<1>1. /\ capacity = Capacity /\ Capacity \in Nat \ {0} /\ u \in 0..Capacity
      /\ a \in 0..(Capacity - 1) /\ rpos \in 0..(SizeMod - 1) /\ wpos \in 0..(SizeMod - 1)
  BY Positions
<1>2. max \in Nat /\ n \in 0..u
  BY <1>1, SizesAssumption
<1>3. Queue \in Seq(S) /\ Len(Queue) = u
  BY QueueIsSeq
<1>4. \A i \in 1..u : Queue[i] = data[Around(a + (i - 1))]
  BY QueueCells
<1>5. /\ got' = IF n = 0 THEN <<>> ELSE Taken(n)
      /\ rpos' = IF n = 0 THEN rpos ELSE Plus(rpos, n)
      /\ data' = data /\ wpos' = wpos
  BY <1>1 DEF Read
<1> HIDE DEF a, u, n
<1>6. SubSeq(Queue, 1, n) = [i \in 1..n |-> Queue[i]]
  <2>1. 1 \in 1..(Len(Queue) + 1) /\ n \in 0..Len(Queue) /\ n >= 1 - 1
    BY <1>1, <1>2, <1>3
  <2>2. SubSeq(Queue, 1, n) = [i \in 1..(n - 1 + 1) |-> Queue[1 + i - 1]]
    BY <1>3, <2>1, PartOf
  <2>3. n - 1 + 1 = n /\ \A i \in 1..n : 1 + i - 1 = i
    BY <1>2
  <2>4. QED BY <2>2, <2>3
<1>7. got' = SubSeq(Queue, 1, n)
  <2>1. CASE n = 0
    BY <1>3, <1>5, <2>1
  <2>2. CASE n # 0
    <3>1. Taken(n) = [i \in 1..n |-> Queue[i]]
      <4>1. ASSUME NEW i \in 1..n
            PROVE  (IF i <= Split(rpos, n).first THEN Split(rpos, n).at + i - 1
                    ELSE i - Split(rpos, n).first - 1) = Around(a + (i - 1))
        BY <1>1, <1>2, <4>1 DEF Split, Around, a
      <4>2. \A i \in 1..n : i \in 1..u
        BY <1>1, <1>2
      <4>3. QED BY <1>4, <4>1, <4>2 DEF Taken
    <3>2. QED BY <1>5, <1>6, <2>2, <3>1
  <2>3. QED BY <2>1, <2>2
<1>8. rpos' \in 0..(SizeMod - 1) /\ Used' = u - n /\ rpos' % Capacity = Around(a + n)
  <2>1. rpos' = Plus(rpos, n)
    <3>1. Plus(rpos, 0) = rpos
      BY <1>1, SizesAssumption DEF Plus
    <3>2. QED BY <1>5, <3>1
  <2>2. rpos' \in 0..(SizeMod - 1) /\ Used' = u - n
    BY <1>1, <1>2, <1>5, <2>1, SizesAssumption DEF Used, Plus, Minus, u
  <2>3. rpos' % Capacity = Around(a + n)
    BY <1>1, <1>2, <2>1, CellOfPlus DEF a
  <2>4. QED BY <2>2, <2>3
<1>9. ASSUME NEW i \in 1..(u - n)
      PROVE  data'[Plus(rpos', i - 1) % Capacity] = Queue[n + i]
  <2>1. Plus(rpos', i - 1) % Capacity = Around(Around(a + n) + (i - 1))
    <3>1. Around(a + n) + (i - 1) < 3 * Capacity /\ i - 1 \in Nat
      BY <1>1, <1>2, <1>9 DEF Around
    <3>2. QED BY <1>8, <3>1, CellOfPlus
  <2>2. Around(Around(a + n) + (i - 1)) = Around(a + (n + i - 1))
    BY <1>1, <1>2, <1>9 DEF Around
  <2>3. n + i \in 1..u /\ (n + i) - 1 = n + i - 1
    BY <1>1, <1>2, <1>9
  <2>4. Queue[n + i] = data[Around(a + ((n + i) - 1))]
    BY <1>4, <2>3
  <2>5. QED BY <1>5, <2>1, <2>2, <2>3, <2>4
<1>10. SubSeq(Queue, n + 1, u) = [i \in 1..(u - n) |-> Queue[n + i]]
  <2>1. n + 1 \in 1..(Len(Queue) + 1) /\ u \in 0..Len(Queue) /\ u >= (n + 1) - 1
    BY <1>1, <1>2, <1>3
  <2>2. SubSeq(Queue, n + 1, u) = [i \in 1..(u - (n + 1) + 1) |-> Queue[(n + 1) + i - 1]]
    BY <1>3, <2>1, PartOf
  <2>3. u - (n + 1) + 1 = u - n /\ \A i \in 1..(u - n) : (n + 1) + i - 1 = n + i
    BY <1>1, <1>2
  <2>4. QED BY <2>2, <2>3
<1>11. Queue' = SubSeq(Queue, n + 1, u)
  <2>1. Queue' = [i \in 1..(u - n) |-> data'[Plus(rpos', i - 1) % Capacity]]
    BY <1>8 DEF Queue
  <2>2. QED BY <1>9, <1>10, <2>1
<1>12. QED BY <1>3, <1>7, <1>11 DEF n, u


-----------------------------------------------------------------------------
\* An empty buffer is an empty queue.
LEMMA QueueEmpty == ASSUME wpos = 0, rpos = 0 PROVE Used = 0 /\ Queue = <<>>
<1>1. Used = 0
  BY DEF Used, Minus
<1>2. QED BY <1>1 DEF Queue

\* The empty ring is the queue before it is ready.
LEMMA InitImplements == Init => Fifo!Init
<1> SUFFICES ASSUME Init
             PROVE  Fifo!Init
  OBVIOUS
<1>1. Queue = <<>>
  BY QueueEmpty DEF Init
<1>2. QED BY <1>1 DEF Init, Fifo!Init, Queue

\* init makes an empty queue; without memory it leaves one that is not ready.
LEMMA OpenImplements ==
  ASSUME IInv, NoDataEmpty, Open
  PROVE  Fifo!Open \/ Fifo!Free
<1>1. /\ data = NoData /\ lost' = 0 /\ got' = <<>> /\ wpos' = 0 /\ rpos' = 0
      /\ wpos = 0 /\ rpos = 0
  BY DEF Open, NoDataEmpty
<1>2. Queue = <<>>
  BY <1>1, QueueEmpty
<1>3. Queue' = <<>>
  <2>1. Used' = 0
    BY <1>1 DEF Used, Minus
  <2>2. QED BY <2>1 DEF Queue
<1>4. CASE data' # NoData
  BY <1>1, <1>3, <1>4 DEF Fifo!Open, Queue
<1>5. CASE data' = NoData
  BY <1>1, <1>3, <1>5 DEF Fifo!Free, Queue
<1>6. QED BY <1>4, <1>5


\* So does free.
LEMMA FreeImplements == ASSUME Free PROVE Fifo!Free
<1>1. data' = NoData /\ wpos' = 0 /\ rpos' = 0 /\ lost' = 0 /\ got' = <<>>
  BY DEF Free
<1>2. Used' = 0
  BY <1>1 DEF Used, Minus
<1>3. Queue' = <<>>
  BY <1>2 DEF Queue
<1>4. QED BY <1>1, <1>3 DEF Fifo!Free, Queue

\* A push into the ring is one into the queue.
LEMMA PushImplements ==
  ASSUME IInv, NoDataEmpty, NEW b \in Payloads, Push(b)
  PROVE  Fifo!Push(b)
<1>1. got' = <<>>
  BY DEF Push
<1>2. CASE data = NoData
  <2>1. data' = NoData /\ lost' = 0 /\ wpos' = wpos /\ rpos' = rpos /\ wpos = 0 /\ rpos = 0
    BY <1>2 DEF Push, NoDataEmpty
  <2>2. Queue = <<>>
    BY <2>1, QueueEmpty
  <2>3. Queue' = <<>>
    <3>1. Used' = 0
      BY <2>1 DEF Used, Minus
    <3>2. QED BY <3>1 DEF Queue
  <2>4. (data' # NoData) = (data # NoData)
    BY <1>2, <2>1
  <2>5. QED BY <1>1, <1>2, <2>1, <2>2, <2>3, <2>4 DEF Fifo!Push, Queue
<1>3. CASE data # NoData
  <2> DEFINE all == Queue \o b
             excess == IF Len(all) > Capacity THEN Len(all) - Capacity ELSE 0
  <2>1. lost' = excess /\ Queue' = SubSeq(all, excess + 1, Len(all)) /\ data' # NoData
    BY <1>3, QueuePush
  <2>2. (data' # NoData) = (data # NoData)
    BY <1>3, <2>1
  <2>3. QED BY <1>1, <1>3, <2>1, <2>2 DEF Fifo!Push, Queue
<1>4. QED BY <1>2, <1>3

\* A read from the ring is one from the queue.
LEMMA ReadImplements ==
  ASSUME IInv, NoDataEmpty, NEW max \in ReadSizes, Read(max)
  PROVE  Fifo!Read(max)
<1> DEFINE n == IF Len(Queue) < max THEN Len(Queue) ELSE max
<1>1. lost' = 0 /\ data' = data
  BY DEF Read
<1>2. got' = SubSeq(Queue, 1, n) /\ Queue' = SubSeq(Queue, n + 1, Len(Queue))
  <2>1. CASE data = NoData
    <3>1. UNCHANGED <<wpos, rpos>> /\ wpos = 0 /\ rpos = 0 /\ got' = <<>>
      BY <2>1 DEF Read, NoDataEmpty
    <3>2. Queue = <<>>
      BY <3>1, QueueEmpty
    <3>3. Queue' = <<>>
      <4>1. Used' = 0
        BY <3>1 DEF Used, Minus
      <4>2. QED BY <4>1 DEF Queue
    <3>4. Len(Queue) = 0 /\ n = 0
      BY <3>2, SizesAssumption
    <3>5. SubSeq(Queue, 1, 0) = <<>>
      BY <3>2
    <3>6. QED BY <3>1, <3>2, <3>3, <3>4, <3>5
  <2>2. CASE data # NoData
    BY <2>2, QueueRead
  <2>3. QED BY <2>1, <2>2
<1>3. (data' # NoData) = (data # NoData)
  BY <1>1
<1>4. QED BY <1>1, <1>2, <1>3 DEF Fifo!Read, Queue

\* Steps that leave the ring alone leave the queue alone.
LEMMA StutterImplements == ASSUME UNCHANGED vars PROVE UNCHANGED Fifo!vars
BY DEF vars, Fifo!vars, Used, Minus, Plus

\* Every operation of the ring is one of the queue.
LEMMA StepImplements ==
  IInv /\ NoDataEmpty /\ [Next]_vars => [Fifo!Next]_(Fifo!vars)
<1> SUFFICES ASSUME IInv, NoDataEmpty, [Next]_vars
             PROVE  [Fifo!Next]_(Fifo!vars)
  OBVIOUS
<1>1. CASE Open
  BY <1>1, OpenImplements DEF Fifo!Next
<1>2. CASE Free
  BY <1>2, FreeImplements DEF Fifo!Next
<1>3. ASSUME NEW b \in Payloads, Push(b) PROVE Fifo!Next
  BY <1>3, PushImplements DEF Fifo!Next
<1>4. ASSUME NEW max \in ReadSizes, Read(max) PROVE Fifo!Next
  BY <1>4, ReadImplements DEF Fifo!Next
<1>5. CASE UNCHANGED vars
  BY <1>5, StutterImplements
<1>6. QED BY <1>1, <1>2, <1>3, <1>4, <1>5 DEF Next

\* The ring is a bounded queue that loses its oldest bytes and says how many, for every
\* capacity, width of size_t and length of push that the assumption allows.
THEOREM RingIsQueue == Spec => ImplementsFifo
<1>1. Init => NoDataEmpty
  BY DEF Init, NoDataEmpty
<1>2. Spec => []NoDataEmpty
  BY <1>1, Invariant, EmptyNext, PTL DEF Spec
<1>3. QED
  BY <1>2, Invariant, InitImplements, StepImplements, PTL
  DEF Spec, ImplementsFifo, Fifo!Spec

=============================================================================
