------------------------------ MODULE SendBuf -------------------------------
(***************************************************************************)
(* The ring buffer of send-buf.c between the encoder and the send thread.  *)
(* The positions of writer and reader are size_t and grow for ever: they   *)
(* wrap at SizeMod (2^64), the index into the data at capacity.  The       *)
(* operations exclude each other (send_mutex, or the only thread that      *)
(* knows the buffer), so each is one step.                                 *)
(***************************************************************************)
EXTENDS Integers, Sequences

CONSTANTS
  SizeMod,      \* the number of values of a size_t
  Capacity,     \* SEND_BUF_CAPACITY
  Byte,         \* the bytes
  Junk,         \* what malloc leaves in a cell
  MaxPayload,   \* the longest push
  ReadSizes     \* the sizes the reader asks for

\* The wrap of the positions is invisible only if the capacity divides it.  A
\* push may exceed the capacity by one byte at most: from there on, depending on
\* the position, the second memcpy would run over the end of the data, which it does
\* as soon as the push is longer than the capacity and what there is up to the end.
\* send-buf.h 44-48 names no such limit, and test_ring_buffer.cpp 101-116 pushes more
\* than the capacity in one call, from a position where it fits (12 bytes at cell 0 of
\* 8).  The callers in radio-output.c push some pages or a frame into 256 KB.
ASSUME SizesAssumption ==
  /\ Capacity \in Nat \ {0}
  /\ SizeMod \in Nat
  /\ SizeMod % Capacity = 0
  /\ MaxPayload \in 1..(Capacity + 1)
  /\ Capacity + MaxPayload < SizeMod
  /\ Junk \notin Byte
  /\ ReadSizes \subseteq Nat

Payloads == UNION {[1..n -> Byte] : n \in 1..MaxPayload}

VARIABLES
  data,        \* sb->data, <<>> for NULL
  capacity,    \* sb->capacity
  wpos, rpos,  \* sb->wpos, sb->rpos
  lost,        \* the last result of radio_send_buf_push
  got          \* the last bytes of radio_send_buf_read

vars == <<data, capacity, wpos, rpos, lost, got>>

\* size_t arithmetic: the positions step by less than SizeMod.
Plus(a, n) == IF a + n < SizeMod THEN a + n ELSE a + n - SizeMod
Minus(a, b) == IF a >= b THEN a - b ELSE a - b + SizeMod

\* radio_send_buf_used.
Used == Minus(wpos, rpos)

NoData == <<>>
Fresh == [i \in 0..(Capacity - 1) |-> Junk]

Init ==
  /\ data = NoData /\ capacity = 0
  /\ wpos = 0 /\ rpos = 0
  /\ lost = 0 /\ got = <<>>

\* radio_send_buf_init; a failed malloc leaves capacity set and data NULL.
Open ==
  /\ data = NoData
  /\ data' \in {Fresh, NoData}
  /\ capacity' = Capacity
  /\ wpos' = 0 /\ rpos' = 0
  /\ lost' = 0 /\ got' = <<>>

\* memcpy(d + at, b, Len(b)).
Copied(d, at, b) ==
  [i \in DOMAIN d |-> IF i \in at..(at + Len(b) - 1) THEN b[i - at + 1] ELSE d[i]]

\* Mutant: without the test for an overflow, in size_t arithmetic.
DroppedAlways(len) == Minus(Used + len, capacity)

\* What a push of len bytes loses.
Dropped(len) == IF Used + len > capacity THEN Used + len - capacity ELSE 0

\* Mutant: one byte too many before the end of the data.
SplitLate(pos, n) ==
  LET at == pos % capacity
      tail == capacity - at
  IN IF tail + 1 >= n THEN [at |-> at, first |-> n, second |-> 0]
                      ELSE [at |-> at, first |-> tail, second |-> n - tail]

\* The memcpy of n bytes from or to position pos: all at index at, or in two pieces,
\* the second at the start of the data.
Split(pos, n) ==
  LET at == pos % capacity
      tail == capacity - at
  IN IF tail >= n THEN [at |-> at, first |-> n, second |-> 0]
                  ELSE [at |-> at, first |-> tail, second |-> n - tail]

\* Mutant: the wrapped part goes after the cell it belongs to.
WriteShifted(b) ==
  LET s == Split(wpos, Len(b))
  IN Copied(Copied(data, s.at, SubSeq(b, 1, s.first)), 1, SubSeq(b, s.first + 1, Len(b)))

\* The data after b has been written at wpos.
Written(b) ==
  LET s == Split(wpos, Len(b))
  IN Copied(Copied(data, s.at, SubSeq(b, 1, s.first)), 0, SubSeq(b, s.first + 1, Len(b)))

Push(b) ==
  /\ IF data = NoData \/ capacity = 0
       THEN lost' = 0 /\ UNCHANGED <<data, wpos, rpos>>
       ELSE /\ lost' = Dropped(Len(b))
            /\ rpos' = Plus(rpos, Dropped(Len(b)))
            /\ data' = Written(b)
            /\ wpos' = Plus(wpos, Len(b))
  /\ got' = <<>>
  /\ UNCHANGED capacity

\* The n bytes at rpos.
Taken(n) ==
  LET s == Split(rpos, n)
  IN [i \in 1..n |-> data[IF i <= s.first THEN s.at + i - 1 ELSE i - s.first - 1]]

Read(max) ==
  LET n == IF Used < max THEN Used ELSE max
  IN /\ IF data = NoData \/ capacity = 0 \/ n = 0
          THEN got' = <<>> /\ UNCHANGED rpos
          ELSE got' = Taken(n) /\ rpos' = Plus(rpos, n)
     /\ lost' = 0
     /\ UNCHANGED <<data, capacity, wpos>>

Free ==
  /\ data' = NoData /\ capacity' = 0
  /\ wpos' = 0 /\ rpos' = 0
  /\ lost' = 0 /\ got' = <<>>

Next ==
  \/ Open \/ Free
  \/ \E b \in Payloads : Push(b)
  \/ \E max \in ReadSizes : Read(max)

Spec == Init /\ [][Next]_vars

-----------------------------------------------------------------------------
(***************************************************************************)
(* Properties.                                                             *)
(***************************************************************************)
\* The types.  A push says that it dropped as much as it brought at most.
TypeOK ==
  /\ data = NoData \/ data \in [0..(Capacity - 1) -> Byte \union {Junk}]
  /\ capacity \in {0, Capacity}
  /\ wpos \in 0..(SizeMod - 1) /\ rpos \in 0..(SizeMod - 1)
  /\ lost \in 0..MaxPayload

\* The buffer never holds more than it has room for, also when the positions
\* have wrapped, one of them before the other.
NeverOverfull == Used <= capacity

\* Every memcpy of the next push or read stays inside the data: send-buf.c relies
\* on its callers for the length of a push, and checks none.
Inside(s) == s.at + s.first <= Capacity /\ s.second <= Capacity
CopiesInside ==
  data # NoData =>
    /\ \A n \in 1..MaxPayload : Inside(Split(wpos, n))
    /\ \A n \in 1..Used : Inside(Split(rpos, n))

Fifo == INSTANCE ByteFifo WITH
  ready <- data # NoData,
  fifo <- [i \in 1..Used |-> data[Plus(rpos, i - 1) % Capacity]]

\* The ring is a bounded queue that drops the oldest bytes: what is read is what
\* was pushed, in order, less what push said it dropped, across the end of the
\* data and across the wrap of the positions.
ImplementsFifo == Fifo!Spec
=============================================================================
