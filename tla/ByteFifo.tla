------------------------------ MODULE ByteFifo ------------------------------
(***************************************************************************)
(* What the send buffer promises the audio thread and the send thread: a   *)
(* bounded first-in first-out queue of bytes that never refuses a push; it *)
(* loses the oldest bytes instead, and says how many.  Before it is ready  *)
(* and after it has been freed every operation does nothing.               *)
(***************************************************************************)
EXTENDS Integers, Sequences

CONSTANTS Capacity, Payloads, ReadSizes

VARIABLES
  ready,   \* between init and free
  fifo,    \* the queued bytes, the oldest first
  lost,    \* what the last push returned
  got      \* what the last read returned

vars == <<ready, fifo, lost, got>>

Init == ready = FALSE /\ fifo = <<>> /\ lost = 0 /\ got = <<>>

Open ==
  /\ ~ready
  /\ ready' = TRUE
  /\ fifo' = <<>> /\ lost' = 0 /\ got' = <<>>

Push(bytes) ==
  LET all == fifo \o bytes
      excess == IF Len(all) > Capacity THEN Len(all) - Capacity ELSE 0
  IN /\ lost' = IF ready THEN excess ELSE 0
     /\ fifo' = IF ready THEN SubSeq(all, excess + 1, Len(all)) ELSE fifo
     /\ got' = <<>>
     /\ UNCHANGED ready

Read(max) ==
  LET n == IF Len(fifo) < max THEN Len(fifo) ELSE max
  IN /\ got' = SubSeq(fifo, 1, n)
     /\ fifo' = SubSeq(fifo, n + 1, Len(fifo))
     /\ lost' = 0
     /\ UNCHANGED ready

Free == ready' = FALSE /\ fifo' = <<>> /\ lost' = 0 /\ got' = <<>>

Next ==
  \/ Open \/ Free
  \/ \E bytes \in Payloads : Push(bytes)
  \/ \E max \in ReadSizes : Read(max)

Spec == Init /\ [][Next]_vars
=============================================================================
