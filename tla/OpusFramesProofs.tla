-------------------------- MODULE OpusFramesProofs ---------------------------
(***************************************************************************)
(* The audio path of the Opus encoder, for frames of any size, callbacks   *)
(* of any length and any number of restarts and failures: the copies stay  *)
(* inside their buffers, no sample vanishes, and none overtakes another or *)
(* is sent twice.                                                          *)
(*                                                                         *)
(* The argument splits what is on its way into its four parts, the packets *)
(* sent, those of this call, those that wait for a page, and the frame in  *)
(* the accumulator.  The lemmas say what the operators on sequences of     *)
(* packets do to the samples in them and to their order; each step then is *)
(* a matter of sets.                                                       *)
(*                                                                         *)
(* Advancing and Positions have the same parts as one sequence, whose      *)
(* packets never change.  A packet may be lost from its middle, by a call  *)
(* that fails: then the order of the others stays as it is, and only where *)
(* none has been lost the position of each is counted from those before.   *)
(***************************************************************************)
EXTENDS OpusFrames, SequenceTheorems, FiniteSetTheorems, TLAPS

\* Every sample of A is before every sample of B.
Below(A, B) == \A a \in A, b \in B : a < b

\* The packets of ps are in order.
InOrder(ps) ==
  \A i, k \in DOMAIN ps : i < k => Below(Audio(ps[i].samples), Audio(ps[k].samples))

\* Nothing is left over between two calls, nor by a flush, unless it failed and left its
\* frame.
Rest ==
  /\ pc \in {"idle", "closed"} \/ last => next = delivered + 1 /\ out = <<>>
  /\ last => pc \in {"emitting", "closed"}
  /\ pc = "closed" => packets = <<>> \/ accum # <<>>

\* Each sample delivered is in one of the parts, or was given up.
Kept ==
  1..delivered \subseteq dropped \union AudioOf(sent) \union AudioOf(out)
                         \union AudioOf(packets) \union Audio(accum) \union next..delivered

\* The parts are in order, each and one behind another.
PartsInOrder ==
  ~Had("page") =>
    /\ InOrder(sent) /\ InOrder(out) /\ InOrder(packets)
    /\ Below(AudioOf(sent), AudioOf(out))
    /\ Below(AudioOf(sent), AudioOf(packets)) /\ Below(AudioOf(out), AudioOf(packets))
    /\ Below(AudioOf(sent), Audio(accum)) /\ Below(AudioOf(out), Audio(accum))
    /\ Below(AudioOf(packets), Audio(accum))

\* What has been taken is before what has not.
TakenFirst ==
  /\ \A a \in AudioOf(sent) \union AudioOf(out) \union AudioOf(packets) : a < next
  /\ \A a \in Audio(accum) : a < next

IInv == TypeOK /\ Rest /\ Kept /\ PartsInOrder /\ TakenFirst

-----------------------------------------------------------------------------
(***************************************************************************)
(* Samples of sequences of packets.                                        *)
(***************************************************************************)
\* No packets hold no samples.
LEMMA AudioOfNone == AudioOf(<<>>) = {} /\ InOrder(<<>>) /\ Audio(<<>>) = {}
BY DEF AudioOf, InOrder, Audio

\* The samples of two sequences of packets.
LEMMA AudioOfConcat ==
  ASSUME NEW S, NEW s \in Seq(S), NEW t \in Seq(S)
  PROVE  AudioOf(s \o t) = AudioOf(s) \union AudioOf(t)
<1>1. \A x \in AudioOf(s \o t) : x \in AudioOf(s) \union AudioOf(t)
  <2> SUFFICES ASSUME NEW i \in DOMAIN (s \o t), NEW x \in Audio((s \o t)[i].samples)
               PROVE  x \in AudioOf(s) \union AudioOf(t)
    BY DEF AudioOf
  <2>1. CASE i \in DOMAIN s
    BY <2>1 DEF AudioOf
  <2>2. CASE i \notin DOMAIN s
    <3>1. i - Len(s) \in DOMAIN t /\ (s \o t)[i] = t[i - Len(s)]
      BY <2>2
    <3>2. QED BY <3>1 DEF AudioOf
  <2>3. QED BY <2>1, <2>2
<1>2. \A i \in DOMAIN s : i \in DOMAIN (s \o t) /\ (s \o t)[i] = s[i]
  OBVIOUS
<1>3. \A i \in DOMAIN t : Len(s) + i \in DOMAIN (s \o t) /\ (s \o t)[Len(s) + i] = t[i]
  OBVIOUS
<1>4. AudioOf(s) \subseteq AudioOf(s \o t)
  BY <1>2 DEF AudioOf
<1>5. AudioOf(t) \subseteq AudioOf(s \o t)
  BY <1>3 DEF AudioOf
<1>6. QED BY <1>1, <1>4, <1>5

\* The samples of two pieces of a frame.
LEMMA AudioConcat ==
  ASSUME NEW S, NEW s \in Seq(S), NEW t \in Seq(S)
  PROVE  Audio(s \o t) = Audio(s) \union Audio(t)
<1>1. \A x \in Audio(s \o t) : x \in Audio(s) \union Audio(t)
  BY DEF Audio
<1>2. \A i \in DOMAIN s : i \in DOMAIN (s \o t) /\ (s \o t)[i] = s[i]
  OBVIOUS
<1>3. \A i \in DOMAIN t : Len(s) + i \in DOMAIN (s \o t) /\ (s \o t)[Len(s) + i] = t[i]
  OBVIOUS
<1>4. QED BY <1>1, <1>2, <1>3 DEF Audio

\* Two sequences of packets are in order when each is, and one behind the other.
LEMMA OrderConcat ==
  ASSUME NEW S, NEW s \in Seq(S), NEW t \in Seq(S)
  PROVE  InOrder(s \o t) <=> InOrder(s) /\ InOrder(t) /\ Below(AudioOf(s), AudioOf(t))
<1>1. \A i \in DOMAIN s : i \in DOMAIN (s \o t) /\ (s \o t)[i] = s[i]
  OBVIOUS
<1>2. \A i \in DOMAIN t : Len(s) + i \in DOMAIN (s \o t) /\ (s \o t)[Len(s) + i] = t[i]
  OBVIOUS
<1>3. ASSUME InOrder(s \o t)
      PROVE  InOrder(s) /\ InOrder(t) /\ Below(AudioOf(s), AudioOf(t))
  <2>1. InOrder(s)
    BY <1>1, <1>3 DEF InOrder
  <2>2. InOrder(t)
    <3> SUFFICES ASSUME NEW i \in DOMAIN t, NEW k \in DOMAIN t, i < k
                 PROVE  Below(Audio(t[i].samples), Audio(t[k].samples))
      BY DEF InOrder
    <3>1. Len(s) + i < Len(s) + k
      OBVIOUS
    <3>2. QED BY <3>1, <1>2, <1>3 DEF InOrder
  <2>3. Below(AudioOf(s), AudioOf(t))
    <3> SUFFICES ASSUME NEW i \in DOMAIN s, NEW k \in DOMAIN t,
                        NEW a \in Audio(s[i].samples), NEW b \in Audio(t[k].samples)
                 PROVE  a < b
      BY DEF Below, AudioOf
    <3>1. i < Len(s) + k
      OBVIOUS
    <3>2. Below(Audio((s \o t)[i].samples), Audio((s \o t)[Len(s) + k].samples))
      BY <3>1, <1>1, <1>2, <1>3 DEF InOrder
    <3>3. QED BY <3>2, <1>1, <1>2 DEF Below
  <2>4. QED BY <2>1, <2>2, <2>3
<1>4. ASSUME InOrder(s), InOrder(t), Below(AudioOf(s), AudioOf(t))
      PROVE  InOrder(s \o t)
  <2> SUFFICES ASSUME NEW i \in DOMAIN (s \o t), NEW k \in DOMAIN (s \o t), i < k
               PROVE  Below(Audio((s \o t)[i].samples), Audio((s \o t)[k].samples))
    BY DEF InOrder
  <2>1. CASE k \in DOMAIN s
    <3>1. i \in DOMAIN s /\ (s \o t)[i] = s[i] /\ (s \o t)[k] = s[k]
      BY <2>1
    <3>2. QED BY <3>1, <2>1, <1>4 DEF InOrder
  <2>2. CASE i \notin DOMAIN s
    <3>1. /\ i - Len(s) \in DOMAIN t /\ k - Len(s) \in DOMAIN t
          /\ i - Len(s) < k - Len(s)
          /\ (s \o t)[i] = t[i - Len(s)] /\ (s \o t)[k] = t[k - Len(s)]
      BY <2>2
    <3>2. QED BY <3>1, <1>4 DEF InOrder
  <2>3. CASE i \in DOMAIN s /\ k \notin DOMAIN s
    <3>1. /\ k - Len(s) \in DOMAIN t
          /\ (s \o t)[i] = s[i] /\ (s \o t)[k] = t[k - Len(s)]
      BY <2>3
    <3>2. Audio(s[i].samples) \subseteq AudioOf(s)
      BY <2>3 DEF AudioOf
    <3>3. Audio(t[k - Len(s)].samples) \subseteq AudioOf(t)
      BY <3>1 DEF AudioOf
    <3>4. QED BY <3>1, <3>2, <3>3, <1>4 DEF Below
  <2>4. QED BY <2>1, <2>2, <2>3
<1>5. QED BY <1>3, <1>4

\* One packet.
LEMMA One ==
  ASSUME NEW p
  PROVE  AudioOf(<<p>>) = Audio(p.samples) /\ InOrder(<<p>>)
<1>1. DOMAIN <<p>> = {1} /\ <<p>>[1] = p
  OBVIOUS
<1>2. QED BY <1>1 DEF AudioOf, InOrder

\* One more packet.
LEMMA Appended ==
  ASSUME NEW S, NEW s \in Seq(S), NEW p \in S
  PROVE  /\ Append(s, p) \in Seq(S)
         /\ AudioOf(Append(s, p)) = AudioOf(s) \union Audio(p.samples)
         /\ InOrder(Append(s, p)) <=> InOrder(s) /\ Below(AudioOf(s), Audio(p.samples))
<1> DEFINE t == <<p>>
<1>1. t \in Seq(S) /\ Append(s, p) = s \o t /\ Append(s, p) \in Seq(S)
  OBVIOUS
<1>2. AudioOf(t) = Audio(p.samples) /\ InOrder(t)
  BY One
<1>3. HIDE DEF t
<1>4. AudioOf(s \o t) = AudioOf(s) \union AudioOf(t)
  BY <1>1, AudioOfConcat
<1>5. InOrder(s \o t) <=> InOrder(s) /\ InOrder(t) /\ Below(AudioOf(s), AudioOf(t))
  BY <1>1, OrderConcat
<1>6. QED BY <1>1, <1>2, <1>4, <1>5

\* The first n packets and the others.
LEMMA Cut ==
  ASSUME NEW S, NEW s \in Seq(S), NEW n \in 0..Len(s)
  PROVE  LET a == SubSeq(s, 1, n)
             b == SubSeq(s, n + 1, Len(s))
         IN /\ a \in Seq(S) /\ b \in Seq(S)
            /\ AudioOf(s) = AudioOf(a) \union AudioOf(b)
            /\ InOrder(s) => InOrder(a) /\ InOrder(b) /\ Below(AudioOf(a), AudioOf(b))
<1> DEFINE a == SubSeq(s, 1, n)
           b == SubSeq(s, n + 1, Len(s))
<1>1. a \in Seq(S) /\ b \in Seq(S)
  BY SubSeqProperties
<1>2. a \o b = s
  <2>1. /\ 1 \in 1..(Len(s) + 1) /\ n \in (1 - 1)..Len(s)
        /\ Len(s) \in n..Len(s)
    OBVIOUS
  <2>2. a \o b = SubSeq(s, 1, Len(s))
    BY <2>1, ConcatAdjacentSubSeq
  <2>3. QED BY <2>2, SubSeqFull
<1>3. HIDE DEF a, b
<1>4. AudioOf(s) = AudioOf(a) \union AudioOf(b)
  BY <1>1, <1>2, AudioOfConcat
<1>5. InOrder(s) => InOrder(a) /\ InOrder(b) /\ Below(AudioOf(a), AudioOf(b))
  BY <1>1, <1>2, OrderConcat
<1>6. QED BY <1>1, <1>4, <1>5 DEF a, b

-----------------------------------------------------------------------------
\* The packet that emit_one_frame makes is a whole frame.
LEMMA PacketIs ==
  ASSUME TypeOK, pc = "emitting"
  PROVE  Packet \in Packets /\ Audio(Packet.samples) = Audio(accum)
<1>1. accum \in [1..FrameSize -> 0..MaxSamples]
  <2>1. accum \in Seq(0..MaxSamples) /\ Len(accum) = FrameSize
    BY FramesAssumption DEF TypeOK
  <2>2. accum \in [1..Len(accum) -> 0..MaxSamples]
    BY <2>1, LenProperties
  <2>3. QED BY <2>1, <2>2
<1>2. granulepos + FrameSize \in Nat
  BY FramesAssumption DEF TypeOK
<1>3. QED BY <1>1, <1>2 DEF TypeOK, Packet, Packets

\* Samples are numbers, without 0.
LEMMA AudioIsNat ==
  ASSUME TypeOK
  PROVE  /\ AudioOf(sent) \subseteq Nat \ {0} /\ AudioOf(out) \subseteq Nat \ {0}
         /\ AudioOf(packets) \subseteq Nat \ {0} /\ Audio(accum) \subseteq Nat \ {0}
<1>1. ASSUME NEW ps \in Seq(Packets)
      PROVE  AudioOf(ps) \subseteq Nat \ {0}
  <2>1. \A i \in DOMAIN ps : ps[i].samples \in [1..FrameSize -> 0..MaxSamples]
    <3>1. \A i \in DOMAIN ps : ps[i] \in Packets
      OBVIOUS
    <3>2. QED BY <3>1 DEF Packets
  <2>2. QED BY <2>1, FramesAssumption DEF AudioOf, Audio
<1>2. Audio(accum) \subseteq Nat \ {0}
  BY FramesAssumption DEF TypeOK, Audio
<1>3. QED BY <1>1, <1>2 DEF TypeOK

\* What is before the next sample stays before a later one.
LEMMA LaterNext ==
  ASSUME TypeOK, TakenFirst, next' \in Nat, next <= next',
         UNCHANGED <<accum, packets, out, sent>>
  PROVE  TakenFirst'
<1>1. next \in Nat
  BY DEF TypeOK
<1>2. QED BY <1>1, AudioIsNat DEF TakenFirst

\* Nothing has happened yet.
LEMMA InvInit == Init => IInv
<1> SUFFICES ASSUME Init
             PROVE  IInv
  OBVIOUS
<1>1. TypeOK
  <2>1. /\ accum \in Seq(0..MaxSamples) /\ Len(accum) <= FrameSize
        /\ packets \in Seq(Packets) /\ out \in Seq(Packets) /\ sent \in Seq(Packets)
        /\ faults \in Seq({"encode", "packetin", "page"})
    BY FramesAssumption DEF Init
  <2>2. delivered \in 0..MaxSamples /\ next \in 1..(delivered + 1)
    BY FramesAssumption DEF Init
  <2>3. serial \in 0..MaxRestarts /\ granulepos \in Nat
    BY FramesAssumption DEF Init
  <2>4. QED BY <2>1, <2>2, <2>3 DEF Init, TypeOK
<1>2. Rest /\ PartsInOrder /\ TakenFirst
  BY AudioOfNone DEF Init, Rest, PartsInOrder, TakenFirst, Below
<1>3. 1..delivered = {}
  BY DEF Init
<1>4. QED BY <1>1, <1>2, <1>3 DEF IInv, Kept

\* A callback begins, or is dropped.
LEMMA CallbackKeeps ==
  ASSUME IInv, NEW n \in 1..MaxSamples, CallbackEncodes(n) \/ CallbackDrops(n)
  PROVE  IInv'
<1>1. /\ delivered' = delivered + n /\ delivered' \in 0..MaxSamples
      /\ pc = "idle" /\ next = delivered + 1 /\ out = <<>>
      /\ UNCHANGED <<accum, last, serial, granulepos, packets, out, sent, faults>>
  BY FramesAssumption DEF CallbackEncodes, CallbackDrops, Delivers, IInv, TypeOK, Rest
<1>2. next' \in {delivered + 1, delivered' + 1} /\ next' \in 1..(delivered' + 1)
  BY <1>1 DEF CallbackEncodes, CallbackDrops, IInv, TypeOK
<1>3. TypeOK'
  <2>1. pc' \in {"idle", "filling"}
    BY <1>1 DEF CallbackEncodes, CallbackDrops
  <2>2. 1..delivered \union (delivered + 1)..delivered' \subseteq 1..delivered'
    BY <1>1 DEF IInv, TypeOK
  <2>3. dropped' \subseteq 1..delivered \union (delivered + 1)..delivered'
    BY DEF CallbackEncodes, CallbackDrops, IInv, TypeOK
  <2>4. QED BY <1>1, <1>2, <2>1, <2>2, <2>3 DEF IInv, TypeOK
<1>4. Rest'
  BY <1>1 DEF CallbackEncodes, CallbackDrops, IInv, Rest
<1>5. Kept'
  <2>1. 1..delivered' \subseteq 1..delivered \union (delivered + 1)..delivered'
    BY <1>1 DEF IInv, TypeOK
  <2>2. next..delivered = {}
    BY <1>1 DEF IInv, TypeOK
  <2>3. dropped \subseteq dropped'
        /\ (delivered + 1)..delivered' \subseteq dropped' \union next'..delivered'
    <3>1. CASE CallbackEncodes(n)
      BY <1>1, <3>1 DEF CallbackEncodes
    <3>2. CASE CallbackDrops(n)
      BY <1>1, <3>2 DEF CallbackDrops
    <3>3. QED BY <3>1, <3>2
  <2>4. QED BY <1>1, <2>1, <2>2, <2>3 DEF IInv, Kept
<1>6. PartsInOrder'
  BY <1>1 DEF IInv, PartsInOrder, Had
<1>7. TakenFirst'
  <2>1. next <= next'
    BY <1>1, <1>2 DEF IInv, TypeOK
  <2>2. next' \in Nat
    BY <1>2
  <2>3. QED BY <1>1, <2>1, <2>2, LaterNext DEF IInv
<1>8. QED BY <1>3, <1>4, <1>5, <1>6, <1>7 DEF IInv

\* A round of the loop: the samples go to the end of the accumulator, in order.
LEMMA TakeKeeps ==
  ASSUME IInv, Take
  PROVE  IInv'
<1> DEFINE space == FrameSize - Len(accum)
           take == IF space > Avail THEN Avail ELSE space
           new == [k \in 1..take |-> next + k - 1]
<1>1. /\ pc = "filling" /\ Len(accum) \in 0..FrameSize /\ next \in 1..delivered
      /\ delivered \in 0..MaxSamples /\ MaxSamples \in Nat /\ FrameSize \in Nat
  BY FramesAssumption DEF Take, IInv, TypeOK, Avail
<1>2. /\ take \in Nat /\ take <= space /\ next + take - 1 <= delivered
      /\ Len(accum) + take <= FrameSize
  BY <1>1 DEF Avail
<1>3. /\ accum' = accum \o new /\ next' = next + take
      /\ pc' = IF Len(accum') = FrameSize THEN "emitting" ELSE "filling"
      /\ UNCHANGED <<delivered, last, serial, granulepos, packets, out, sent, dropped, faults>>
  BY DEF Take
<1>4. HIDE DEF take
<1>5. /\ \A k \in 1..take : next + k - 1 \in next..(next + take - 1)
      /\ \A a \in next..(next + take - 1) : a - next + 1 \in 1..take
                                            /\ next + (a - next + 1) - 1 = a
  BY <1>1, <1>2
<1>6. /\ new \in Seq(0..MaxSamples) /\ Len(new) = take
      /\ Audio(new) = next..(next + take - 1)
  <2>1. \A k \in 1..take : next + k - 1 \in 0..MaxSamples
    BY <1>1, <1>2, <1>5
  <2>2. new \in Seq(0..MaxSamples) /\ Len(new) = take
    BY <1>2, <2>1
  <2>3. DOMAIN new = 1..take /\ \A k \in 1..take : new[k] = next + k - 1
    BY <1>2
  <2>4. \A a \in Audio(new) : a \in next..(next + take - 1)
    BY <2>3, <1>5 DEF Audio
  <2>5. \A a \in next..(next + take - 1) : a \in Audio(new)
    <3> SUFFICES ASSUME NEW a \in next..(next + take - 1)
                 PROVE  a \in Audio(new)
      OBVIOUS
    <3>1. a - next + 1 \in DOMAIN new /\ new[a - next + 1] = a /\ a # 0
      BY <1>1, <1>5, <2>3
    <3>2. QED BY <3>1 DEF Audio
  <2>6. QED BY <2>2, <2>4, <2>5
<1>7. HIDE DEF new
<1>8. accum \in Seq(0..MaxSamples)
  BY DEF IInv, TypeOK
<1>9. Audio(accum') = Audio(accum) \union Audio(new)
  BY <1>3, <1>6, <1>8, AudioConcat
<1>10. TypeOK'
  <2>1. accum' \in Seq(0..MaxSamples) /\ Len(accum') = Len(accum) + take
    BY <1>3, <1>6, <1>8, ConcatProperties
  <2>2. next' \in 1..(delivered + 1)
    BY <1>1, <1>2, <1>3
  <2>3. QED BY <1>2, <1>3, <2>1, <2>2 DEF IInv, TypeOK
<1>11. Rest'
  BY <1>1, <1>3 DEF IInv, Rest
<1>12. Kept'
  <2>1. next..delivered \subseteq next..(next + take - 1) \union next'..delivered
    BY <1>1, <1>2, <1>3
  <2>2. QED BY <1>3, <1>6, <1>9, <2>1 DEF IInv, Kept
<1>13. TakenFirst'
  <2>1. \A a \in Audio(new) : a < next'
    BY <1>1, <1>2, <1>3, <1>6
  <2>2. next <= next' /\ next' \in Nat /\ next \in Nat
    BY <1>1, <1>2, <1>3
  <2>3. QED BY <1>3, <1>9, <2>1, <2>2, AudioIsNat DEF IInv, TakenFirst
<1>14. PartsInOrder'
  <2>1. \A a \in AudioOf(sent) \union AudioOf(out) \union AudioOf(packets) :
          \A b \in Audio(new) : a < b
    BY <1>1, <1>2, <1>6, AudioIsNat DEF IInv, TakenFirst
  <2>2. QED BY <1>3, <1>9, <2>1 DEF IInv, PartsInOrder, Below, Had
<1>15. QED BY <1>10, <1>11, <1>12, <1>13, <1>14 DEF IInv

\* The pages of the call are queued.
LEMMA ReturnKeeps ==
  ASSUME IInv, Return
  PROVE  IInv'
<1>1. /\ sent \in Seq(Packets) /\ out \in Seq(Packets) /\ next = delivered + 1
      /\ sent' = sent \o out /\ out' = <<>>
  BY DEF IInv, TypeOK, Return, Avail
<1>2. /\ AudioOf(sent') = AudioOf(sent) \union AudioOf(out) /\ AudioOf(out') = {}
      /\ InOrder(out')
      /\ InOrder(sent) /\ InOrder(out) /\ Below(AudioOf(sent), AudioOf(out))
           => InOrder(sent')
  BY <1>1, AudioOfConcat, OrderConcat, AudioOfNone
<1>3. TypeOK'
  BY <1>1 DEF IInv, TypeOK, Return
<1>4. Rest'
  BY <1>1 DEF IInv, Rest, Return
<1>5. Kept' /\ TakenFirst'
  BY <1>2 DEF IInv, Kept, TakenFirst, Return
<1>6. PartsInOrder'
  BY <1>2 DEF IInv, PartsInOrder, Below, Had, Return
<1>7. QED BY <1>3, <1>4, <1>5, <1>6 DEF IInv

-----------------------------------------------------------------------------
\* The packet goes in behind those that wait, and the first n packets leave.
LEMMA QueueIs ==
  ASSUME IInv, pc = "emitting", NEW n \in 0..(Len(packets) + 1)
  PROVE  LET queue == Append(packets, Packet)
             a == SubSeq(queue, 1, n)
             b == SubSeq(queue, n + 1, Len(queue))
         IN /\ a \in Seq(Packets) /\ b \in Seq(Packets)
            /\ AudioOf(a) \union AudioOf(b) = AudioOf(packets) \union Audio(accum)
            /\ ~Had("page") => InOrder(a) /\ InOrder(b) /\ Below(AudioOf(a), AudioOf(b))
<1> DEFINE queue == Append(packets, Packet)
<1>1. packets \in Seq(Packets) /\ Packet \in Packets /\ Audio(Packet.samples) = Audio(accum)
  BY PacketIs DEF IInv, TypeOK
<1>2. /\ queue \in Seq(Packets)
      /\ AudioOf(queue) = AudioOf(packets) \union Audio(accum)
      /\ InOrder(queue) <=> InOrder(packets) /\ Below(AudioOf(packets), Audio(accum))
  BY <1>1, Appended
<1>3. Len(queue) = Len(packets) + 1
  BY <1>1
<1>4. HIDE DEF queue
<1>5. n \in 0..Len(queue)
  BY <1>3
<1>6. ~Had("page") => InOrder(queue)
  BY <1>2 DEF IInv, PartsInOrder
<1>7. QED BY <1>2, <1>5, <1>6, Cut DEF queue

\* A frame becomes a packet.
LEMMA EmitKeeps ==
  ASSUME IInv, NEW n \in 0..(Len(packets) + 1), Emit(n)
  PROVE  IInv'
<1> DEFINE queue == Append(packets, Packet)
           a == SubSeq(queue, 1, n)
           b == SubSeq(queue, n + 1, Len(queue))
<1>1. /\ a \in Seq(Packets) /\ b \in Seq(Packets)
      /\ AudioOf(a) \union AudioOf(b) = AudioOf(packets) \union Audio(accum)
      /\ ~Had("page") => InOrder(a) /\ InOrder(b) /\ Below(AudioOf(a), AudioOf(b))
  BY QueueIs DEF Emit
<1>2. /\ pc = "emitting" /\ ~last /\ out' = out \o a /\ packets' = b /\ accum' = <<>>
      /\ pc' = "filling" /\ granulepos' = granulepos + FrameSize
      /\ UNCHANGED <<delivered, next, last, serial, sent, dropped, faults>>
  BY DEF Emit
<1>3. HIDE DEF a, b
<1>4. out \in Seq(Packets)
  BY DEF IInv, TypeOK
<1>5. /\ AudioOf(out') = AudioOf(out) \union AudioOf(a)
      /\ InOrder(out') <=> InOrder(out) /\ InOrder(a) /\ Below(AudioOf(out), AudioOf(a))
      /\ Audio(accum') = {}
  BY <1>1, <1>2, <1>4, AudioOfConcat, OrderConcat, AudioOfNone
<1>6. TypeOK'
  <2>1. out' \in Seq(Packets) /\ packets' \in Seq(Packets)
    BY <1>1, <1>2, <1>4
  <2>2. accum' \in Seq(0..MaxSamples) /\ Len(accum') <= FrameSize
    BY <1>2, FramesAssumption
  <2>3. granulepos' \in Nat
    BY <1>2, FramesAssumption DEF IInv, TypeOK
  <2>4. QED BY <1>2, <2>1, <2>2, <2>3 DEF IInv, TypeOK
<1>7. Rest'
  BY <1>2 DEF IInv, Rest
<1>8. Kept' /\ TakenFirst'
  BY <1>1, <1>2, <1>5 DEF IInv, Kept, TakenFirst
<1>9. PartsInOrder'
  BY <1>1, <1>2, <1>5 DEF IInv, PartsInOrder, Below, Had
<1>10. QED BY <1>6, <1>7, <1>8, <1>9 DEF IInv

\* A call that fails.
LEMMA FaultKeeps ==
  ASSUME IInv, pc = "emitting", NEW fault \in {"encode", "packetin", "page"}, NEW more,
         Gives(fault, more), packets' \in Seq(Packets), granulepos' \in Nat,
         AudioOf(packets) \subseteq AudioOf(packets') \union more \union Audio(accum),
         AudioOf(packets') \union more \subseteq AudioOf(packets) \union Audio(accum),
         fault = "page" \/ packets' = packets
  PROVE  IInv'
<1>1. /\ faults' = Append(faults, fault) /\ out' = <<>> /\ next' = delivered + 1
      /\ pc' \in {"idle", "closed"} /\ (last => pc' = "closed")
      /\ dropped' = dropped \union AudioOf(out) \union next..delivered \union more
      /\ UNCHANGED <<delivered, accum, last, serial, sent>>
  BY DEF Gives
<1>2. /\ next \in 1..(delivered + 1) /\ delivered \in Nat
      /\ faults \in Seq({"encode", "packetin", "page"})
  BY FramesAssumption DEF IInv, TypeOK
<1>3. /\ AudioOf(out) \union AudioOf(packets) \union Audio(accum) \subseteq 1..delivered
      /\ next..delivered \subseteq 1..delivered
  <2>1. \A a \in AudioOf(out) \union AudioOf(packets) \union Audio(accum) :
          a \in Nat \ {0} /\ a < next
    BY AudioIsNat DEF IInv, TakenFirst
  <2>2. QED BY <1>2, <2>1
<1>4. AudioOf(out') = {} /\ InOrder(out')
  BY <1>1, AudioOfNone
<1>5. TypeOK'
  <2>1. dropped' \subseteq 1..delivered
    BY <1>1, <1>3 DEF IInv, TypeOK
  <2>2. faults' \in Seq({"encode", "packetin", "page"})
    BY <1>1, <1>2
  <2>3. out' \in Seq(Packets) /\ next' \in 1..(delivered + 1)
    BY <1>1, <1>2
  <2>4. QED BY <1>1, <2>1, <2>2, <2>3 DEF IInv, TypeOK
<1>6. Rest'
  <2>1. accum' # <<>>
    BY <1>1, FramesAssumption DEF IInv, TypeOK
  <2>2. QED BY <1>1, <2>1 DEF IInv, Rest
<1>7. Kept'
  BY <1>1 DEF IInv, Kept
<1>8. TakenFirst'
  <2>1. next <= next' /\ next' \in Nat /\ next \in Nat
    BY <1>1, <1>2
  <2>2. QED BY <1>1, <1>4, <2>1, AudioIsNat DEF IInv, TakenFirst
<1>9. PartsInOrder'
  <2>1. \A i \in DOMAIN faults : i \in DOMAIN faults' /\ faults'[i] = faults[i]
    BY <1>1, <1>2
  <2>2. Had("page") => Had("page")'
    BY <2>1 DEF Had
  <2>3. fault = "page" => Had("page")'
    <3>1. Len(faults) + 1 \in DOMAIN faults' /\ faults'[Len(faults) + 1] = fault
      BY <1>1, <1>2
    <3>2. QED BY <3>1 DEF Had
  <2>4. QED BY <1>1, <1>4, <2>2, <2>3 DEF IInv, PartsInOrder, Below
<1>10. QED BY <1>5, <1>6, <1>7, <1>8, <1>9 DEF IInv

\* The three ways to fail.
LEMMA FaultsKeep ==
  ASSUME IInv,
         EncodeFails \/ PacketinFails \/ \E n \in 1..(Len(packets) + 1) : PageFails(n)
  PROVE  IInv'
<1>1. granulepos + FrameSize \in Nat /\ granulepos \in Nat /\ packets \in Seq(Packets)
  BY FramesAssumption DEF IInv, TypeOK
<1>2. CASE EncodeFails
  BY <1>1, <1>2, FaultKeeps DEF EncodeFails
<1>3. CASE PacketinFails
  BY <1>1, <1>3, FaultKeeps DEF PacketinFails
<1>4. ASSUME NEW n \in 1..(Len(packets) + 1), PageFails(n)
      PROVE  IInv'
  <2> DEFINE queue == Append(packets, Packet)
             a == SubSeq(queue, 1, n)
             b == SubSeq(queue, n + 1, Len(queue))
  <2>1. n \in 0..(Len(packets) + 1)
    OBVIOUS
  <2>2. /\ b \in Seq(Packets)
        /\ AudioOf(a) \union AudioOf(b) = AudioOf(packets) \union Audio(accum)
    BY <1>4, <2>1, QueueIs DEF PageFails
  <2>3. /\ pc = "emitting" /\ granulepos' = granulepos + FrameSize
        /\ packets' = b /\ Gives("page", AudioOf(a))
    BY <1>4 DEF PageFails
  <2>4. HIDE DEF a, b
  <2>5. QED BY <1>1, <2>2, <2>3, FaultKeeps
<1>5. QED BY <1>2, <1>3, <1>4

-----------------------------------------------------------------------------
\* A new logical stream: what waits for a page is given up.
LEMMA RestartKeeps ==
  ASSUME IInv, Restart
  PROVE  IInv'
<1>1. /\ pc = "idle" /\ serial' = serial + 1 /\ serial < MaxRestarts
      /\ granulepos' = 0 /\ packets' = <<>> /\ dropped' = dropped \union AudioOf(packets)
      /\ UNCHANGED <<pc, delivered, next, accum, last, out, sent, faults>>
  BY DEF Restart
<1>2. AudioOf(packets') = {} /\ InOrder(packets')
  BY <1>1, AudioOfNone
<1>3. TypeOK'
  <2>1. AudioOf(packets) \subseteq 1..delivered
    <3>1. \A a \in AudioOf(packets) : a \in Nat \ {0} /\ a < next
      BY AudioIsNat DEF IInv, TakenFirst
    <3>2. QED BY <3>1 DEF IInv, TypeOK
  <2>2. serial' \in 0..MaxRestarts
    BY <1>1, FramesAssumption DEF IInv, TypeOK
  <2>3. packets' \in Seq(Packets)
    BY <1>1
  <2>4. QED BY <1>1, <2>1, <2>2, <2>3 DEF IInv, TypeOK
<1>4. Rest' /\ Kept' /\ TakenFirst'
  BY <1>1, <1>2 DEF IInv, Rest, Kept, TakenFirst
<1>5. PartsInOrder'
  BY <1>1, <1>2 DEF IInv, PartsInOrder, Below, Had
<1>6. QED BY <1>3, <1>4, <1>5 DEF IInv

\* The flush fills the frame with silence.
LEMMA FlushKeeps ==
  ASSUME IInv, Flush
  PROVE  IInv'
<1>1. /\ pc = "idle" /\ pc' = "emitting" /\ last' = TRUE
      /\ accum' = [k \in 1..FrameSize |-> IF k <= Len(accum) THEN accum[k] ELSE 0]
      /\ UNCHANGED <<delivered, next, serial, granulepos, packets, out, sent, dropped, faults>>
  BY DEF Flush
<1>2. /\ FrameSize \in Nat /\ accum \in Seq(0..MaxSamples) /\ Len(accum) <= FrameSize
      /\ 0 \in 0..MaxSamples
  BY FramesAssumption DEF IInv, TypeOK
<1>3. DOMAIN accum = 1..Len(accum) /\ \A k \in 1..Len(accum) : accum[k] \in 0..MaxSamples
  BY <1>2, LenProperties, ElementOfSeq
<1>4. accum' \in Seq(0..MaxSamples) /\ Len(accum') = FrameSize
  <2>1. \A k \in 1..FrameSize :
          (IF k <= Len(accum) THEN accum[k] ELSE 0) \in 0..MaxSamples
    BY <1>2, <1>3
  <2>2. QED BY <1>1, <1>2, <2>1
<1>5. Audio(accum') = Audio(accum)
  <2>1. \A k \in DOMAIN accum : k \in DOMAIN accum' /\ accum'[k] = accum[k]
    BY <1>1, <1>2, <1>3
  <2>2. \A k \in DOMAIN accum' : accum'[k] = 0 \/ k \in DOMAIN accum
    BY <1>1, <1>2, <1>3
  <2>3. QED BY <2>1, <2>2 DEF Audio
<1>6. TypeOK'
  <2>1. Len(accum') <= FrameSize
    BY <1>2, <1>4
  <2>2. QED BY <1>1, <1>4, <2>1 DEF IInv, TypeOK
<1>7. Rest' /\ Kept' /\ TakenFirst'
  BY <1>1, <1>5 DEF IInv, Rest, Kept, TakenFirst
<1>8. PartsInOrder'
  BY <1>1, <1>5 DEF IInv, PartsInOrder, Below, Had
<1>9. QED BY <1>6, <1>7, <1>8 DEF IInv

\* The last packet, and with it everything.
LEMMA EmitLastKeeps ==
  ASSUME IInv, EmitLast
  PROVE  IInv'
<1> DEFINE queue == Append(packets, Packet)
<1>1. /\ pc = "emitting" /\ last /\ granulepos' = granulepos + FrameSize
      /\ packets' = <<>> /\ sent' = sent \o queue /\ accum' = <<>> /\ pc' = "closed"
      /\ UNCHANGED <<delivered, next, last, serial, out, dropped, faults>>
  BY DEF EmitLast
<1>2. /\ packets \in Seq(Packets) /\ sent \in Seq(Packets) /\ Packet \in Packets
      /\ Audio(Packet.samples) = Audio(accum)
  BY <1>1, PacketIs DEF IInv, TypeOK
<1>3. /\ queue \in Seq(Packets)
      /\ AudioOf(queue) = AudioOf(packets) \union Audio(accum)
      /\ InOrder(queue) <=> InOrder(packets) /\ Below(AudioOf(packets), Audio(accum))
  BY <1>2, Appended
<1>4. HIDE DEF queue
<1>5. /\ AudioOf(sent') = AudioOf(sent) \union AudioOf(queue)
      /\ InOrder(sent') <=> InOrder(sent) /\ InOrder(queue)
                             /\ Below(AudioOf(sent), AudioOf(queue))
      /\ AudioOf(packets') = {} /\ InOrder(packets') /\ Audio(accum') = {}
  <2>1. AudioOf(sent') = AudioOf(sent) \union AudioOf(queue)
    BY <1>1, <1>2, <1>3, AudioOfConcat
  <2>2. InOrder(sent') <=> InOrder(sent) /\ InOrder(queue)
                            /\ Below(AudioOf(sent), AudioOf(queue))
    BY <1>1, <1>2, <1>3, OrderConcat
  <2>3. QED BY <1>1, <2>1, <2>2, AudioOfNone
<1>6. TypeOK'
  <2>1. packets' \in Seq(Packets) /\ sent' \in Seq(Packets)
    BY <1>1, <1>2, <1>3
  <2>2. accum' \in Seq(0..MaxSamples) /\ Len(accum') <= FrameSize
    BY <1>1, FramesAssumption
  <2>3. granulepos' \in Nat
    BY <1>1, FramesAssumption DEF IInv, TypeOK
  <2>4. QED BY <1>1, <2>1, <2>2, <2>3 DEF IInv, TypeOK
<1>7. Rest'
  BY <1>1 DEF IInv, Rest
<1>8. Kept' /\ TakenFirst'
  BY <1>1, <1>3, <1>5 DEF IInv, Kept, TakenFirst
<1>9. out' = <<>> /\ AudioOf(out') = {}
  BY <1>1, AudioOfNone DEF IInv, Rest
<1>10. PartsInOrder'
  BY <1>1, <1>3, <1>5, <1>9 DEF IInv, PartsInOrder, Below, Had
<1>11. QED BY <1>6, <1>7, <1>8, <1>10 DEF IInv

\* Every step keeps the invariant.
LEMMA InvNext == IInv /\ [Next]_vars => IInv'
<1> SUFFICES ASSUME IInv, [Next]_vars
             PROVE  IInv'
  OBVIOUS
<1>1. CASE UNCHANGED vars
  BY <1>1 DEF vars, IInv, TypeOK, Rest, Kept, PartsInOrder, TakenFirst, Had
<1>2. CASE Next
  BY <1>2, CallbackKeeps, TakeKeeps, ReturnKeeps, EmitKeeps, FaultsKeep, RestartKeeps,
     FlushKeeps, EmitLastKeeps
  DEF Next, CallSteps
<1>3. QED BY <1>1, <1>2

\* The invariant holds in every behaviour.
THEOREM Invariant == Spec => []IInv
BY InvInit, InvNext, PTL DEF Spec

\* The copies of the accumulator stay inside, for every size of a frame and of a
\* callback, also after a failed call has left a full frame behind.
THEOREM TypeCorrect == Spec => []TypeOK
<1>1. IInv => TypeOK
  BY DEF IInv
<1>2. QED BY <1>1, Invariant, PTL

\* No sample vanishes but where the code gives audio up.
THEOREM NothingVanishes == Spec => []NoSilentLoss
<1>1. IInv => NoSilentLoss
  <2> SUFFICES ASSUME IInv
               PROVE  NoSilentLoss
    OBVIOUS
  <2>1. /\ sent \in Seq(Packets) /\ out \in Seq(Packets) /\ packets \in Seq(Packets)
    BY DEF IInv, TypeOK
  <2>2. AudioOf(Sequence) = AudioOf(sent) \union AudioOf(out) \union AudioOf(packets)
    <3>1. sent \o out \in Seq(Packets)
      BY <2>1
    <3>2. AudioOf(sent \o out) = AudioOf(sent) \union AudioOf(out)
      BY <2>1, AudioOfConcat
    <3>3. AudioOf((sent \o out) \o packets) = AudioOf(sent \o out) \union AudioOf(packets)
      BY <2>1, <3>1, AudioOfConcat
    <3>4. QED BY <3>2, <3>3 DEF Sequence
  <2>3. QED BY <2>2 DEF IInv, Kept, NoSilentLoss
<1>2. QED BY <1>1, Invariant, PTL

\* A broadcast that ends with a flush that succeeds holds no audio back.
THEOREM FlushComplete == Spec => []FlushIsComplete
<1>1. IInv => FlushIsComplete
  <2> SUFFICES ASSUME IInv, pc = "closed", accum = <<>>
               PROVE  (1..delivered) \ dropped \subseteq AudioOf(sent)
    BY DEF FlushIsComplete
  <2>1. out = <<>> /\ packets = <<>> /\ next = delivered + 1 /\ delivered \in Int
    BY FramesAssumption DEF IInv, Rest, TypeOK
  <2>2. AudioOf(out) = {} /\ AudioOf(packets) = {} /\ Audio(accum) = {}
    BY <2>1, AudioOfNone
  <2>3. next..delivered = {}
    BY <2>1
  <2>4. QED BY <2>2, <2>3 DEF IInv, Kept
<1>2. QED BY <1>1, Invariant, PTL

\* No sample overtakes another or is in two packets, whatever is dropped, fails or is
\* restarted, as long as no page is lost in the scratch buffer.
THEOREM AudioStaysInOrder == Spec => []AudioInOrder
<1>1. IInv => AudioInOrder
  <2> SUFFICES ASSUME IInv, ~Had("page")
               PROVE  /\ InOrder(Sequence)
                      /\ Below(AudioOf(Sequence), Audio(accum))
    BY DEF AudioInOrder, InOrder, Below, AudioOf
  <2>1. /\ sent \in Seq(Packets) /\ out \in Seq(Packets) /\ packets \in Seq(Packets)
        /\ sent \o out \in Seq(Packets)
    BY DEF IInv, TypeOK
  <2>2. /\ AudioOf(sent \o out) = AudioOf(sent) \union AudioOf(out)
        /\ InOrder(sent \o out)
    BY <2>1, AudioOfConcat, OrderConcat DEF IInv, PartsInOrder
  <2>3. Below(AudioOf(sent \o out), AudioOf(packets))
    BY <2>2 DEF IInv, PartsInOrder, Below
  <2>4. /\ InOrder(Sequence)
        /\ AudioOf(Sequence) = AudioOf(sent \o out) \union AudioOf(packets)
    <3>1. InOrder(packets)
      BY DEF IInv, PartsInOrder
    <3>2. Sequence = (sent \o out) \o packets
      BY DEF Sequence
    <3>3. InOrder((sent \o out) \o packets)
      BY <2>1, <2>2, <2>3, <3>1, OrderConcat
    <3>4. AudioOf((sent \o out) \o packets) = AudioOf(sent \o out) \union AudioOf(packets)
      BY <2>1, AudioOfConcat
    <3>5. QED BY <3>2, <3>3, <3>4
  <2>5. QED BY <2>2, <2>4 DEF IInv, PartsInOrder, Below
<1>2. QED BY <1>1, Invariant, PTL
-----------------------------------------------------------------------------
(***************************************************************************)
(* Positions.  The granule position of the encoder counts the samples of   *)
(* its present stream that are in packets, and no packet is of a later     *)
(* stream; so the next packet gets its own count, and the first packet of  *)
(* a new stream counts from 0.                                             *)
(***************************************************************************)
\* Those of the first n packets that are of stream s.
OfStream(ps, n, s) == {k \in 1..n : ps[k].serial = s}

PositionsRight(ps) ==
  \A i \in DOMAIN ps :
    ps[i].granulepos = FrameSize * Cardinality(OfStream(ps, i, ps[i].serial))

Positions ==
  faults = <<>> =>
    /\ PositionsRight(Sequence)
    /\ granulepos = FrameSize * Cardinality(OfStream(Sequence, Len(Sequence), serial))
    /\ \A k \in DOMAIN Sequence : Sequence[k].serial <= serial

\* Sequences of packets may be put together in any order of the operations.
LEMMA Associative ==
  \A s, t, u \in Seq(Packets) : (s \o t) \o u = s \o (t \o u)
BY ConcatAssociative

\* The packets of a stream can be counted.
LEMMA CountIsNat ==
  ASSUME NEW ps, NEW n \in Nat, NEW s
  PROVE  IsFiniteSet(OfStream(ps, n, s)) /\ Cardinality(OfStream(ps, n, s)) \in Nat
<1>1. IsFiniteSet(1..n)
  BY FS_Interval
<1>2. OfStream(ps, n, s) \in SUBSET (1..n)
  BY DEF OfStream
<1>3. IsFiniteSet(OfStream(ps, n, s))
  BY <1>1, <1>2, FS_Subset
<1>4. QED BY <1>3, FS_CardinalityType

\* What is true of the first n packets does not depend on those behind them.
LEMMA CountOfPrefix ==
  ASSUME NEW ps \in Seq(Packets), NEW qs \in Seq(Packets), NEW n \in 0..Len(ps), NEW s,
         Len(ps) <= Len(qs), \A k \in 1..Len(ps) : qs[k] = ps[k]
  PROVE  OfStream(qs, n, s) = OfStream(ps, n, s)
<1>1. \A k \in 1..n : k \in 1..Len(ps)
  OBVIOUS
<1>2. \A k \in 1..n : qs[k] = ps[k]
  BY <1>1
<1>3. QED BY <1>2 DEF OfStream

\* One packet more, of any stream.
LEMMA OneMore ==
  ASSUME NEW ps \in Seq(Packets), NEW p \in Packets, PositionsRight(ps),
         p.granulepos = FrameSize * Cardinality(OfStream(ps, Len(ps), p.serial)) + FrameSize
  PROVE  /\ PositionsRight(Append(ps, p))
         /\ Cardinality(OfStream(Append(ps, p), Len(ps) + 1, p.serial)) =
              Cardinality(OfStream(ps, Len(ps), p.serial)) + 1
<1> DEFINE qs == Append(ps, p)
           before == OfStream(ps, Len(ps), p.serial)
<1>1. /\ qs \in Seq(Packets) /\ Len(ps) \in Nat /\ Len(qs) = Len(ps) + 1
      /\ DOMAIN ps = 1..Len(ps) /\ DOMAIN qs = 1..(Len(ps) + 1)
      /\ qs[Len(ps) + 1] = p /\ \A k \in 1..Len(ps) : qs[k] = ps[k]
  OBVIOUS
<1>2. HIDE DEF qs
<1>3. OfStream(qs, Len(ps) + 1, p.serial) = before \union {Len(ps) + 1}
  <2>1. \A k \in 1..(Len(ps) + 1) : k \in 1..Len(ps) \/ k = Len(ps) + 1
    BY <1>1
  <2>2. Len(ps) + 1 \in 1..(Len(ps) + 1) /\ 1..Len(ps) \subseteq 1..(Len(ps) + 1)
    BY <1>1
  <2>3. QED BY <1>1, <2>1, <2>2 DEF OfStream
<1>4. Cardinality(before \union {Len(ps) + 1}) = Cardinality(before) + 1
  <2>1. IsFiniteSet(before) /\ Cardinality(before) \in Nat
    BY <1>1, CountIsNat
  <2>2. Len(ps) + 1 \notin before
    BY <1>1 DEF OfStream
  <2>3. QED BY <2>1, <2>2, FS_AddElement
<1>5. p.granulepos = FrameSize * Cardinality(OfStream(qs, Len(ps) + 1, p.serial))
  <2>1. Cardinality(before) \in Nat /\ FrameSize \in Nat
    BY <1>1, CountIsNat, FramesAssumption
  <2>2. \A c \in Nat, f \in Nat : f * (c + 1) = f * c + f
    OBVIOUS
  <2>3. QED BY <1>3, <1>4, <2>1, <2>2
<1>6. ASSUME NEW i \in DOMAIN qs
      PROVE  qs[i].granulepos = FrameSize * Cardinality(OfStream(qs, i, qs[i].serial))
  <2>1. CASE i = Len(ps) + 1
    BY <2>1, <1>1, <1>5
  <2>2. CASE i \in DOMAIN ps
    <3>1. i \in 0..Len(ps) /\ qs[i] = ps[i] /\ Len(ps) <= Len(qs)
      BY <2>2, <1>1
    <3>2. OfStream(qs, i, ps[i].serial) = OfStream(ps, i, ps[i].serial)
      BY <3>1, <1>1, CountOfPrefix
    <3>3. QED BY <2>2, <3>1, <3>2 DEF PositionsRight
  <2>3. QED BY <2>1, <2>2, <1>1, <1>6
<1>7. PositionsRight(qs)
  BY <1>6 DEF PositionsRight
<1>8. QED BY <1>3, <1>4, <1>7 DEF qs

\* Fewer packets at the end.
LEMMA Fewer ==
  ASSUME NEW ps \in Seq(Packets), NEW more \in Seq(Packets), PositionsRight(ps \o more)
  PROVE  PositionsRight(ps)
<1> DEFINE qs == ps \o more
<1>1. /\ qs \in Seq(Packets) /\ Len(ps) \in Nat /\ Len(ps) <= Len(qs)
      /\ DOMAIN ps = 1..Len(ps) /\ DOMAIN ps \subseteq DOMAIN qs
      /\ \A k \in 1..Len(ps) : qs[k] = ps[k]
  OBVIOUS
<1>2. HIDE DEF qs
<1>3. ASSUME NEW i \in DOMAIN ps
      PROVE  ps[i].granulepos = FrameSize * Cardinality(OfStream(ps, i, ps[i].serial))
  <2>1. i \in 0..Len(ps) /\ i \in DOMAIN qs /\ qs[i] = ps[i]
    BY <1>1
  <2>2. OfStream(qs, i, ps[i].serial) = OfStream(ps, i, ps[i].serial)
    BY <2>1, <1>1, CountOfPrefix
  <2>3. PositionsRight(qs)
    BY DEF qs
  <2>4. QED BY <2>1, <2>2, <2>3 DEF PositionsRight
<1>4. QED BY <1>3 DEF PositionsRight

\* The first n packets in front of the others.
LEMMA QueueCut ==
  ASSUME IInv, pc = "emitting", NEW n \in 0..(Len(packets) + 1)
  PROVE  LET queue == Append(packets, Packet)
             a == SubSeq(queue, 1, n)
             b == SubSeq(queue, n + 1, Len(queue))
         IN a \in Seq(Packets) /\ b \in Seq(Packets) /\ a \o b = queue
<1> DEFINE queue == Append(packets, Packet)
           a == SubSeq(queue, 1, n)
           b == SubSeq(queue, n + 1, Len(queue))
<1>1. queue \in Seq(Packets) /\ Len(queue) = Len(packets) + 1 /\ Len(queue) \in Nat
  BY PacketIs DEF IInv, TypeOK
<1>2. a \in Seq(Packets) /\ b \in Seq(Packets)
  BY QueueIs
<1>3. a \o b = queue
  <2> HIDE DEF queue
  <2>1. /\ 1 \in 1..(Len(queue) + 1) /\ n \in (1 - 1)..Len(queue)
        /\ Len(queue) \in n..Len(queue)
    BY <1>1
  <2>2. a \o b = SubSeq(queue, 1, Len(queue))
    BY <1>1, <2>1, ConcatAdjacentSubSeq
  <2>3. QED BY <1>1, <2>2, SubSeqFull
<1>4. QED BY <1>2, <1>3

\* A packet goes to the end of what is on its way, however many leave in pages.
LEMMA EmitAppends ==
  ASSUME IInv, EmitLast \/ \E n \in 0..(Len(packets) + 1) : Emit(n)
  PROVE  Sequence' = Append(Sequence, Packet)
<1>1. /\ sent \in Seq(Packets) /\ out \in Seq(Packets) /\ packets \in Seq(Packets)
      /\ sent \o out \in Seq(Packets)
  BY DEF IInv, TypeOK
<1>2. Packet \in Packets
  BY PacketIs DEF Emit, EmitLast, IInv
<1>3. ASSUME NEW n \in 0..(Len(packets) + 1), Emit(n)
      PROVE  Sequence' = Append(Sequence, Packet)
  <2> DEFINE queue == Append(packets, Packet)
             a == SubSeq(queue, 1, n)
             b == SubSeq(queue, n + 1, Len(queue))
  <2>1. a \in Seq(Packets) /\ b \in Seq(Packets) /\ a \o b = queue
    BY <1>3, QueueCut DEF Emit
  <2>2. sent' = sent /\ out' = out \o a /\ packets' = b
    BY <1>3 DEF Emit
  <2> HIDE DEF a, b
  <2> HIDE DEF queue
  <2>3. sent \o (out \o a) = (sent \o out) \o a
    BY <1>1, <2>1, Associative
  <2>4. ((sent \o out) \o a) \o b = (sent \o out) \o queue
    <3>1. ((sent \o out) \o a) \o b = (sent \o out) \o (a \o b)
      BY <1>1, <2>1, Associative
    <3>2. QED BY <3>1, <2>1
  <2>5. (sent \o out) \o queue = Append((sent \o out) \o packets, Packet)
    BY <1>1, <1>2 DEF queue
  <2>6. QED BY <2>2, <2>3, <2>4, <2>5 DEF Sequence
<1>4. CASE EmitLast
  <2>1. out = <<>> /\ out' = <<>> /\ packets' = <<>> /\ sent' = sent \o Append(packets, Packet)
    BY <1>4 DEF EmitLast, IInv, Rest
  <2>2. sent \o out = sent
    BY <1>1, <2>1
  <2>3. sent \o Append(packets, Packet) = Append(sent \o packets, Packet)
    BY <1>1, <1>2
  <2>4. /\ sent' \in Seq(Packets) /\ (sent' \o <<>>) = sent'
    BY <1>1, <1>2, <2>1
  <2>5. (sent' \o <<>>) \o <<>> = sent'
    BY <2>4
  <2>6. QED BY <2>1, <2>2, <2>3, <2>5 DEF Sequence
<1>5. QED BY <1>3, <1>4

\* So its position is right, if those before it are.
LEMMA SequenceGrows ==
  ASSUME IInv, pc = "emitting", faults = <<>>, faults' = <<>>, serial' = serial,
         granulepos' = granulepos + FrameSize, Positions,
         Sequence' = Append(Sequence, Packet)
  PROVE  Positions'
<1> DEFINE count == Cardinality(OfStream(Sequence, Len(Sequence), serial))
<1>1. Sequence \in Seq(Packets) /\ Packet \in Packets /\ Len(Sequence) \in Nat
  BY PacketIs DEF IInv, TypeOK, Sequence
<1>2. Packet.serial = serial /\ Packet.granulepos = granulepos + FrameSize
  BY DEF Packet
<1>3. /\ PositionsRight(Sequence) /\ granulepos = FrameSize * count
      /\ \A k \in DOMAIN Sequence : Sequence[k].serial <= serial
  BY DEF Positions
<1>4. /\ PositionsRight(Append(Sequence, Packet))
      /\ Cardinality(OfStream(Append(Sequence, Packet), Len(Sequence) + 1, serial)) = count + 1
  <2>1. Packet.granulepos =
          FrameSize * Cardinality(OfStream(Sequence, Len(Sequence), Packet.serial)) + FrameSize
    BY <1>2, <1>3
  <2>2. QED BY <1>1, <1>2, <1>3, <2>1, OneMore
<1>5. granulepos' = FrameSize * (count + 1)
  <2>1. count \in Nat /\ FrameSize \in Nat
    BY <1>1, CountIsNat, FramesAssumption
  <2>2. \A c \in Nat, f \in Nat : f * (c + 1) = f * c + f
    OBVIOUS
  <2>3. QED BY <1>3, <2>1, <2>2
<1>6. \A k \in DOMAIN Sequence' : Sequence'[k].serial <= serial'
  <2>1. serial \in Nat
    BY FramesAssumption DEF IInv, TypeOK
  <2>2. ASSUME NEW k \in DOMAIN Sequence'
        PROVE  Sequence'[k].serial <= serial'
    <3>1. (k \in DOMAIN Sequence /\ Sequence'[k] = Sequence[k]) \/ Sequence'[k] = Packet
      BY <1>1
    <3>2. QED BY <1>2, <1>3, <2>1, <3>1
  <2>3. QED BY <2>2
<1>7. Len(Sequence') = Len(Sequence) + 1
  BY <1>1
<1>8. QED BY <1>4, <1>5, <1>6, <1>7 DEF Positions

\* Every step keeps the positions right; a failure ends the claim.
LEMMA PositionsNext == IInv /\ Positions /\ [Next]_vars => Positions'
<1> SUFFICES ASSUME IInv, Positions, [Next]_vars, faults' = <<>>
             PROVE  Positions'
  BY DEF Positions
<1>1. /\ sent \in Seq(Packets) /\ out \in Seq(Packets) /\ packets \in Seq(Packets)
      /\ sent \o out \in Seq(Packets) /\ faults \in Seq({"encode", "packetin", "page"})
  BY DEF IInv, TypeOK
<1>2. CASE UNCHANGED <<sent, out, packets, serial, granulepos, faults>>
  BY <1>2 DEF Positions, Sequence
<1>3. CASE Return
  <2>1. Sequence' = Sequence
    <3>1. sent' = sent \o out /\ out' = <<>> /\ packets' = packets
      BY <1>3 DEF Return
    <3>2. sent' \o out' = sent \o out
      BY <1>1, <3>1
    <3>3. QED BY <3>1, <3>2 DEF Sequence
  <2>2. UNCHANGED <<serial, granulepos, faults>>
    BY <1>3 DEF Return
  <2>3. QED BY <2>1, <2>2 DEF Positions
<1>4. CASE EmitLast \/ \E n \in 0..(Len(packets) + 1) : Emit(n)
  <2>1. Sequence' = Append(Sequence, Packet)
    BY <1>4, EmitAppends
  <2>2. QED BY <1>4, <2>1, SequenceGrows DEF Emit, EmitLast
<1>6. CASE Restart
  <2>1. /\ serial' = serial + 1 /\ granulepos' = 0 /\ packets' = <<>>
        /\ sent' = sent /\ out' = out /\ faults' = faults
    BY <1>6 DEF Restart
  <2>2. /\ Sequence = (sent \o out) \o packets /\ Sequence' = sent \o out
        /\ Len(sent \o out) \in Nat
    BY <1>1, <2>1 DEF Sequence
  <2>3. PositionsRight(Sequence')
    BY <1>1, <2>1, <2>2, Fewer DEF Positions
  <2>4. \A k \in DOMAIN Sequence' : Sequence'[k].serial <= serial /\ Sequence'[k].serial \in Nat
    <3>1. \A k \in DOMAIN (sent \o out) :
            k \in DOMAIN Sequence /\ Sequence[k] = (sent \o out)[k]
      BY <1>1, <2>2
    <3>2. \A k \in DOMAIN (sent \o out) : (sent \o out)[k] \in Packets
      BY <1>1
    <3>3. \A p \in Packets : p.serial \in Nat
      BY FramesAssumption DEF Packets
    <3>4. QED BY <2>1, <2>2, <3>1, <3>2, <3>3 DEF Positions
  <2>5. serial \in Nat /\ FrameSize \in Nat
    BY FramesAssumption DEF IInv, TypeOK
  <2>6. OfStream(Sequence', Len(Sequence'), serial') = {}
    <3>1. DOMAIN Sequence' = 1..Len(Sequence')
      BY <1>1, <2>2
    <3>2. QED BY <2>1, <2>4, <2>5, <3>1 DEF OfStream
  <2>7. granulepos' = FrameSize * Cardinality(OfStream(Sequence', Len(Sequence'), serial'))
    <3>1. Cardinality(OfStream(Sequence', Len(Sequence'), serial')) = 0
      BY <2>6, FS_EmptySet
    <3>2. FrameSize * 0 = 0
      BY <2>5
    <3>3. QED BY <2>1, <3>1, <3>2
  <2>8. \A k \in DOMAIN Sequence' : Sequence'[k].serial <= serial'
    BY <2>1, <2>4, <2>5
  <2>9. QED BY <2>3, <2>7, <2>8 DEF Positions
<1>7. CASE EncodeFails \/ PacketinFails \/ \E n \in 1..(Len(packets) + 1) : PageFails(n)
  <2>1. PICK fault \in {"encode", "packetin", "page"} : faults' = Append(faults, fault)
    BY <1>7 DEF EncodeFails, PacketinFails, PageFails, Gives
  <2>2. QED BY <1>1, <2>1
<1>8. CASE \/ \E n \in 1..MaxSamples : CallbackEncodes(n) \/ CallbackDrops(n)
           \/ Take \/ Flush \/ UNCHANGED vars
  BY <1>8, <1>2 DEF CallbackEncodes, CallbackDrops, Take, Flush, vars
<1>9. QED BY <1>3, <1>4, <1>6, <1>7, <1>8 DEF Next, CallSteps

\* Before the first packet every count is 0.
LEMMA PositionsInit == Init => Positions
<1> SUFFICES ASSUME Init PROVE Positions
  OBVIOUS
<1>1. Sequence = <<>>
  BY DEF Init, Sequence
<1>2. OfStream(Sequence, Len(Sequence), serial) = {}
  BY <1>1 DEF OfStream
<1>3. granulepos = FrameSize * Cardinality(OfStream(Sequence, Len(Sequence), serial))
  BY <1>2, FS_EmptySet, FramesAssumption DEF Init
<1>4. QED BY <1>1, <1>3 DEF Positions, PositionsRight

-----------------------------------------------------------------------------
(***************************************************************************)
(* With failures.  The encoder is at or behind the position of the last    *)
(* packet of its present stream, also where a packet has been lost; so the *)
(* next packet is a frame or more further on than any before it.           *)
(***************************************************************************)
Advancing ==
  /\ \A i, k \in DOMAIN Sequence : i < k => Later(Sequence[i], Sequence[k])
  /\ \A i \in DOMAIN Sequence :
       /\ Sequence[i].granulepos >= FrameSize
       /\ \/ Sequence[i].serial < serial
          \/ Sequence[i].serial = serial /\ Sequence[i].granulepos <= granulepos

\* Without t in the middle the others are where they were, or closer to the front.
LEMMA WithoutMiddle ==
  ASSUME NEW s \in Seq(Packets), NEW t \in Seq(Packets), NEW u \in Seq(Packets)
  PROVE  \A i \in DOMAIN (s \o u) :
           LET j == IF i <= Len(s) THEN i ELSE i + Len(t)
           IN j \in DOMAIN ((s \o t) \o u) /\ ((s \o t) \o u)[j] = (s \o u)[i]
<1> SUFFICES ASSUME NEW i \in DOMAIN (s \o u)
             PROVE  LET j == IF i <= Len(s) THEN i ELSE i + Len(t)
                    IN j \in DOMAIN ((s \o t) \o u) /\ ((s \o t) \o u)[j] = (s \o u)[i]
  OBVIOUS
<1>1. /\ Len(s) \in Nat /\ Len(t) \in Nat /\ Len(u) \in Nat /\ i \in 1..(Len(s) + Len(u))
      /\ Len(s \o t) = Len(s) + Len(t) /\ s \o t \in Seq(Packets)
  OBVIOUS
<1>2. CASE i <= Len(s)
  BY <1>1, <1>2
<1>3. CASE ~(i <= Len(s))
  BY <1>1, <1>3
<1>4. QED BY <1>2, <1>3

\* A call fails: it loses packets from the middle of the sequence, and perhaps its own
\* packet with them.
LEMMA LossAdvances ==
  ASSUME IInv, Advancing, pc = "emitting", serial' = serial,
         NEW s \in Seq(Packets), NEW t \in Seq(Packets), NEW u \in Seq(Packets),
         Sequence' = s \o u,
         \/ (s \o t) \o u = Sequence /\ granulepos' \in {granulepos, granulepos + FrameSize}
         \/ (s \o t) \o u = Append(Sequence, Packet) /\ granulepos' = granulepos + FrameSize
  PROVE  Advancing'
<1> DEFINE all == (s \o t) \o u
           At(i) == IF i <= Len(s) THEN i ELSE i + Len(t)
<1>1. /\ Sequence \in Seq(Packets) /\ Packet \in Packets /\ granulepos \in Nat
      /\ FrameSize \in Nat /\ serial \in Nat /\ all \in Seq(Packets)
  BY FramesAssumption, PacketIs DEF IInv, TypeOK, Sequence
<1>2. Packet.serial = serial /\ Packet.granulepos = granulepos + FrameSize
  BY DEF Packet
<1>3. \A p \in Packets : p.serial \in Nat /\ p.granulepos \in Nat
  BY FramesAssumption DEF Packets
<1>4. \/ all = Sequence /\ granulepos' \in {granulepos, granulepos + FrameSize}
      \/ all = Append(Sequence, Packet) /\ granulepos' = granulepos + FrameSize
  OBVIOUS
<1>5. \A i \in DOMAIN (s \o u) : At(i) \in DOMAIN all /\ all[At(i)] = (s \o u)[i]
  BY WithoutMiddle
<1>6. \A i, k \in DOMAIN (s \o u) : i < k => At(i) < At(k)
  <2>1. Len(s) \in Nat /\ Len(t) \in Nat /\ DOMAIN (s \o u) \subseteq Int
    OBVIOUS
  <2>2. QED BY <2>1
<1> HIDE DEF all, At
<1>7. \A i, k \in DOMAIN all : i < k => Later(all[i], all[k])
  <2> SUFFICES ASSUME NEW i \in DOMAIN all, NEW k \in DOMAIN all, i < k
               PROVE  Later(all[i], all[k])
    OBVIOUS
  <2>1. CASE all = Sequence
    BY <2>1 DEF Advancing
  <2>2. CASE all = Append(Sequence, Packet)
    <3>1. i \in DOMAIN Sequence /\ all[i] = Sequence[i]
      BY <1>1, <2>2
    <3>2. CASE k \in DOMAIN Sequence
      BY <1>1, <2>2, <3>1, <3>2 DEF Advancing
    <3>3. CASE k \notin DOMAIN Sequence
      <4>1. all[k] = Packet
        BY <1>1, <2>2, <3>3
      <4>2. Sequence[i] \in Packets
        BY <1>1, <3>1
      <4>3. \/ Sequence[i].serial < serial
            \/ Sequence[i].serial = serial /\ Sequence[i].granulepos <= granulepos
        BY <3>1 DEF Advancing
      <4>4. Later(Sequence[i], Packet)
        BY <1>1, <1>2, <1>3, <4>2, <4>3 DEF Later
      <4>5. QED BY <3>1, <4>1, <4>4
    <3>4. QED BY <3>2, <3>3
  <2>3. QED BY <1>4, <2>1, <2>2
<1>8. \A i \in DOMAIN all :
        /\ all[i].granulepos >= FrameSize
        /\ \/ all[i].serial < serial
           \/ all[i].serial = serial /\ all[i].granulepos <= granulepos'
  <2> SUFFICES ASSUME NEW i \in DOMAIN all
               PROVE  /\ all[i].granulepos >= FrameSize
                      /\ \/ all[i].serial < serial
                         \/ all[i].serial = serial /\ all[i].granulepos <= granulepos'
    OBVIOUS
  <2>1. CASE i \in DOMAIN Sequence /\ all[i] = Sequence[i]
    <3>1. Sequence[i] \in Packets
      BY <1>1, <2>1
    <3>2. QED BY <1>1, <1>3, <1>4, <2>1, <3>1 DEF Advancing
  <2>2. CASE all[i] = Packet /\ granulepos' = granulepos + FrameSize
    BY <1>1, <1>2, <2>2
  <2>3. CASE all = Sequence
    BY <2>1, <2>3
  <2>4. CASE all = Append(Sequence, Packet) /\ granulepos' = granulepos + FrameSize
    <3>1. CASE i \in DOMAIN Sequence
      <4>1. all[i] = Sequence[i]
        BY <1>1, <2>4, <3>1
      <4>2. QED BY <2>1, <3>1, <4>1
    <3>2. CASE i \notin DOMAIN Sequence
      <4>1. all = Append(Sequence, Packet)
        BY <2>4
      <4>2. all[i] = Packet
        BY <1>1, <3>2, <4>1
      <4>3. QED BY <2>2, <2>4, <4>2
    <3>3. QED BY <3>1, <3>2
  <2>5. QED BY <1>4, <2>3, <2>4
<1>9. QED BY <1>7, <1>8, <1>5, <1>6 DEF Advancing

\* Every step, also of a call that fails.
LEMMA AdvancingNext == IInv /\ Advancing /\ [Next]_vars => Advancing'
<1> SUFFICES ASSUME IInv, Advancing, [Next]_vars
             PROVE  Advancing'
  OBVIOUS
<1>1. /\ sent \in Seq(Packets) /\ out \in Seq(Packets) /\ packets \in Seq(Packets)
      /\ sent \o out \in Seq(Packets)
  BY DEF IInv, TypeOK
<1>2. /\ Sequence \in Seq(Packets) /\ <<>> \in Seq(Packets)
      /\ \A q \in Seq(Packets) : (q \o <<>>) \o <<>> = q /\ q \o <<>> = q
  BY <1>1 DEF Sequence
<1>3. CASE UNCHANGED <<sent, out, packets, serial, granulepos>>
  BY <1>3 DEF Advancing, Sequence
<1>4. CASE Return
  <2>1. sent' \o out' = sent \o out
    BY <1>1, <1>4 DEF Return
  <2>2. QED BY <1>4, <2>1 DEF Return, Advancing, Sequence
<1>5. CASE EmitLast \/ \E n \in 0..(Len(packets) + 1) : Emit(n)
  <2>1. /\ pc = "emitting" /\ serial' = serial /\ granulepos' = granulepos + FrameSize
        /\ Sequence' = Append(Sequence, Packet)
    BY <1>5, EmitAppends DEF Emit, EmitLast
  <2>2. Append(Sequence, Packet) \in Seq(Packets)
    BY <1>2, <2>1, PacketIs DEF IInv
  <2>3. QED BY <1>2, <2>1, <2>2, LossAdvances
<1>6. CASE Restart
  <2>1. /\ serial' = serial + 1 /\ Sequence = (sent \o out) \o packets
        /\ Sequence' = sent \o out
    BY <1>1, <1>6 DEF Restart, Sequence
  <2>2. \A i \in DOMAIN (sent \o out) : i \in DOMAIN Sequence /\ Sequence[i] = (sent \o out)[i]
    BY <1>1, <2>1
  <2>3. \A i \in DOMAIN Sequence : Sequence[i].serial \in Nat
    <3>1. \A i \in DOMAIN Sequence : Sequence[i] \in Packets
      BY <1>2
    <3>2. QED BY <3>1, FramesAssumption DEF Packets
  <2>4. serial \in Nat
    BY FramesAssumption DEF IInv, TypeOK
  <2>5. ASSUME NEW i \in DOMAIN Sequence'
        PROVE  /\ Sequence'[i].granulepos >= FrameSize
               /\ Sequence'[i].serial < serial'
    <3>1. i \in DOMAIN Sequence /\ Sequence'[i] = Sequence[i]
      BY <2>1, <2>2
    <3>2. Sequence[i].serial <= serial /\ Sequence[i].serial \in Nat
      BY <2>3, <2>4, <3>1 DEF Advancing
    <3>3. QED BY <2>1, <2>4, <3>1, <3>2 DEF Advancing
  <2>6. ASSUME NEW i \in DOMAIN Sequence', NEW k \in DOMAIN Sequence', i < k
        PROVE  Later(Sequence'[i], Sequence'[k])
    BY <2>1, <2>2, <2>6 DEF Advancing
  <2>7. QED BY <2>5, <2>6 DEF Advancing
<1>7. CASE EncodeFails \/ PacketinFails
  <2>1. /\ pc = "emitting" /\ serial' = serial
        /\ granulepos' \in {granulepos, granulepos + FrameSize}
        /\ sent' = sent /\ out' = <<>> /\ packets' = packets
    BY <1>7 DEF EncodeFails, PacketinFails, Gives
  <2>2. Sequence' = sent \o packets /\ Sequence = (sent \o out) \o packets
    BY <1>1, <2>1 DEF Sequence
  <2>3. QED BY <1>1, <2>1, <2>2, LossAdvances
<1>8. ASSUME NEW n \in 1..(Len(packets) + 1), PageFails(n)
      PROVE  Advancing'
  <2> DEFINE queue == Append(packets, Packet)
             a == SubSeq(queue, 1, n)
             b == SubSeq(queue, n + 1, Len(queue))
  <2>1. /\ pc = "emitting" /\ serial' = serial /\ granulepos' = granulepos + FrameSize
        /\ sent' = sent /\ out' = <<>> /\ packets' = b
    BY <1>8 DEF PageFails, Gives
  <2>2. Packet \in Packets /\ n \in 0..(Len(packets) + 1)
    BY <1>8, <2>1, PacketIs DEF IInv
  <2>3. a \in Seq(Packets) /\ b \in Seq(Packets) /\ a \o b = queue
    BY <2>1, <2>2, QueueCut
  <2>4. (sent \o out) \o queue = Append(Sequence, Packet)
    BY <1>1, <2>2 DEF Sequence
  <2> HIDE DEF a, b
  <2> HIDE DEF queue
  <2>5. (sent \o (out \o a)) \o b = Append(Sequence, Packet)
    <3>1. (sent \o out) \o a = sent \o (out \o a)
      BY <1>1, <2>3, Associative
    <3>2. ((sent \o out) \o a) \o b = (sent \o out) \o (a \o b)
      BY <1>1, <2>3, Associative
    <3>3. QED BY <2>3, <2>4, <3>1, <3>2
  <2>6. Sequence' = sent \o b /\ out \o a \in Seq(Packets)
    BY <1>1, <2>1, <2>3 DEF Sequence
  <2>7. QED BY <1>1, <2>1, <2>3, <2>5, <2>6, LossAdvances
<1>9. CASE \/ \E n \in 1..MaxSamples : CallbackEncodes(n) \/ CallbackDrops(n)
           \/ Take \/ Flush \/ UNCHANGED vars
  BY <1>9, <1>3 DEF CallbackEncodes, CallbackDrops, Take, Flush, vars
<1>10. QED BY <1>4, <1>5, <1>6, <1>7, <1>8, <1>9 DEF Next, CallSteps

\* Through every title, reconnect and failure of the encoder: the position of every
\* packet, sent or under way, is a frame or more behind that of the packet before it in
\* its stream, streams follow one another, and until a call fails the position is the
\* number of samples of the stream up to the end of the packet.
THEOREM PositionsCount == Spec => []PositionCountsSamples
<1>1. Advancing /\ Positions => PositionCountsSamples
  BY DEF Advancing, Positions, PositionsRight, OfStream, PositionCountsSamples
<1>2. Init => Advancing
  <2>1. Init => Sequence = <<>>
    BY DEF Init, Sequence
  <2>2. QED BY <2>1 DEF Advancing
<1>3. QED
  BY <1>1, <1>2, AdvancingNext, PositionsInit, PositionsNext, Invariant, PTL DEF Spec
=============================================================================
