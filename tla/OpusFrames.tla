----------------------------- MODULE OpusFrames ------------------------------
(***************************************************************************)
(* The audio path of the Opus encoder: radio_output_raw_audio hands over   *)
(* what libobs delivers, in pieces of any length; opus_encode_frame cuts   *)
(* it into frames of 20 ms in an accumulator, each frame becomes a packet  *)
(* of the Ogg stream, and libogg decides when packets fill a page.  A      *)
(* reconnect or a title restarts the Ogg stream between two calls, and the *)
(* teardown flushes it.                                                    *)
(*                                                                         *)
(* A sample is its number in what libobs has delivered, and 0 is silence.  *)
(* Pages are left out: what leaves is the packets in them.  Everything     *)
(* happens under encoder_mutex; whoever does not get it drops its samples. *)
(***************************************************************************)
EXTENDS Integers, Sequences, FiniteSets

CONSTANTS
  FrameSize,   \* OPUS_FRAME_SIZE
  MaxSamples,  \* bounds of this model on the samples delivered,
  MaxRestarts, \* the restarts of the stream,
  MaxFaults    \* and the failures of libopus, libogg or the scratch buffer

ASSUME FramesAssumption ==
  /\ FrameSize \in Nat \ {0}
  /\ MaxSamples \in Nat /\ MaxRestarts \in Nat /\ MaxFaults \in Nat

VARIABLES
  pc,         \* "idle", "filling" or "emitting" in a call, "closed" after the flush
  delivered,  \* samples delivered by libobs, the present callback's included
  next,       \* the first of them that the present call has not taken
  accum,      \* st->accum up to st->accum_fill
  last,       \* the call is the flush
  serial,     \* the logical stream
  granulepos, \* st->granulepos
  packets,    \* st->os: packets that have left in no page
  out,        \* scratch buffer: the packets of the pages of this call
  sent,       \* history: the packets that raw_audio and the teardown were given
  dropped,    \* history: samples that were given up
  faults      \* history: the failures, in order

vars == <<pc, delivered, next, accum, last, serial, granulepos, packets, out, sent,
          dropped, faults>>

Init ==
  /\ pc = "idle" /\ delivered = 0 /\ next = 1
  /\ accum = <<>> /\ last = FALSE
  /\ serial = 0 /\ granulepos = 0
  /\ packets = <<>> /\ out = <<>> /\ sent = <<>>
  /\ dropped = {} /\ faults = <<>>

\* The samples of a packet or of the accumulator, without silence.
Audio(samples) == {samples[i] : i \in DOMAIN samples} \ {0}
AudioOf(ps) == UNION {Audio(ps[i].samples) : i \in DOMAIN ps}

-----------------------------------------------------------------------------
(***************************************************************************)
(* radio_output_raw_audio.                                                 *)
(***************************************************************************)
Delivers(n) == delivered + n <= MaxSamples /\ delivered' = delivered + n

\* The mutex is taken: opus_encode_frame begins.
CallbackEncodes(n) ==
  /\ pc = "idle"
  /\ Delivers(n)
  /\ pc' = "filling"
  /\ next' = delivered + 1
  /\ UNCHANGED <<accum, last, serial, granulepos, packets, out, sent, dropped, faults>>

\* It is not: a restart holds it, and the audio of this callback is dropped.
CallbackDrops(n) ==
  /\ pc = "idle"
  /\ Delivers(n)
  /\ next' = delivered' + 1
  /\ dropped' = dropped \union (delivered + 1)..delivered'
  /\ UNCHANGED <<pc, accum, last, serial, granulepos, packets, out, sent, faults>>

-----------------------------------------------------------------------------
(***************************************************************************)
(* opus_encode_frame.                                                      *)
(***************************************************************************)
Avail == delivered - next + 1

\* Mutant: the round takes what there is room for, also when libobs gave less.
TakeWholeFrame ==
  /\ pc = "filling" /\ Avail > 0
  /\ LET take == FrameSize - Len(accum)
     IN /\ accum' = accum \o [k \in 1..take |-> next + k - 1]
        /\ next' = next + take
  /\ pc' = IF Len(accum') = FrameSize THEN "emitting" ELSE "filling"
  /\ UNCHANGED <<delivered, last, serial, granulepos, packets, out, sent, dropped, faults>>

\* Mutant: a sample too many is skipped when a frame is full.
TakeSkips ==
  /\ pc = "filling" /\ Avail > 0
  /\ LET space == FrameSize - Len(accum)
         take == IF space > Avail THEN Avail ELSE space
     IN /\ accum' = accum \o [k \in 1..take |-> next + k - 1]
        /\ next' = IF take < Avail THEN next + take + 1 ELSE next + take
  /\ pc' = IF Len(accum') = FrameSize THEN "emitting" ELSE "filling"
  /\ UNCHANGED <<delivered, last, serial, granulepos, packets, out, sent, dropped, faults>>

\* Mutant: a round without room takes nothing, and emits nothing.
TakeOnlyIntoRoom ==
  /\ pc = "filling" /\ Avail > 0
  /\ LET space == FrameSize - Len(accum)
         take == IF space > Avail THEN Avail ELSE space
     IN /\ accum' = accum \o [k \in 1..take |-> next + k - 1]
        /\ next' = next + take
  /\ pc' = IF Len(accum') = FrameSize /\ next' > next THEN "emitting" ELSE "filling"
  /\ UNCHANGED <<delivered, last, serial, granulepos, packets, out, sent, dropped, faults>>

\* One round of the loop: as many samples as there are, or as there is room for, which
\* is none when the frame of a failed call is still there.
Take ==
  /\ pc = "filling" /\ Avail > 0
  /\ LET space == FrameSize - Len(accum)
         take == IF space > Avail THEN Avail ELSE space
     IN /\ accum' = accum \o [k \in 1..take |-> next + k - 1]
        /\ next' = next + take
  /\ pc' = IF Len(accum') = FrameSize THEN "emitting" ELSE "filling"
  /\ UNCHANGED <<delivered, last, serial, granulepos, packets, out, sent, dropped, faults>>

\* The end of the loop; raw_audio queues the pages.
Return ==
  /\ pc = "filling" /\ Avail = 0
  /\ pc' = "idle"
  /\ sent' = sent \o out /\ out' = <<>>
  /\ UNCHANGED <<delivered, next, accum, last, serial, granulepos, packets, dropped, faults>>

-----------------------------------------------------------------------------
(***************************************************************************)
(* emit_one_frame.                                                         *)
(***************************************************************************)
Packet == [serial |-> serial, samples |-> accum, granulepos |-> granulepos + FrameSize]

\* Mutant: the accumulator is not emptied.
EmitKeepsFrame(n) ==
  /\ pc = "emitting" /\ ~last
  /\ granulepos' = granulepos + FrameSize
  /\ LET queue == Append(packets, Packet)
     IN out' = out \o SubSeq(queue, 1, n) /\ packets' = SubSeq(queue, n + 1, Len(queue))
  /\ pc' = "filling"
  /\ UNCHANGED <<delivered, next, accum, last, serial, sent, dropped, faults>>

\* The packet goes in, and the first n packets come out in pages: none, as a rule.
Emit(n) ==
  /\ pc = "emitting" /\ ~last
  /\ granulepos' = granulepos + FrameSize
  /\ LET queue == Append(packets, Packet)
     IN out' = out \o SubSeq(queue, 1, n) /\ packets' = SubSeq(queue, n + 1, Len(queue))
  /\ accum' = <<>>
  /\ pc' = "filling"
  /\ UNCHANGED <<delivered, next, last, serial, sent, dropped, faults>>

\* The call returns -1.  What it had in the scratch buffer and what it had not taken yet
\* are given up; the frame stays in the accumulator, for the next call.
Gives(fault, more) ==
  /\ Len(faults) < MaxFaults
  /\ faults' = Append(faults, fault)
  /\ pc' = IF last THEN "closed" ELSE "idle"
  /\ out' = <<>>
  /\ next' = delivered + 1
  /\ dropped' = dropped \union AudioOf(out) \union next..delivered \union more
  /\ UNCHANGED <<delivered, accum, last, serial, sent>>

EncodeFails ==
  /\ pc = "emitting"
  /\ Gives("encode", {})
  /\ UNCHANGED <<granulepos, packets>>

\* The granule position has moved on by then.
PacketinFails ==
  /\ pc = "emitting"
  /\ granulepos' = granulepos + FrameSize
  /\ Gives("packetin", {})
  /\ UNCHANGED packets

\* A page of the first n packets does not fit into the scratch buffer, and is lost.
PageFails(n) ==
  /\ pc = "emitting"
  /\ granulepos' = granulepos + FrameSize
  /\ LET queue == Append(packets, Packet)
     IN /\ packets' = SubSeq(queue, n + 1, Len(queue))
        /\ Gives("page", AudioOf(SubSeq(queue, 1, n)))

-----------------------------------------------------------------------------
(***************************************************************************)
(* opus_restart_logical_stream, and opus_flush.                            *)
(***************************************************************************)
\* Mutant: the new stream goes on counting.
RestartKeepsPosition ==
  /\ pc = "idle" /\ serial < MaxRestarts
  /\ serial' = serial + 1
  /\ packets' = <<>>
  /\ dropped' = dropped \union AudioOf(packets)
  /\ UNCHANGED <<pc, delivered, next, accum, last, granulepos, out, sent, faults>>

\* A new serial, from position 0.  The packets that fill no page yet are lost, and what
\* is in the accumulator goes into the new stream.
Restart ==
  /\ pc = "idle" /\ serial < MaxRestarts
  /\ serial' = serial + 1
  /\ granulepos' = 0
  /\ packets' = <<>>
  /\ dropped' = dropped \union AudioOf(packets)
  /\ UNCHANGED <<pc, delivered, next, accum, last, out, sent, faults>>

\* The rest of the frame is silence.
Flush ==
  /\ pc = "idle"
  /\ pc' = "emitting" /\ last' = TRUE
  /\ accum' = [k \in 1..FrameSize |-> IF k <= Len(accum) THEN accum[k] ELSE 0]
  /\ UNCHANGED <<delivered, next, serial, granulepos, packets, out, sent, dropped, faults>>

\* Mutant: only what fills a page comes out.
FlushLeavesPackets ==
  /\ pc = "emitting" /\ last
  /\ granulepos' = granulepos + FrameSize
  /\ packets' = <<Packet>> /\ sent' = sent \o packets
  /\ accum' = <<>>
  /\ pc' = "closed"
  /\ UNCHANGED <<delivered, next, last, serial, out, dropped, faults>>

\* The last packet, with everything that was waiting.
EmitLast ==
  /\ pc = "emitting" /\ last
  /\ granulepos' = granulepos + FrameSize
  /\ packets' = <<>> /\ sent' = sent \o Append(packets, Packet)
  /\ accum' = <<>>
  /\ pc' = "closed"
  /\ UNCHANGED <<delivered, next, last, serial, out, dropped, faults>>

\* The steps of a call of the encoder.
CallSteps ==
  \/ Take \/ Return
  \/ \E n \in 0..(Len(packets) + 1) : Emit(n)
  \/ EncodeFails \/ PacketinFails
  \/ \E n \in 1..(Len(packets) + 1) : PageFails(n)
  \/ EmitLast

Next ==
  \/ \E n \in 1..MaxSamples : CallbackEncodes(n) \/ CallbackDrops(n)
  \/ CallSteps
  \/ Restart \/ Flush

\* A call that has begun goes on: nothing in it waits.
Spec == Init /\ [][Next]_vars /\ WF_vars(CallSteps)

-----------------------------------------------------------------------------
(***************************************************************************)
(* Properties.                                                             *)
(***************************************************************************)
Packets == [serial : 0..MaxRestarts, samples : [1..FrameSize -> 0..MaxSamples],
            granulepos : Nat]

\* The types.  Beside them the copies of opus_encode_frame stay inside: they read no
\* sample behind those that libobs delivered, whose number is next, and write none
\* behind the frame for which st->accum has room; each packet is a whole frame.
TypeOK ==
  /\ pc \in {"idle", "filling", "emitting", "closed"} /\ last \in BOOLEAN
  /\ delivered \in 0..MaxSamples /\ next \in 1..(delivered + 1)
  /\ accum \in Seq(0..MaxSamples) /\ Len(accum) <= FrameSize
  /\ (pc = "emitting" => Len(accum) = FrameSize)
  /\ serial \in 0..MaxRestarts /\ granulepos \in Nat
  /\ packets \in Seq(Packets) /\ out \in Seq(Packets) /\ sent \in Seq(Packets)
  /\ dropped \subseteq 1..delivered
  /\ faults \in Seq({"encode", "packetin", "page"})

Had(fault) == \E i \in DOMAIN faults : faults[i] = fault

\* What left, what waits for a page and what is in the accumulator, in this order.
Sequence == sent \o out \o packets

\* However libobs cuts the audio, whatever is dropped and however often the stream is
\* restarted: no sample is in two packets and none overtakes another, also when a
\* frame is encoded again after a failure.  Only a page that did not fit into the
\* scratch buffer breaks this: its packets are gone and its last frame is encoded
\* again, behind those that stayed (radio-opus-encoder.c 87-89 holds that this "should
\* never fire in practice").
AudioInOrder ==
  ~Had("page") =>
    /\ \A i, k \in DOMAIN Sequence : i < k =>
         \A a \in Audio(Sequence[i].samples), b \in Audio(Sequence[k].samples) : a < b
    /\ \A i \in DOMAIN Sequence, b \in Audio(accum) :
         \A a \in Audio(Sequence[i].samples) : a < b

\* No sample vanishes: it is on its way, has been sent, or was given up at one of the
\* four places where the code gives audio up (a callback that finds the mutex taken,
\* the call that fails, the page that does not fit, the packets a restart discards).
NoSilentLoss ==
  LET kept == AudioOf(Sequence) \union Audio(accum) \union next..delivered
  IN (1..delivered) \ dropped \subseteq kept

\* A packet that may follow p: of a later stream, or a frame or more further on.
Later(p, q) ==
  \/ p.serial < q.serial
  \/ p.serial = q.serial /\ p.granulepos + FrameSize <= q.granulepos

\* Whatever fails and however often: no stream is resumed after its successor has begun,
\* and in each the position grows by a frame at least from packet to packet, from 0
\* (radio-opus-encoder.c 314-315), so that the clock of a player never goes back.  Until
\* a call fails it grows by a frame exactly, and is the number of samples in the stream
\* up to the end of the packet.  (A failed ogg_stream_packetin moves it without a packet.)
PositionCountsSamples ==
  /\ \A i, k \in DOMAIN Sequence : i < k => Later(Sequence[i], Sequence[k])
  /\ \A i \in DOMAIN Sequence : Sequence[i].granulepos >= FrameSize
  /\ faults = <<>> =>
       \A i \in DOMAIN Sequence :
         Sequence[i].granulepos =
           FrameSize * Cardinality({k \in 1..i : Sequence[k].serial = Sequence[i].serial})

\* Every call of the encoder returns, and with it encoder_mutex is free again and the
\* audio thread of libobs goes on: also when a failed call has left a full frame, in
\* front of which the next call finds no room for a single sample.
EncoderReturns == pc \in {"filling", "emitting"} ~> pc \in {"idle", "closed"}

\* After a flush that succeeds (one that fails keeps its frame in the accumulator) every
\* sample has been sent or was given up, also what earlier failures and restarts have
\* left in the accumulator: the end of a broadcast holds no audio back.
FlushIsComplete ==
  pc = "closed" /\ accum = <<>> => (1..delivered) \ dropped \subseteq AudioOf(sent)
=============================================================================
