--------------------------- MODULE OggStreamProofs ---------------------------
(***************************************************************************)
(* What a listener of the mount gets, for any number of titles, of threads *)
(* that push them, of restarts and of items in the ring.                   *)
(*                                                                         *)
(* IInv: header pages of the present logical stream carry the title pushed *)
(* last, wherever they are.  It says more of all pages under way, so that  *)
(* a restart finds none of the new stream: no header page is of a stream   *)
(* that the encoder is not yet in.                                         *)
(*                                                                         *)
(* Line: the way from the encoder to the server (audio callback, ring,     *)
(* send thread, wire) is in order as a whole, and every page on it is one  *)
(* that the encoder has numbered already.                                  *)
(*                                                                         *)
(* HeadersCurrent: the header pages of the present stream are the last on  *)
(* that way, and no others come behind them; with the threads that may     *)
(* hold pages back (Holders) and the link's states (LinkState).            *)
(***************************************************************************)
EXTENDS OggStream, TLAPS, SequenceTheorems

GoodPages ==
  {p \in Pages : p.kind = "head" =>
                   p.stream <= stream /\ (p.stream = stream => p.title = pushed)}

\* TypeOK without the pages under way.
Scalars ==
  /\ codec \in {"opus", "vorbis"} /\ stream \in 0..MaxStreams /\ pages \in 0..MaxPages
  /\ title \in Titles \union {NoTitle} /\ whole \in BOOLEAN
  /\ job \in [Jobs -> JobPC] /\ inFlight \in BOOLEAN
  /\ send \in {"running", "lost", "ended"}
  /\ shout \in BOOLEAN /\ connected \in BOOLEAN /\ reconnect \in ReconnectPC
  /\ pushed \in Titles \union {NoTitle} /\ disturbed \in BOOLEAN

Flow ==
  /\ made \in [Makers -> Seq(GoodPages)]
  /\ ring \in Seq(GoodPages) /\ chunk \in Seq(GoodPages) /\ wire \in Seq(GoodPages)

IInv == Scalars /\ title = pushed /\ Flow

-----------------------------------------------------------------------------
\* A sequence over a set is one over a larger set.
LEMMA SeqMonotone ==
  ASSUME NEW A, NEW B, A \subseteq B, NEW s \in Seq(A)
  PROVE  s \in Seq(B)
<1>1. Len(s) \in Nat /\ s \in [1..Len(s) -> A]
  OBVIOUS
<1>2. s \in [1..Len(s) -> B]
  BY <1>1
<1>3. QED BY <1>1, <1>2

\* What a page is: its kind tells the fields, and its stream is a number.
LEMMA PageFields ==
  ASSUME NEW p \in Pages
  PROVE  p.kind \in {"head", "data", "end"} /\ p.stream \in 0..MaxStreams
BY DEF Pages

\* A header page is a page.
LEMMA HeadPageIsPage ==
  ASSUME NEW s \in 0..MaxStreams, NEW t \in Titles \union {NoTitle}
  PROVE  /\ HeadPage(s, t) \in Pages
         /\ HeadPage(s, t).stream = s /\ HeadPage(s, t).title = t
BY DEF HeadPage, Pages

\* Neither an audio page nor the last page of a stream is a header page, and so they
\* are good whatever was pushed.
LEMMA OtherPagesGood ==
  ASSUME NEW s \in 0..MaxStreams
  PROVE  /\ EndPage(s) \in GoodPages
         /\ \A n \in 1..MaxPages : DataPage(s, n) \in GoodPages
<1>1. EndPage(s) \in Pages /\ EndPage(s).kind # "head"
  BY DEF EndPage, Pages
<1>2. \A n \in 1..MaxPages : DataPage(s, n) \in Pages /\ DataPage(s, n).kind # "head"
  BY DEF DataPage, Pages
<1>3. QED BY <1>1, <1>2 DEF GoodPages

\* What is good stays so while neither the stream nor the title changes.
LEMMA GoodUnchanged ==
  ASSUME stream' = stream, pushed' = pushed
  PROVE  GoodPages' = GoodPages
BY DEF GoodPages, Pages

\* A new stream makes every page under way one of an older stream.
LEMMA GoodForNewStream ==
  ASSUME stream \in Nat, stream' = stream + 1
  PROVE  GoodPages \subseteq GoodPages'
<1> SUFFICES ASSUME NEW p \in GoodPages
             PROVE  p \in GoodPages'
  OBVIOUS
<1>1. p \in Pages /\ p.stream \in Int
  BY PageFields, StreamAssumption DEF GoodPages
<1>2. p.kind = "head" => p.stream <= stream' /\ p.stream # stream'
  BY <1>1 DEF GoodPages
<1>3. p \in Pages'
  BY <1>1 DEF Pages
<1>4. QED BY <1>2, <1>3 DEF GoodPages

\* Good pages are pages.
LEMMA InvType == IInv => TypeOK
<1> SUFFICES ASSUME IInv
             PROVE  TypeOK
  OBVIOUS
<1>1. GoodPages \subseteq Pages
  BY DEF GoodPages
<1>2. ring \in Seq(Pages) /\ chunk \in Seq(Pages) /\ wire \in Seq(Pages)
  BY <1>1, SeqMonotone DEF IInv, Flow
<1>3. made \in [Makers -> Seq(Pages)]
  <2>1. \A t \in Makers : made[t] \in Seq(Pages)
    BY <1>1, SeqMonotone DEF IInv, Flow
  <2>2. QED BY <2>1 DEF IInv, Flow
<1>4. QED BY <1>2, <1>3 DEF IInv, Scalars, TypeOK

\* The header pages under way are good ones.
LEMMA InvTitle == IInv => TitleSurvives
<1> SUFFICES ASSUME IInv,
                    NEW items \in {made[t] : t \in Makers} \union {ring, chunk, wire},
                    NEW i \in HeadsIn(items), items[i].stream = stream
             PROVE  items[i].title = pushed
  BY DEF TitleSurvives
<1>1. items \in Seq(GoodPages)
  BY DEF IInv, Flow
<1>2. i \in DOMAIN items /\ items[i].kind = "head"
  BY DEF HeadsIn
<1>3. items[i] \in GoodPages
  BY <1>1, <1>2
<1>4. QED BY <1>2, <1>3 DEF GoodPages

-----------------------------------------------------------------------------
\* The first headers carry the empty title, which counts as pushed.
LEMMA InvInit == Init => IInv
<1> SUFFICES ASSUME Init
             PROVE  IInv
  OBVIOUS
<1>1. Scalars
  <2>1. stream \in 0..MaxStreams /\ pages \in 0..MaxPages
    BY StreamAssumption DEF Init
  <2>2. job \in [Jobs -> JobPC]
    BY DEF Init, JobPC
  <2>3. /\ codec \in {"opus", "vorbis"} /\ send = "running"
        /\ reconnect \in ReconnectPC /\ title = NoTitle /\ pushed = NoTitle
    BY DEF Init, ReconnectPC
  <2>4. /\ whole = TRUE /\ inFlight = FALSE /\ shout = TRUE /\ connected = TRUE
        /\ disturbed = FALSE
    BY DEF Init
  <2>5. QED BY <2>1, <2>2, <2>3, <2>4 DEF Scalars
<1>2. HeadPage(0, NoTitle) \in GoodPages
  <2>1. 0 \in 0..MaxStreams
    BY StreamAssumption
  <2>2. QED BY <2>1, HeadPageIsPage DEF Init, GoodPages
<1>3. Flow
  BY <1>2 DEF Init, Flow
<1>4. QED BY <1>1, <1>3 DEF Init, IInv

\* A restart, whichever the codec and whether or not it makes headers: what is under
\* way is of an older stream, and the new headers carry the title they are given.
LEMMA RestartKeeps ==
  ASSUME IInv, NEW t \in Makers, NEW x \in Titles \union {NoTitle}, NEW ok \in BOOLEAN,
         Restarts(t, x, ok), pushed' = x
  PROVE  /\ codec' = codec /\ stream' \in 0..MaxStreams /\ pages' = 0 /\ whole' \in BOOLEAN
         /\ made' \in [Makers -> Seq(GoodPages')]
         /\ GoodPages \subseteq GoodPages'
<1>1. /\ stream \in Nat /\ stream' = stream + 1 /\ stream' \in 0..MaxStreams
      /\ codec' = codec /\ pages' = 0 /\ whole' \in BOOLEAN
  BY StreamAssumption DEF IInv, Scalars, Restarts, OpusRestarts, VorbisRestarts, NewSerial
<1>2. GoodPages \subseteq GoodPages'
  BY <1>1, GoodForNewStream
<1>3. HeadPage(stream', x) \in GoodPages'
  <2>1. /\ HeadPage(stream', x) \in Pages
        /\ HeadPage(stream', x).stream = stream' /\ HeadPage(stream', x).title = x
    BY <1>1, HeadPageIsPage
  <2>2. stream' <= stream'
    BY <1>1
  <2>3. QED BY <2>1, <2>2 DEF GoodPages, Pages
<1>4. \A u \in Makers : made[u] \in Seq(GoodPages')
  BY <1>2, SeqMonotone DEF IInv, Flow
<1>5. made' = IF ok THEN [made EXCEPT ![t] = <<HeadPage(stream', x)>>] ELSE made
  BY DEF Restarts, OpusRestarts, VorbisRestarts
<1>6. <<HeadPage(stream', x)>> \in Seq(GoodPages')
  BY <1>3
<1>7. made' \in [Makers -> Seq(GoodPages')]
  BY <1>4, <1>5, <1>6 DEF IInv, Flow
<1>8. QED BY <1>1, <1>2, <1>7

-----------------------------------------------------------------------------
\* Steps that move pages or make audio, and leave the stream and its title alone.
LEMMA PagesMove ==
  ASSUME IInv, UNCHANGED <<codec, stream, title, whole, pushed>>,
         made' \in [Makers -> Seq(GoodPages)],
         ring' \in Seq(GoodPages), chunk' \in Seq(GoodPages), wire' \in Seq(GoodPages)
  PROVE  Flow'
BY GoodUnchanged DEF Flow

\* The audio callback encodes: a page of the present stream.
LEMMA EncodeKeeps == ASSUME IInv, Encode PROVE IInv'
<1>1. pages' \in 1..MaxPages /\ pages' = pages + 1
  BY StreamAssumption DEF IInv, Scalars, Encode, OpusEncodes, VorbisEncodes
<1>2. Scalars'
  BY <1>1 DEF IInv, Scalars, Encode, jobVars, linkVars, historyVars
<1>3. DataPage(stream, pages + 1) \in GoodPages
  BY <1>1, OtherPagesGood DEF IInv, Scalars
<1>4. made' \in [Makers -> Seq(GoodPages)]
  <2>1. <<DataPage(stream, pages + 1)>> \in Seq(GoodPages)
    BY <1>3
  <2>2. QED BY <2>1 DEF Encode, IInv, Flow
<1>5. Flow'
  BY <1>4, PagesMove DEF Encode, IInv, Flow, linkVars, historyVars
<1>6. QED BY <1>2, <1>5 DEF IInv, Encode, historyVars

\* A push appends what a thread has made to the ring.
LEMMA PushKeeps ==
  ASSUME IInv, NEW t \in Makers, Push(t), job' \in [Jobs -> JobPC], inFlight' \in BOOLEAN
  PROVE  IInv'
<1>1. disturbed' \in BOOLEAN
  BY DEF IInv, Scalars, Push
<1>2. Scalars'
  BY <1>1 DEF IInv, Scalars, Push, encoderVars, linkVars
<1>3. made[t] \in Seq(GoodPages) /\ made[t] # <<>>
  BY DEF IInv, Flow, Push
<1>4. ring \o made[t] \in Seq(GoodPages) /\ Tail(ring \o made[t]) \in Seq(GoodPages)
  <2>1. ring \o made[t] \in Seq(GoodPages) /\ ring \o made[t] # <<>>
    BY <1>3 DEF IInv, Flow
  <2>2. QED BY <2>1
<1>5. made' \in [Makers -> Seq(GoodPages)] /\ ring' \in Seq(GoodPages)
  BY <1>4 DEF Push, IInv, Flow
<1>6. Flow'
  BY <1>5, PagesMove DEF Push, IInv, Flow, encoderVars, linkVars
<1>7. QED BY <1>2, <1>6 DEF IInv, Push, encoderVars

\* A job moves on without touching the stream.
LEMMA JobKeeps ==
  ASSUME IInv, JobOnly, job' \in [Jobs -> JobPC], inFlight' \in BOOLEAN
  PROVE  IInv'
<1>1. Scalars'
  BY DEF IInv, Scalars, JobOnly, encoderVars, linkVars, historyVars
<1>2. Flow'
  BY PagesMove DEF JobOnly, IInv, Flow, encoderVars, linkVars, historyVars
<1>3. QED BY <1>1, <1>2 DEF IInv, JobOnly, encoderVars, historyVars

\* Every change of job is within its program counters.
LEMMA JobType ==
  ASSUME IInv, NEW j \in Jobs, NEW pc \in JobPC, job' = [job EXCEPT ![j] = pc]
  PROVE  job' \in [Jobs -> JobPC]
BY DEF IInv, Scalars

\* A finished push leaves its job in a program counter.
LEMMA FinishedType == ASSUME NEW j \in Jobs PROVE Finished(j) \in JobPC
BY DEF Finished, JobPC

\* update_metadata: the new headers carry the title that is pushed with them.
LEMMA ChainKeeps == ASSUME IInv, NEW j \in Jobs, MetadataChain(j) PROVE IInv'
<1>1. PICK t \in Titles, ok \in BOOLEAN :
        /\ Stash(t) /\ pushed' = t
        /\ Restarts(j, t, ok)
        /\ job' = [job EXCEPT ![j] = IF ok THEN "pushing" ELSE Finished(j)]
        /\ disturbed' = \/ ~ok \/ MeetsAnotherChain(j)
                        \/ ~shout \/ reconnect # "none" \/ made["start"] # <<>>
                        \/ disturbed /\ HeadsOnTheWay
  BY DEF MetadataChain
<1>2. UNCHANGED <<inFlight, ring, chunk, send, linkVars, wire>>
  BY DEF MetadataChain
<1>3. j \in Makers
  BY DEF Makers
<1>4. /\ codec' = codec /\ stream' \in 0..MaxStreams /\ pages' = 0 /\ whole' \in BOOLEAN
      /\ made' \in [Makers -> Seq(GoodPages')]
      /\ GoodPages \subseteq GoodPages'
  BY <1>1, <1>3, RestartKeeps
<1>5. job' \in [Jobs -> JobPC]
  <2>1. (IF ok THEN "pushing" ELSE Finished(j)) \in JobPC
    BY FinishedType DEF JobPC
  <2>2. QED BY <1>1, <2>1, JobType
<1>6. disturbed' \in BOOLEAN
  BY <1>1
<1>7. title' = pushed' /\ pushed' \in Titles \union {NoTitle}
  BY <1>1 DEF Stash
<1>8. pages' \in 0..MaxPages
  BY <1>4, StreamAssumption
<1>9. Scalars'
  BY <1>2, <1>4, <1>5, <1>6, <1>7, <1>8 DEF IInv, Scalars, linkVars
<1>10. ring' \in Seq(GoodPages') /\ chunk' \in Seq(GoodPages') /\ wire' \in Seq(GoodPages')
  BY <1>2, <1>4, SeqMonotone DEF IInv, Flow
<1>11. Flow'
  BY <1>4, <1>10 DEF Flow
<1>12. QED BY <1>7, <1>9, <1>11 DEF IInv

\* The steps of a title: those of a job, its new stream, its push.
LEMMA MetadataKeeps ==
  ASSUME IInv,
         \/ \E j \in Pool : OnPushMetadata(j)
         \/ RequestMetadata
         \/ \E j \in Jobs : \/ MetadataGate(j) \/ MetadataChain(j)
                            \/ MetadataPush(j) \/ MetadataReply(j)
  PROVE  IInv'
<1>1. ASSUME NEW j \in Pool, OnPushMetadata(j) PROVE IInv'
  BY <1>1, JobType, JobKeeps DEF OnPushMetadata, Jobs, JobPC
<1>2. CASE RequestMetadata
  BY <1>2, JobType, JobKeeps DEF RequestMetadata, Jobs, JobPC, IInv, Scalars
<1>3. ASSUME NEW j \in Jobs, MetadataGate(j) PROVE IInv'
  <2>1. (IF connected THEN "checked" ELSE Finished(j)) \in JobPC
    BY FinishedType DEF JobPC
  <2>2. job' \in [Jobs -> JobPC]
    BY <1>3, <2>1, JobType DEF MetadataGate
  <2>3. QED BY <1>3, <2>2, JobKeeps DEF MetadataGate, IInv, Scalars
<1>4. ASSUME NEW j \in Jobs, MetadataChain(j) PROVE IInv'
  BY <1>4, ChainKeeps
<1>5. ASSUME NEW j \in Jobs, MetadataPush(j) PROVE IInv'
  <2>1. j \in Makers
    BY DEF Makers
  <2>2. job' \in [Jobs -> JobPC]
    BY <1>5, FinishedType, JobType DEF MetadataPush
  <2>3. QED BY <1>5, <2>1, <2>2, PushKeeps DEF MetadataPush, IInv, Scalars
<1>6. ASSUME NEW j \in Jobs, MetadataReply(j) PROVE IInv'
  BY <1>6, JobType, JobKeeps DEF MetadataReply, JobPC
<1>7. QED BY <1>1, <1>2, <1>3, <1>4, <1>5, <1>6

\* A read of n items cuts the ring in two.
LEMMA RingCut ==
  ASSUME NEW S, NEW r \in Seq(S), NEW n \in 1..Len(r)
  PROVE  LET c == SubSeq(r, 1, n)
             q == SubSeq(r, n + 1, Len(r))
         IN c \in Seq(S) /\ q \in Seq(S) /\ r = c \o q
<1> DEFINE c == SubSeq(r, 1, n)
           q == SubSeq(r, n + 1, Len(r))
<1>1. /\ 1 \in 1..Len(r) + 1 /\ n \in 0..Len(r) /\ n + 1 \in 1..Len(r) + 1
      /\ Len(r) \in Nat
  OBVIOUS
<1>2. c \in Seq(S) /\ q \in Seq(S)
  BY <1>1, SubSeqProperties
<1>3. r = c \o q
  <2>1. c \o q = SubSeq(r, 1, Len(r))
    BY <1>1, ConcatAdjacentSubSeq
  <2>2. QED BY <2>1, SubSeqFull
<1>4. QED BY <1>2, <1>3

\* The send thread takes from the head of the ring and appends to the wire.
LEMMA SendKeeps ==
  ASSUME IInv, SendRead \/ SendChunk \/ SendFails \/ LinkLost
  PROVE  IInv'
<1>1. Scalars' /\ UNCHANGED <<codec, stream, title, whole, pushed>>
  BY DEF IInv, Scalars, SendRead, SendChunk, SendFails, LinkLost, encoderVars, jobVars,
         linkVars, historyVars, ReconnectPC
<1>2. made' \in [Makers -> Seq(GoodPages)]
  BY DEF IInv, Flow, SendRead, SendChunk, SendFails, LinkLost
<1>3. /\ ring' \in Seq(GoodPages) /\ chunk' \in Seq(GoodPages)
      /\ wire' \in Seq(GoodPages)
  <2>1. CASE SendRead
    <3>1. PICK n \in 1..Len(ring) :
            chunk' = SubSeq(ring, 1, n) /\ ring' = SubSeq(ring, n + 1, Len(ring))
      BY <2>1 DEF SendRead
    <3>2. chunk' \in Seq(GoodPages) /\ ring' \in Seq(GoodPages)
      BY <3>1, RingCut DEF IInv, Flow
    <3>3. QED BY <2>1, <3>2 DEF IInv, Flow, SendRead, historyVars
  <2>2. CASE SendChunk
    BY <2>2 DEF IInv, Flow, SendChunk
  <2>3. CASE SendFails
    BY <2>3 DEF IInv, Flow, SendFails, historyVars
  <2>4. CASE LinkLost
    BY <2>4 DEF IInv, Flow, LinkLost, historyVars
  <2>5. QED BY <2>1, <2>2, <2>3, <2>4
<1>4. Flow'
  BY <1>1, <1>2, <1>3, PagesMove
<1>5. QED BY <1>1, <1>4 DEF IInv

\* on_reconnect: new headers with the title that the encoder has kept.
LEMMA ReconnectRestartsKeeps == ASSUME IInv, ReconnectRestarts PROVE IInv'
<1>1. PICK ok \in BOOLEAN :
        /\ Restarts("reconnect", title, ok)
        /\ disturbed' = (~ok \/ HeadsOnTheWay)
  BY DEF ReconnectRestarts
<1>2. /\ UNCHANGED <<title, jobVars, ring, chunk, send, shout, connected, pushed>>
      /\ wire' = <<>> /\ reconnect' = "headers"
  BY DEF ReconnectRestarts
<1>3. "reconnect" \in Makers /\ title \in Titles \union {NoTitle} /\ pushed' = title
  BY <1>2 DEF Makers, IInv, Scalars
<1>4. /\ codec' = codec /\ stream' \in 0..MaxStreams /\ pages' = 0 /\ whole' \in BOOLEAN
      /\ made' \in [Makers -> Seq(GoodPages')]
      /\ GoodPages \subseteq GoodPages'
  BY <1>1, <1>3, RestartKeeps
<1>5. pages' \in 0..MaxPages /\ disturbed' \in BOOLEAN /\ reconnect' \in ReconnectPC
  BY <1>1, <1>2, <1>4, StreamAssumption DEF ReconnectPC
<1>6. Scalars'
  BY <1>2, <1>4, <1>5 DEF IInv, Scalars, jobVars
<1>7. ring' \in Seq(GoodPages') /\ chunk' \in Seq(GoodPages') /\ wire' \in Seq(GoodPages')
  BY <1>2, <1>4, SeqMonotone DEF IInv, Flow
<1>8. Flow'
  BY <1>4, <1>7 DEF Flow
<1>9. QED BY <1>2, <1>6, <1>8 DEF IInv

\* The rest of the reconnect thread sends what the restart has made.
LEMMA ReconnectKeeps ==
  ASSUME IInv,
         \/ ReconnectGivesUp \/ ReconnectRestarts \/ ReconnectSendsHeaders
         \/ ReconnectPublishes \/ ReconnectDone
  PROVE  IInv'
<1>1. CASE ReconnectRestarts
  BY <1>1, ReconnectRestartsKeeps
<1>2. CASE ReconnectSendsHeaders
  <2>1. Scalars' /\ UNCHANGED <<codec, stream, title, whole, pushed>>
    BY <1>2 DEF IInv, Scalars, ReconnectSendsHeaders, encoderVars, jobVars, ReconnectPC
  <2>2. made["reconnect"] \in Seq(GoodPages)
    BY DEF IInv, Flow, Makers
  <2>3. /\ made' \in [Makers -> Seq(GoodPages)] /\ wire' \in Seq(GoodPages)
        /\ ring' \in Seq(GoodPages) /\ chunk' \in Seq(GoodPages)
    <3>1. made' \in [Makers -> Seq(GoodPages)]
      <4>1. <<>> \in Seq(GoodPages)
        OBVIOUS
      <4>2. made' = [made EXCEPT !["reconnect"] = <<>>]
        BY <1>2 DEF ReconnectSendsHeaders
      <4>3. QED BY <4>1, <4>2 DEF IInv, Flow
    <3>2. wire' = made["reconnect"] \/ wire' = wire
      BY <1>2 DEF ReconnectSendsHeaders
    <3>3. ring' = ring /\ chunk' = chunk
      BY <1>2 DEF ReconnectSendsHeaders
    <3>4. QED BY <2>2, <3>1, <3>2, <3>3 DEF IInv, Flow
  <2>4. Flow'
    BY <2>1, <2>3, PagesMove
  <2>5. QED BY <2>1, <2>4 DEF IInv
<1>3. CASE ReconnectGivesUp \/ ReconnectPublishes \/ ReconnectDone
  <2>1. Scalars' /\ UNCHANGED <<codec, stream, title, whole, pushed>>
    BY <1>3 DEF IInv, Scalars, ReconnectGivesUp, ReconnectPublishes, ReconnectDone,
                encoderVars, jobVars, historyVars, ReconnectPC
  <2>2. UNCHANGED <<made, ring, chunk, wire>>
    BY <1>3 DEF ReconnectGivesUp, ReconnectPublishes, ReconnectDone, historyVars
  <2>3. Flow'
    BY <2>1, <2>2, PagesMove DEF IInv, Flow
  <2>4. QED BY <2>1, <2>3 DEF IInv
<1>4. QED BY <1>1, <1>2, <1>3

\* The teardown adds the last page, which is no header page.
LEMMA TeardownKeeps == ASSUME IInv, Teardown PROVE IInv'
<1>1. Scalars' /\ UNCHANGED <<codec, stream, title, whole, pushed>>
  BY DEF IInv, Scalars, Teardown, encoderVars, jobVars
<1>2. EndPage(stream) \in GoodPages
  BY OtherPagesGood DEF IInv, Scalars
<1>3. /\ made' \in [Makers -> Seq(GoodPages)]
      /\ ring' \in Seq(GoodPages) /\ chunk' \in Seq(GoodPages)
      /\ wire' \in Seq(GoodPages)
  BY <1>2 DEF IInv, Flow, Teardown
<1>4. Flow'
  BY <1>1, <1>3, PagesMove
<1>5. QED BY <1>1, <1>4 DEF IInv

\* Nothing at all.
LEMMA StutterKeeps == ASSUME IInv, UNCHANGED vars PROVE IInv'
<1>1. Scalars' /\ UNCHANGED <<codec, stream, title, whole, pushed>>
  BY DEF IInv, Scalars, vars, encoderVars, jobVars, linkVars, historyVars
<1>2. Flow'
  BY <1>1, PagesMove DEF IInv, Flow, vars, historyVars
<1>3. QED BY <1>1, <1>2 DEF IInv

\* One step per group of actions.
LEMMA InvNext == IInv /\ [Next]_vars => IInv'
<1> SUFFICES ASSUME IInv, [Next]_vars
             PROVE  IInv'
  OBVIOUS
<1>1. CASE Encode
  BY <1>1, EncodeKeeps
<1>2. CASE AudioPush \/ StartupPush
  BY <1>2, PushKeeps DEF AudioPush, StartupPush, Makers, jobVars, IInv, Scalars
<1>3. CASE \/ \E j \in Pool : OnPushMetadata(j)
           \/ RequestMetadata
           \/ \E j \in Jobs : \/ MetadataGate(j) \/ MetadataChain(j)
                              \/ MetadataPush(j) \/ MetadataReply(j)
  BY <1>3, MetadataKeeps
<1>4. CASE SendRead \/ SendChunk \/ SendFails \/ LinkLost
  BY <1>4, SendKeeps
<1>5. CASE \/ ReconnectGivesUp \/ ReconnectRestarts \/ ReconnectSendsHeaders
           \/ ReconnectPublishes \/ ReconnectDone
  BY <1>5, ReconnectKeeps
<1>6. CASE Teardown
  BY <1>6, TeardownKeeps
<1>7. CASE UNCHANGED vars
  BY <1>7, StutterKeeps
<1>8. QED BY <1>1, <1>2, <1>3, <1>4, <1>5, <1>6, <1>7 DEF Next

-----------------------------------------------------------------------------
\* The invariant holds in every reachable state.
THEOREM Invariant == Spec => []IInv
<1>1. QED BY InvInit, InvNext, PTL DEF Spec

\* The types, with every page under way being a header, an audio or a last page.
THEOREM TypeCorrect == Spec => []TypeOK
<1>1. QED BY Invariant, InvType, PTL

\* Headers of the present stream carry the last title, through every chain, reconnect,
\* failed restart and order of the queued pushes, those of obs-websocket included.
THEOREM TitleKept == Spec => []TitleSurvives
<1>1. QED BY Invariant, InvTitle, PTL
-----------------------------------------------------------------------------
(***************************************************************************)
(* The order of the pages and the headers that the server has last.        *)
(***************************************************************************)
DataIn(items) == {i \in DOMAIN items : items[i].kind = "data"}
DataOf(items) == {items[i] : i \in DataIn(items)}

\* Audio pages of one stream are in the order of their numbers.
Sorted(items) ==
  \A i, k \in DataIn(items) :
    i < k /\ items[i].stream = items[k].stream => items[i].number < items[k].number
Before(P, Q) == \A p \in P, q \in Q : p.stream = q.stream => p.number < q.number

\* So are those of the stages of the way to the server, one stage after the other.
Ordered(w, c, r, a) ==
  /\ Sorted(w) /\ Sorted(c) /\ Sorted(r) /\ Sorted(a)
  /\ Before(DataOf(w), DataOf(c)) /\ Before(DataOf(w), DataOf(r))
  /\ Before(DataOf(w), DataOf(a)) /\ Before(DataOf(c), DataOf(r))
  /\ Before(DataOf(c), DataOf(a)) /\ Before(DataOf(r), DataOf(a))

\* The pages that the encoder has made so far.
Known(P) ==
  \A p \in P : /\ p.stream \in 0..stream /\ p.number \in Nat
               /\ p.stream = stream => p.number <= pages

Line ==
  /\ Ordered(wire, chunk, ring, made["audio"])
  /\ Known(DataOf(wire)) /\ Known(DataOf(chunk)) /\ Known(DataOf(ring))
  /\ Known(DataOf(made["audio"]))
  /\ \A t \in Makers \ {"audio"} : DataOf(made[t]) = {}

-----------------------------------------------------------------------------
\* The pages of two sequences in a row are those of both.
LEMMA DataOfConcat ==
  ASSUME NEW S, NEW s \in Seq(S), NEW t \in Seq(S)
  PROVE  DataOf(s \o t) = DataOf(s) \union DataOf(t)
<1> DEFINE u == s \o t
<1>1. /\ Len(u) = Len(s) + Len(t) /\ Len(s) \in Nat /\ Len(t) \in Nat
      /\ DOMAIN u = 1..Len(u) /\ DOMAIN s = 1..Len(s) /\ DOMAIN t = 1..Len(t)
      /\ \A i \in 1..Len(s) : u[i] = s[i]
      /\ \A i \in 1..Len(t) : u[Len(s) + i] = t[i]
  OBVIOUS
<1> HIDE DEF u
<1>2. ASSUME NEW i \in DataIn(u) PROVE u[i] \in DataOf(s) \union DataOf(t)
  <2>1. CASE i <= Len(s)
    BY <1>1, <1>2, <2>1 DEF DataIn, DataOf
  <2>2. CASE i > Len(s)
    <3>1. i - Len(s) \in 1..Len(t) /\ u[i] = t[i - Len(s)]
      <4>1. i \in 1..Len(u)
        BY <1>1, <1>2 DEF DataIn
      <4>2. i - Len(s) \in 1..Len(t) /\ i = Len(s) + (i - Len(s))
        BY <1>1, <2>2, <4>1
      <4>3. QED BY <1>1, <4>2
    <3>2. QED BY <1>1, <1>2, <3>1 DEF DataIn, DataOf
  <2>3. QED BY <1>1, <1>2, <2>1, <2>2 DEF DataIn
<1>3. ASSUME NEW i \in DataIn(s) PROVE s[i] \in DataOf(u)
  BY <1>1, <1>3 DEF DataIn, DataOf
<1>4. ASSUME NEW i \in DataIn(t) PROVE t[i] \in DataOf(u)
  <2>1. Len(s) + i \in DOMAIN u /\ u[Len(s) + i] = t[i]
    BY <1>1, <1>4 DEF DataIn
  <2>2. QED BY <1>4, <2>1 DEF DataIn, DataOf
<1>5. DataOf(u) = DataOf(s) \union DataOf(t)
  BY <1>2, <1>3, <1>4 DEF DataOf
<1>6. QED BY <1>5 DEF u

\* Two sequences in a row are in order when each is and the first is before the second.
LEMMA SortedConcat ==
  ASSUME NEW S, NEW s \in Seq(S), NEW t \in Seq(S),
         Sorted(s), Sorted(t), Before(DataOf(s), DataOf(t))
  PROVE  Sorted(s \o t)
<1> DEFINE u == s \o t
<1>1. /\ Len(u) = Len(s) + Len(t) /\ Len(s) \in Nat /\ Len(t) \in Nat
      /\ DOMAIN u = 1..Len(u) /\ DOMAIN s = 1..Len(s) /\ DOMAIN t = 1..Len(t)
      /\ \A i \in 1..Len(s) : u[i] = s[i]
      /\ \A i \in 1..Len(t) : u[Len(s) + i] = t[i]
  OBVIOUS
<1> HIDE DEF u
<1>2. ASSUME NEW i \in DataIn(u)
      PROVE  \/ i <= Len(s) /\ i \in DataIn(s) /\ u[i] = s[i]
             \/ i > Len(s) /\ i - Len(s) \in DataIn(t) /\ u[i] = t[i - Len(s)]
  <2>1. CASE i <= Len(s)
    BY <1>1, <1>2, <2>1 DEF DataIn
  <2>2. CASE i > Len(s)
    <3>1. i - Len(s) \in 1..Len(t) /\ i = Len(s) + (i - Len(s))
      BY <1>1, <1>2, <2>2 DEF DataIn
    <3>2. u[i] = t[i - Len(s)]
      BY <1>1, <3>1
    <3>3. QED BY <1>1, <1>2, <2>2, <3>1, <3>2 DEF DataIn
  <2>3. QED BY <1>1, <1>2, <2>1, <2>2 DEF DataIn
<1>3. SUFFICES ASSUME NEW i \in DataIn(u), NEW k \in DataIn(u), i < k,
                      u[i].stream = u[k].stream
               PROVE  u[i].number < u[k].number
  BY DEF Sorted, u
<1>4. i \in Int /\ k \in Int
  BY <1>1 DEF DataIn
<1>5. CASE k <= Len(s)
  <2>1. i \in DataIn(s) /\ u[i] = s[i] /\ k \in DataIn(s) /\ u[k] = s[k]
    BY <1>1, <1>2, <1>3, <1>4, <1>5
  <2>2. QED BY <1>3, <2>1 DEF Sorted
<1>6. CASE i > Len(s)
  <2>1. /\ i - Len(s) \in DataIn(t) /\ u[i] = t[i - Len(s)]
        /\ k - Len(s) \in DataIn(t) /\ u[k] = t[k - Len(s)]
        /\ i - Len(s) < k - Len(s)
    BY <1>1, <1>2, <1>3, <1>4, <1>6
  <2>2. QED BY <1>3, <2>1 DEF Sorted
<1>7. CASE i <= Len(s) /\ k > Len(s)
  <2>1. u[i] \in DataOf(s) /\ u[k] \in DataOf(t)
    BY <1>1, <1>2, <1>4, <1>7 DEF DataOf
  <2>2. QED BY <1>3, <2>1 DEF Before
<1>8. QED BY <1>1, <1>4, <1>5, <1>6, <1>7

\* Both parts of a sequence that is in order are, and the first is before the second.
LEMMA SortedSplit ==
  ASSUME NEW S, NEW s \in Seq(S), NEW t \in Seq(S), Sorted(s \o t)
  PROVE  Sorted(s) /\ Sorted(t) /\ Before(DataOf(s), DataOf(t))
<1> DEFINE u == s \o t
<1>1. /\ Len(u) = Len(s) + Len(t) /\ Len(s) \in Nat /\ Len(t) \in Nat
      /\ DOMAIN u = 1..Len(u) /\ DOMAIN s = 1..Len(s) /\ DOMAIN t = 1..Len(t)
      /\ \A i \in 1..Len(s) : u[i] = s[i]
      /\ \A i \in 1..Len(t) : u[Len(s) + i] = t[i]
  OBVIOUS
<1> HIDE DEF u
<1>2. \A i, k \in DataIn(u) :
        i < k /\ u[i].stream = u[k].stream => u[i].number < u[k].number
  BY DEF Sorted, u
<1>3. ASSUME NEW i \in DataIn(s)
      PROVE  i \in DataIn(u) /\ u[i] = s[i] /\ i \in 1..Len(s)
  BY <1>1, <1>3 DEF DataIn
<1>4. ASSUME NEW i \in DataIn(t)
      PROVE  Len(s) + i \in DataIn(u) /\ u[Len(s) + i] = t[i] /\ i \in 1..Len(t)
  <2>1. i \in 1..Len(t) /\ t[i].kind = "data"
    BY <1>1, <1>4 DEF DataIn
  <2>2. Len(s) + i \in 1..Len(u) /\ u[Len(s) + i] = t[i]
    BY <1>1, <2>1
  <2>3. QED BY <1>1, <2>1, <2>2 DEF DataIn
<1>5. Sorted(s)
  BY <1>2, <1>3 DEF Sorted
<1>6. Sorted(t)
  <2>1. SUFFICES ASSUME NEW i \in DataIn(t), NEW k \in DataIn(t), i < k,
                        t[i].stream = t[k].stream
                 PROVE  t[i].number < t[k].number
    BY DEF Sorted
  <2>2. Len(s) + i < Len(s) + k
    BY <1>1, <1>4, <2>1
  <2>3. QED BY <1>2, <1>4, <2>1, <2>2
<1>7. Before(DataOf(s), DataOf(t))
  <2>1. SUFFICES ASSUME NEW i \in DataIn(s), NEW k \in DataIn(t), s[i].stream = t[k].stream
                 PROVE  s[i].number < t[k].number
    BY DEF Before, DataOf
  <2>2. i < Len(s) + k
    BY <1>1, <1>3, <1>4
  <2>3. QED BY <1>2, <1>3, <1>4, <2>1, <2>2
<1>8. QED BY <1>5, <1>6, <1>7

\* A single page is in order, and so is nothing.
LEMMA SortedShort ==
  /\ Sorted(<<>>) /\ DataOf(<<>>) = {}
  /\ \A p : /\ Sorted(<<p>>) /\ DataOf(<<p>>) \subseteq {p}
            /\ p.kind # "data" => DataOf(<<p>>) = {}
<1>1. Sorted(<<>>) /\ DataOf(<<>>) = {}
  BY DEF Sorted, DataOf, DataIn
<1>2. ASSUME NEW p
      PROVE  /\ Sorted(<<p>>) /\ DataOf(<<p>>) \subseteq {p}
             /\ p.kind # "data" => DataOf(<<p>>) = {}
  <2>1. DOMAIN <<p>> = {1} /\ <<p>>[1] = p
    OBVIOUS
  <2>2. QED BY <2>1 DEF Sorted, DataOf, DataIn
<1>3. QED BY <1>1, <1>2

\* Without audio pages a sequence is in order.
LEMMA SortedWithoutData == ASSUME NEW s, DataOf(s) = {} PROVE Sorted(s)
BY DEF Sorted, DataOf

\* The oldest item and the rest.
LEMMA HeadAndTail ==
  ASSUME NEW S, NEW s \in Seq(S), s # <<>>
  PROVE  /\ Head(s) \in S /\ <<Head(s)>> \in Seq(S) /\ Tail(s) \in Seq(S)
         /\ s = <<Head(s)>> \o Tail(s)
OBVIOUS

\* What a full ring loses leaves the rest in order.
LEMMA SortedTail ==
  ASSUME NEW S, NEW s \in Seq(S), s # <<>>, Sorted(s)
  PROVE  /\ Sorted(Tail(s)) /\ DataOf(Tail(s)) \subseteq DataOf(s)
         /\ DataOf(<<Head(s)>>) \subseteq DataOf(s)
         /\ Before(DataOf(<<Head(s)>>), DataOf(Tail(s)))
<1> DEFINE t == Tail(s)
<1>1. /\ Len(s) \in Nat /\ Len(s) > 0 /\ DOMAIN s = 1..Len(s)
      /\ DOMAIN t = 1..(Len(s) - 1) /\ \A i \in 1..(Len(s) - 1) : t[i] = s[i + 1]
      /\ Head(s) = s[1]
  OBVIOUS
<1> HIDE DEF t
<1>2. ASSUME NEW i \in DataIn(t)
      PROVE  i \in Int /\ i >= 1 /\ i + 1 \in DataIn(s) /\ t[i] = s[i + 1]
  BY <1>1, <1>2 DEF DataIn
<1>3. Sorted(t)
  <2>1. SUFFICES ASSUME NEW i \in DataIn(t), NEW k \in DataIn(t), i < k,
                        t[i].stream = t[k].stream
                 PROVE  t[i].number < t[k].number
    BY DEF Sorted
  <2>2. /\ i + 1 \in DataIn(s) /\ k + 1 \in DataIn(s) /\ i + 1 < k + 1
        /\ t[i] = s[i + 1] /\ t[k] = s[k + 1]
    BY <1>2, <2>1
  <2>3. QED BY <2>1, <2>2 DEF Sorted
<1>4. DataOf(t) \subseteq DataOf(s)
  BY <1>2 DEF DataOf
<1>5. DataOf(<<Head(s)>>) \subseteq DataOf(s)
  <2>1. SUFFICES ASSUME s[1].kind = "data" PROVE s[1] \in DataOf(s)
    BY <1>1, SortedShort
  <2>2. QED BY <1>1, <2>1 DEF DataOf, DataIn
<1>6. Before(DataOf(<<Head(s)>>), DataOf(t))
  <2>1. SUFFICES ASSUME NEW p \in DataOf(<<Head(s)>>), NEW i \in DataIn(t),
                        p.stream = t[i].stream
                 PROVE  p.number < t[i].number
    BY DEF Before, DataOf
  <2>2. p = s[1] /\ s[1].kind = "data"
    BY <1>1, <2>1, SortedShort
  <2>3. 1 \in DataIn(s) /\ i + 1 \in DataIn(s) /\ 1 < i + 1 /\ t[i] = s[i + 1]
    BY <1>1, <1>2, <2>2 DEF DataIn
  <2>4. QED BY <2>1, <2>2, <2>3 DEF Sorted
<1>7. QED BY <1>3, <1>4, <1>5, <1>6 DEF t

-----------------------------------------------------------------------------
\* Dropping pages anywhere leaves the rest in order.
LEMMA Shrinks ==
  ASSUME NEW w, NEW c, NEW r, NEW a, Ordered(w, c, r, a),
         NEW w2, NEW c2, NEW r2, NEW a2,
         Sorted(w2), Sorted(c2), Sorted(r2), Sorted(a2),
         DataOf(w2) \subseteq DataOf(w), DataOf(c2) \subseteq DataOf(c),
         DataOf(r2) \subseteq DataOf(r), DataOf(a2) \subseteq DataOf(a)
  PROVE  Ordered(w2, c2, r2, a2)
BY DEF Ordered, Before

\* The send thread takes the first part of the ring.
LEMMA TakesOldest ==
  ASSUME NEW S, NEW w, NEW c \in Seq(S), NEW q \in Seq(S), NEW a,
         Ordered(w, <<>>, c \o q, a)
  PROVE  Ordered(w, c, q, a)
<1>1. Sorted(c) /\ Sorted(q) /\ Before(DataOf(c), DataOf(q))
  BY SortedSplit DEF Ordered
<1>2. DataOf(c) \subseteq DataOf(c \o q) /\ DataOf(q) \subseteq DataOf(c \o q)
  BY DataOfConcat
<1>3. QED BY <1>1, <1>2 DEF Ordered, Before

\* It sends what it has taken.
LEMMA SendsChunk ==
  ASSUME NEW S, NEW w \in Seq(S), NEW c \in Seq(S), NEW r, NEW a, Ordered(w, c, r, a)
  PROVE  Ordered(w \o c, <<>>, r, a)
<1>1. Sorted(w \o c) /\ DataOf(w \o c) = DataOf(w) \union DataOf(c)
  BY SortedConcat, DataOfConcat DEF Ordered
<1>2. Sorted(<<>>) /\ DataOf(<<>>) = {}
  BY SortedShort
<1>3. QED BY <1>1, <1>2 DEF Ordered, Before

\* The audio callback queues what it has made.
LEMMA QueuesAudio ==
  ASSUME NEW S, NEW r \in Seq(S), NEW a \in Seq(S), NEW w, NEW c, Ordered(w, c, r, a)
  PROVE  Ordered(w, c, r \o a, <<>>)
<1>1. Sorted(r \o a) /\ DataOf(r \o a) = DataOf(r) \union DataOf(a)
  BY SortedConcat, DataOfConcat DEF Ordered
<1>2. Sorted(<<>>) /\ DataOf(<<>>) = {}
  BY SortedShort
<1>3. QED BY <1>1, <1>2 DEF Ordered, Before

\* Pages without audio change nothing.
LEMMA AddsNoData ==
  ASSUME NEW S, NEW s \in Seq(S), NEW t \in Seq(S), Sorted(s), DataOf(t) = {}
  PROVE  Sorted(s \o t) /\ DataOf(s \o t) = DataOf(s)
<1>1. Sorted(t) /\ Before(DataOf(s), DataOf(t))
  BY SortedWithoutData DEF Before
<1>2. Sorted(s \o t)
  BY <1>1, SortedConcat
<1>3. DataOf(s \o t) = DataOf(s) \union DataOf(t)
  BY DataOfConcat
<1>4. QED BY <1>2, <1>3

\* What is under way are sequences of pages, with every thread.
LEMMA PagesTyped ==
  IInv => /\ \A t \in Makers : made[t] \in Seq(Pages)
          /\ ring \in Seq(Pages) /\ chunk \in Seq(Pages) /\ wire \in Seq(Pages)
          /\ {"audio", "start", "reconnect"} \subseteq Makers /\ Jobs \subseteq Makers
BY InvType DEF TypeOK, Makers

\* Header and last pages carry no audio.
LEMMA NoAudioIn ==
  ASSUME NEW s, NEW t
  PROVE  DataOf(<<HeadPage(s, t)>>) = {} /\ DataOf(<<EndPage(s)>>) = {}
BY SortedShort DEF HeadPage, EndPage

\* Steps that only drop pages, or add some without audio.
LEMMA LineShrinks ==
  ASSUME Line, UNCHANGED <<stream, pages>>,
         Sorted(wire'), Sorted(chunk'), Sorted(ring'), Sorted(made'["audio"]),
         DataOf(wire') \subseteq DataOf(wire), DataOf(chunk') \subseteq DataOf(chunk),
         DataOf(ring') \subseteq DataOf(ring),
         DataOf(made'["audio"]) \subseteq DataOf(made["audio"]),
         \A t \in Makers \ {"audio"} : DataOf(made'[t]) = {}
  PROVE  Line'
<1>1. Ordered(wire', chunk', ring', made'["audio"])
  BY Shrinks DEF Line
<1>2. /\ Known(DataOf(wire))' /\ Known(DataOf(chunk))' /\ Known(DataOf(ring))'
      /\ Known(DataOf(made["audio"]))'
  BY DEF Line, Known
<1>3. QED BY <1>1, <1>2 DEF Line

\* The first pages are headers.
LEMMA LineInit == Init => Line
<1> SUFFICES ASSUME Init
             PROVE  Line
  OBVIOUS
<1>1. /\ wire = <<>> /\ chunk = <<>> /\ ring = <<>> /\ "audio" \in Makers
      /\ made = [t \in Makers |-> IF t = "start" THEN <<HeadPage(0, NoTitle)>> ELSE <<>>]
  BY DEF Init, Makers
<1>2. \A t \in Makers : DataOf(made[t]) = {}
  BY <1>1, SortedShort, NoAudioIn
<1>3. Ordered(wire, chunk, ring, made["audio"])
  BY <1>1, <1>2, SortedShort, SortedWithoutData DEF Ordered, Before
<1>4. QED BY <1>1, <1>2, <1>3, SortedShort DEF Line, Known

-----------------------------------------------------------------------------
\* An encoded page is the newest of its stream.
LEMMA LineEncode == ASSUME IInv, Line, Encode PROVE Line'
<1> DEFINE page == DataPage(stream, pages + 1)
<1>1. /\ made["audio"] = <<>> /\ made' = [made EXCEPT !["audio"] = <<page>>]
      /\ pages' = pages + 1 /\ pages \in Nat /\ stream \in Nat
      /\ UNCHANGED <<stream, wire, chunk, ring>>
  BY StreamAssumption DEF Encode, OpusEncodes, VorbisEncodes, historyVars, IInv, Scalars
<1>2. made'["audio"] = <<page>> /\ \A t \in Makers \ {"audio"} : made'[t] = made[t]
  BY <1>1, PagesTyped DEF IInv, Flow
<1>3. page.stream = stream /\ page.number = pages + 1
  BY DEF DataPage
<1>4. DataOf(<<page>>) \subseteq {page} /\ Sorted(<<page>>)
  BY SortedShort
<1> HIDE DEF page
<1>5. /\ Before(DataOf(wire), DataOf(<<page>>))
      /\ Before(DataOf(chunk), DataOf(<<page>>))
      /\ Before(DataOf(ring), DataOf(<<page>>))
  <2>1. ASSUME NEW P, Known(P) PROVE Before(P, DataOf(<<page>>))
    <3>1. SUFFICES ASSUME NEW p \in P, p.stream = stream
                   PROVE  p.number < pages + 1
      BY <1>3, <1>4 DEF Before
    <3>2. p.number \in Nat /\ p.number <= pages
      BY <2>1, <3>1 DEF Known
    <3>3. QED BY <1>1, <3>2
  <2>2. QED BY <2>1 DEF Line
<1>6. Ordered(wire', chunk', ring', made'["audio"])
  BY <1>1, <1>2, <1>4, <1>5 DEF Line, Ordered
<1>7. Known(DataOf(wire))' /\ Known(DataOf(chunk))' /\ Known(DataOf(ring))'
  <2>1. ASSUME NEW p, p.stream \in 0..stream, p.number \in Nat,
               p.stream = stream => p.number <= pages
        PROVE  p.stream = stream => p.number <= pages'
    BY <1>1, <2>1
  <2>2. QED BY <1>1, <2>1 DEF Line, Known
<1>8. Known(DataOf(made["audio"]))'
  BY <1>1, <1>2, <1>3, <1>4 DEF Known
<1>9. QED BY <1>2, <1>6, <1>7, <1>8 DEF Line

\* What any thread queues lands at the end of the ring; what is lost is its beginning.
LEMMA LinePush == ASSUME IInv, Line, NEW t \in Makers, Push(t) PROVE Line'
<1> DEFINE joined == ring \o made[t]
           a2 == IF t = "audio" THEN <<>> ELSE made["audio"]
<1>1. /\ made[t] # <<>> /\ made' = [made EXCEPT ![t] = <<>>]
      /\ ring' \in {ring, joined, Tail(joined)}
      /\ UNCHANGED <<stream, pages, chunk, wire>>
  BY DEF Push, encoderVars
<1>2. /\ ring \in Seq(Pages) /\ made[t] \in Seq(Pages) /\ "audio" \in Makers
      /\ joined \in Seq(Pages) /\ joined # <<>>
  <2>1. ring \in Seq(Pages) /\ made[t] \in Seq(Pages) /\ "audio" \in Makers
    BY PagesTyped
  <2>2. QED BY <1>1, <2>1
<1>3. made'["audio"] = a2 /\ \A u \in Makers : made'[u] = IF u = t THEN <<>> ELSE made[u]
  BY <1>1, <1>2 DEF IInv, Flow
<1>4. Ordered(wire, chunk, joined, a2)
  <2>1. CASE t = "audio"
    BY <1>2, <2>1, QueuesAudio DEF Line
  <2>2. CASE t # "audio"
    <3>1. Sorted(joined) /\ DataOf(joined) = DataOf(ring)
      BY <1>2, <2>2, AddsNoData DEF Line, Ordered
    <3>2. QED BY <2>2, <3>1 DEF Line, Ordered
  <2>3. QED BY <2>1, <2>2
<1>5. DataOf(joined) = DataOf(ring) \union DataOf(made[t])
  BY <1>2, DataOfConcat
<1>6. Known(DataOf(joined))
  BY <1>5 DEF Line, Known
<1>7. Sorted(ring') /\ DataOf(ring') \subseteq DataOf(joined)
  <2>1. CASE ring' = ring
    BY <1>5, <2>1 DEF Line, Ordered
  <2>2. CASE ring' = joined
    BY <1>4, <2>2 DEF Ordered
  <2>3. CASE ring' = Tail(joined)
    BY <1>2, <1>4, <2>3, SortedTail DEF Ordered
  <2>4. QED BY <1>1, <2>1, <2>2, <2>3
<1> HIDE DEF joined, a2
<1>8. Ordered(wire', chunk', ring', made'["audio"])
  <2>1. Sorted(wire) /\ Sorted(chunk) /\ Sorted(a2)
    BY <1>4 DEF Ordered
  <2>2. Ordered(wire, chunk, ring', a2)
    BY <1>4, <1>7, <2>1, Shrinks
  <2>3. QED BY <1>1, <1>3, <2>2
<1>9. DataOf(made'["audio"]) \subseteq DataOf(made["audio"])
  BY <1>3, SortedShort DEF a2
<1>10. /\ Known(DataOf(wire))' /\ Known(DataOf(chunk))' /\ Known(DataOf(ring))'
       /\ Known(DataOf(made["audio"]))'
  BY <1>1, <1>6, <1>7, <1>9 DEF Line, Known
<1>11. \A u \in Makers \ {"audio"} : DataOf(made'[u]) = {}
  BY <1>3, SortedShort DEF Line
<1>12. QED BY <1>8, <1>10, <1>11 DEF Line

\* A restart makes headers and no audio, and the pages under way are of older streams.
LEMMA LineRestart ==
  ASSUME IInv, Line, NEW t \in Makers \ {"audio"}, NEW x, NEW ok \in BOOLEAN,
         Restarts(t, x, ok), UNCHANGED <<ring, chunk>>, wire' = wire \/ wire' = <<>>
  PROVE  Line'
<1>1. /\ stream \in Nat /\ stream' = stream + 1 /\ pages' = 0
      /\ made' = IF ok THEN [made EXCEPT ![t] = <<HeadPage(stream', x)>>] ELSE made
  BY StreamAssumption
     DEF IInv, Scalars, Restarts, OpusRestarts, VorbisRestarts, NewSerial
<1>2. /\ made'["audio"] = made["audio"]
      /\ \A u \in Makers \ {"audio"} : DataOf(made'[u]) = {}
  <2>1. DataOf(<<HeadPage(stream', x)>>) = {}
    BY NoAudioIn
  <2>2. \A u \in Makers :
          made'[u] = made[u] \/ (u = t /\ made'[u] = <<HeadPage(stream', x)>>)
    BY <1>1 DEF IInv, Flow
  <2>3. "audio" \in Makers
    BY DEF Makers
  <2>4. QED BY <2>1, <2>2, <2>3 DEF Line
<1>3. Sorted(wire') /\ DataOf(wire') \subseteq DataOf(wire)
  BY SortedShort DEF Line, Ordered
<1>4. Ordered(wire', chunk', ring', made'["audio"])
  <2>1. Sorted(chunk) /\ Sorted(ring) /\ Sorted(made["audio"])
    BY DEF Line, Ordered
  <2>2. Ordered(wire', chunk, ring, made["audio"])
    BY <1>3, <2>1, Shrinks DEF Line
  <2>3. QED BY <1>2, <2>2
<1>5. /\ Known(DataOf(wire))' /\ Known(DataOf(chunk))' /\ Known(DataOf(ring))'
      /\ Known(DataOf(made["audio"]))'
  <2>1. ASSUME NEW p, p.stream \in 0..stream
        PROVE  p.stream \in 0..stream' /\ p.stream # stream'
    BY <1>1, <2>1
  <2>2. /\ \A p \in DataOf(wire') : p.stream \in 0..stream /\ p.number \in Nat
        /\ \A p \in DataOf(chunk') : p.stream \in 0..stream /\ p.number \in Nat
        /\ \A p \in DataOf(ring') : p.stream \in 0..stream /\ p.number \in Nat
        /\ \A p \in DataOf(made'["audio"]) : p.stream \in 0..stream /\ p.number \in Nat
    BY <1>2, <1>3 DEF Line, Known
  <2>3. QED BY <2>1, <2>2 DEF Known
<1>6. QED BY <1>2, <1>4, <1>5 DEF Line

\* The send thread.
LEMMA LineSend ==
  ASSUME IInv, Line, SendRead \/ SendChunk \/ SendFails \/ LinkLost
  PROVE  Line'
<1>1. UNCHANGED <<stream, pages, made>>
  BY DEF SendRead, SendChunk, SendFails, LinkLost, encoderVars
<1>2. ring \in Seq(Pages) /\ chunk \in Seq(Pages) /\ wire \in Seq(Pages)
  BY PagesTyped
<1>3. /\ Ordered(wire', chunk', ring', made["audio"])
      /\ DataOf(wire') \union DataOf(chunk') \union DataOf(ring')
           \subseteq DataOf(wire) \union DataOf(chunk) \union DataOf(ring)
  <2>1. CASE SendRead
    <3>1. PICK n \in 1..Len(ring) :
            chunk' = SubSeq(ring, 1, n) /\ ring' = SubSeq(ring, n + 1, Len(ring))
      BY <2>1 DEF SendRead
    <3>2. chunk = <<>> /\ wire' = wire
      BY <2>1 DEF SendRead, historyVars
    <3>3. chunk' \in Seq(Pages) /\ ring' \in Seq(Pages) /\ ring = chunk' \o ring'
      BY <1>2, <3>1, RingCut
    <3>4. Ordered(wire', chunk', ring', made["audio"])
      BY <3>2, <3>3, TakesOldest DEF Line
    <3>5. DataOf(chunk') \subseteq DataOf(ring) /\ DataOf(ring') \subseteq DataOf(ring)
      BY <3>3, DataOfConcat
    <3>6. QED BY <3>2, <3>4, <3>5
  <2>2. CASE SendChunk /\ shout
    <3>1. wire' = wire \o chunk /\ chunk' = <<>> /\ ring' = ring
      BY <2>2 DEF SendChunk
    <3>2. Ordered(wire', chunk', ring', made["audio"])
      BY <1>2, <3>1, SendsChunk DEF Line
    <3>3. DataOf(wire') = DataOf(wire) \union DataOf(chunk) /\ DataOf(chunk') = {}
      BY <1>2, <3>1, DataOfConcat, SortedShort
    <3>4. QED BY <3>1, <3>2, <3>3
  <2>3. CASE (SendChunk /\ ~shout) \/ SendFails \/ LinkLost
    <3>1. wire' = wire /\ ring' = ring /\ (chunk' = <<>> \/ chunk' = chunk)
      BY <2>3 DEF SendChunk, SendFails, LinkLost, historyVars
    <3>2. Sorted(chunk') /\ DataOf(chunk') \subseteq DataOf(chunk)
      BY <3>1, SortedShort DEF Line, Ordered
    <3>3. Ordered(wire', chunk', ring', made["audio"])
      <4>1. Sorted(wire) /\ Sorted(ring) /\ Sorted(made["audio"])
        BY DEF Line, Ordered
      <4>2. QED BY <3>1, <3>2, <4>1, Shrinks DEF Line
    <3>4. QED BY <3>1, <3>2, <3>3
  <2>4. QED BY <2>1, <2>2, <2>3
<1>4. /\ Known(DataOf(wire))' /\ Known(DataOf(chunk))' /\ Known(DataOf(ring))'
      /\ Known(DataOf(made["audio"]))'
  <2> DEFINE before == DataOf(wire) \union DataOf(chunk) \union DataOf(ring)
  <2>1. /\ \A p \in DataOf(wire') : p \in before
        /\ \A p \in DataOf(chunk') : p \in before
        /\ \A p \in DataOf(ring') : p \in before
    BY <1>3
  <2>2. QED BY <1>1, <2>1 DEF Line, Known
<1>5. QED BY <1>1, <1>3, <1>4 DEF Line

\* The reconnect thread after its restart, whose headers begin the new connection.
LEMMA LineReconnect ==
  ASSUME IInv, Line,
         ReconnectGivesUp \/ ReconnectSendsHeaders \/ ReconnectPublishes \/ ReconnectDone
  PROVE  Line'
<1>1. UNCHANGED <<stream, pages, ring, chunk>>
  BY DEF ReconnectGivesUp, ReconnectSendsHeaders, ReconnectPublishes, ReconnectDone,
         encoderVars
<1>2. wire' = wire \/ wire' = made["reconnect"]
  BY DEF ReconnectGivesUp, ReconnectSendsHeaders, ReconnectPublishes, ReconnectDone,
         historyVars
<1>3. made' = made \/ made' = [made EXCEPT !["reconnect"] = <<>>]
  BY DEF ReconnectGivesUp, ReconnectSendsHeaders, ReconnectPublishes, ReconnectDone
<1>4. "reconnect" \in Makers \ {"audio"} /\ "audio" \in Makers
  BY DEF Makers
<1>5. Sorted(wire') /\ DataOf(wire') \subseteq DataOf(wire)
  BY <1>2, <1>4, SortedWithoutData DEF Line, Ordered
<1>6. made'["audio"] = made["audio"]
  BY <1>3, <1>4 DEF IInv, Flow
<1>7. \A u \in Makers : made'[u] = made[u] \/ made'[u] = <<>>
  BY <1>3 DEF IInv, Flow
<1>8. \A u \in Makers \ {"audio"} : DataOf(made'[u]) = {}
  BY <1>7, SortedShort DEF Line
<1>9. Sorted(chunk') /\ Sorted(ring') /\ Sorted(made'["audio"])
  BY <1>1, <1>6 DEF Line, Ordered
<1>10. QED BY <1>1, <1>5, <1>6, <1>8, <1>9, LineShrinks

\* The teardown empties the ring and adds the last page.
LEMMA LineTeardown == ASSUME IInv, Line, Teardown PROVE Line'
<1>1. /\ UNCHANGED <<stream, pages, made, chunk>> /\ ring' = <<>>
      /\ wire' = wire \/ wire' = Append(wire, EndPage(stream))
  BY DEF Teardown, encoderVars
<1>2. wire \in Seq(Pages) /\ EndPage(stream) \in Pages
  BY PagesTyped, OtherPagesGood DEF GoodPages, IInv, Scalars
<1>3. Append(wire, EndPage(stream)) = wire \o <<EndPage(stream)>>
  BY <1>2
<1>4. <<EndPage(stream)>> \in Seq(Pages)
  BY <1>2
<1>5. Sorted(wire') /\ DataOf(wire') = DataOf(wire)
  <2>1. Sorted(wire) /\ DataOf(<<EndPage(stream)>>) = {}
    BY NoAudioIn DEF Line, Ordered
  <2>2. /\ Sorted(wire \o <<EndPage(stream)>>)
        /\ DataOf(wire \o <<EndPage(stream)>>) = DataOf(wire)
    BY <1>2, <1>4, <2>1, AddsNoData
  <2>3. QED BY <1>1, <1>3, <2>1, <2>2
<1>6. Sorted(ring') /\ DataOf(ring') = {}
  BY <1>1, SortedShort
<1>7. Sorted(chunk) /\ Sorted(made["audio"])
  BY DEF Line, Ordered
<1>8. QED BY <1>1, <1>5, <1>6, <1>7, LineShrinks DEF Line

\* No step takes the pages out of order.
LEMMA LineNext == IInv /\ Line /\ [Next]_vars => Line'
<1> SUFFICES ASSUME IInv, Line, [Next]_vars
             PROVE  Line'
  OBVIOUS
<1>1. CASE Encode
  BY <1>1, LineEncode
<1>2. ASSUME NEW t \in Makers, Push(t) PROVE Line'
  BY <1>2, LinePush
<1>3. ASSUME NEW j \in Jobs, MetadataChain(j) PROVE Line'
  <2>1. PICK t \in Titles, ok \in BOOLEAN : Restarts(j, t, ok)
    BY <1>3 DEF MetadataChain
  <2>2. j \in Makers \ {"audio"}
    BY StreamAssumption DEF Makers, Jobs
  <2>3. UNCHANGED <<ring, chunk, wire>>
    BY <1>3 DEF MetadataChain
  <2>4. QED BY <2>1, <2>2, <2>3, LineRestart
<1>4. CASE ReconnectRestarts
  <2>1. PICK ok \in BOOLEAN : Restarts("reconnect", title, ok)
    BY <1>4 DEF ReconnectRestarts
  <2>2. "reconnect" \in Makers \ {"audio"}
    BY DEF Makers
  <2>3. UNCHANGED <<ring, chunk>> /\ wire' = <<>>
    BY <1>4 DEF ReconnectRestarts
  <2>4. QED BY <2>1, <2>2, <2>3, LineRestart
<1>5. CASE SendRead \/ SendChunk \/ SendFails \/ LinkLost
  BY <1>5, LineSend
<1>6. CASE ReconnectGivesUp \/ ReconnectSendsHeaders \/ ReconnectPublishes \/ ReconnectDone
  BY <1>6, LineReconnect
<1>7. CASE Teardown
  BY <1>7, LineTeardown
<1>8. ASSUME UNCHANGED <<stream, pages, made, ring, chunk, wire>> PROVE Line'
  <2>1. Sorted(wire) /\ Sorted(chunk) /\ Sorted(ring) /\ Sorted(made["audio"])
    BY DEF Line, Ordered
  <2>2. QED BY <1>8, <2>1, LineShrinks DEF Line
<1>9. CASE \/ \E j \in Pool : OnPushMetadata(j)
           \/ RequestMetadata
           \/ \E j \in Jobs : MetadataGate(j) \/ MetadataReply(j)
  BY <1>8, <1>9 DEF OnPushMetadata, RequestMetadata, MetadataGate, MetadataReply, JobOnly,
                    encoderVars, historyVars
<1>10. CASE UNCHANGED vars
  BY <1>8, <1>10 DEF vars, encoderVars, historyVars
<1>11. CASE \E j \in Jobs : MetadataPush(j)
  BY <1>2, <1>11 DEF MetadataPush, Makers
<1>12. CASE AudioPush \/ StartupPush
  BY <1>2, <1>12 DEF AudioPush, StartupPush, Makers
<1>13. QED BY <1>1, <1>3, <1>4, <1>5, <1>6, <1>7, <1>9, <1>10, <1>11, <1>12 DEF Next

\* The way to the server ends in order.
LEMMA LineInOrder == IInv /\ Line => PagesInOrder
<1> SUFFICES ASSUME IInv, Line
             PROVE  PagesInOrder
  OBVIOUS
<1>1. Sorted(wire)
  BY DEF Line, Ordered
<1>2. QED BY <1>1 DEF PagesInOrder, Sorted, DataIn

\* Pages of one Ogg serial reach the server in the order in which they were made, none
\* twice, through restarts, reconnects, titles and overflows of the ring.
THEOREM PagesStayInOrder == Spec => []PagesInOrder
<1>1. Spec => []Line
  BY Invariant, LineInit, LineNext, PTL DEF Spec
<1>2. QED BY <1>1, Invariant, LineInOrder, PTL

-----------------------------------------------------------------------------
NoHeads(items) == HeadsIn(items) = {}

\* The last header pages of these are those of the stream s.
EndsWith(items, s) ==
  \E i \in HeadsIn(items) : items[i].stream = s /\ \A k \in HeadsIn(items) : k <= i

\* Where the header pages of the present stream may be, with no others behind them: with
\* the thread that made them, in the ring, with the send thread, at the server.
OnlyMaker(t) ==
  EndsWith(made[t], stream) /\ \A u \in Makers \ {t} : NoHeads(made[u])
NoMaker == \A u \in Makers : NoHeads(made[u])

InMade == \E t \in Makers : OnlyMaker(t)
InRing == NoMaker /\ EndsWith(ring, stream)
InChunk == NoMaker /\ NoHeads(ring) /\ EndsWith(chunk, stream)
OnWire == NoMaker /\ NoHeads(ring) /\ NoHeads(chunk) /\ EndsWith(wire, stream)

HeadersCurrent ==
  ~disturbed =>
    /\ shout => InMade \/ InRing \/ InChunk \/ OnWire
    /\ reconnect = "headers" => OnlyMaker("reconnect") /\ NoHeads(ring) /\ NoHeads(chunk)
    /\ reconnect = "publish" => OnWire

\* Only a job that pushes, and the reconnect thread before it sends, hold headers back,
\* and of the jobs of the dock one runs at a time.
Holders ==
  /\ \A j \in Jobs : made[j] # <<>> => job[j] = "pushing"
  /\ made["reconnect"] # <<>> => reconnect = "headers"
  /\ NoHeads(made["audio"])
  /\ \A j \in Pool : job[j] # "none" => inFlight
  /\ \A j, k \in Pool : job[j] # "none" /\ job[k] # "none" => j = k
  /\ job["remote"] # "replying"

\* There is no connection while one is lost, sought or torn down.
Seeking == {"opening", "headers", "publish"}
LinkState ==
  /\ send \in {"lost", "ended"} \/ reconnect \in Seeking => ~shout
  /\ send = "lost" => reconnect \notin Seeking
  /\ send = "ended" => reconnect = "none"

-----------------------------------------------------------------------------
\* Headers of two sequences in a row: those of the second decide, if it has any.
LEMMA HeadsConcat ==
  ASSUME NEW S, NEW s \in Seq(S), NEW t \in Seq(S), NEW st
  PROVE  /\ NoHeads(s) /\ NoHeads(t) => NoHeads(s \o t)
         /\ EndsWith(t, st) => EndsWith(s \o t, st)
         /\ EndsWith(s, st) /\ NoHeads(t) => EndsWith(s \o t, st)
<1> DEFINE u == s \o t
<1>1. /\ Len(u) = Len(s) + Len(t) /\ Len(s) \in Nat /\ Len(t) \in Nat
      /\ DOMAIN u = 1..Len(u) /\ DOMAIN s = 1..Len(s) /\ DOMAIN t = 1..Len(t)
      /\ \A i \in 1..Len(s) : u[i] = s[i]
      /\ \A i \in 1..Len(t) : u[Len(s) + i] = t[i]
  OBVIOUS
<1> HIDE DEF u
<1>2. ASSUME NEW i \in HeadsIn(u)
      PROVE  \/ i \in Int /\ i <= Len(s) /\ i \in HeadsIn(s)
             \/ i \in Int /\ i > Len(s) /\ i - Len(s) \in HeadsIn(t)
  <2>1. i \in 1..Len(u)
    BY <1>1, <1>2 DEF HeadsIn
  <2>2. CASE i <= Len(s)
    BY <1>1, <1>2, <2>1, <2>2 DEF HeadsIn
  <2>3. CASE i > Len(s)
    <3>1. i - Len(s) \in 1..Len(t) /\ i = Len(s) + (i - Len(s))
      BY <1>1, <2>1, <2>3
    <3>2. u[i] = t[i - Len(s)]
      BY <1>1, <3>1
    <3>3. QED BY <1>1, <1>2, <2>1, <2>3, <3>1, <3>2 DEF HeadsIn
  <2>4. QED BY <1>1, <2>1, <2>2, <2>3
<1>3. NoHeads(s) /\ NoHeads(t) => NoHeads(u)
  BY <1>2 DEF NoHeads
<1>4. ASSUME EndsWith(t, st) PROVE EndsWith(u, st)
  <2>1. PICK i \in HeadsIn(t) : t[i].stream = st /\ \A k \in HeadsIn(t) : k <= i
    BY <1>4 DEF EndsWith
  <2>2. i \in 1..Len(t) /\ t[i].kind = "head"
    BY <1>1, <2>1 DEF HeadsIn
  <2>3. Len(s) + i \in DOMAIN u /\ u[Len(s) + i] = t[i]
    BY <1>1, <2>2
  <2>4. Len(s) + i \in HeadsIn(u) /\ u[Len(s) + i].stream = st
    BY <2>1, <2>2, <2>3 DEF HeadsIn
  <2>5. ASSUME NEW k \in HeadsIn(u) PROVE k <= Len(s) + i
    <3>1. CASE k \in Int /\ k <= Len(s)
      BY <1>1, <2>2, <3>1
    <3>2. CASE k \in Int /\ k - Len(s) \in HeadsIn(t)
      BY <1>1, <2>1, <2>2, <3>2
    <3>3. QED BY <1>2, <2>5, <3>1, <3>2
  <2>6. QED BY <2>4, <2>5 DEF EndsWith
<1>5. ASSUME EndsWith(s, st), NoHeads(t) PROVE EndsWith(u, st)
  <2>1. PICK i \in HeadsIn(s) : s[i].stream = st /\ \A k \in HeadsIn(s) : k <= i
    BY <1>5 DEF EndsWith
  <2>2. i \in 1..Len(s) /\ s[i].kind = "head"
    BY <1>1, <2>1 DEF HeadsIn
  <2>3. i \in DOMAIN u /\ u[i] = s[i]
    BY <1>1, <2>2
  <2>4. i \in HeadsIn(u) /\ u[i].stream = st
    BY <2>1, <2>2, <2>3 DEF HeadsIn
  <2>5. \A k \in HeadsIn(u) : k <= i
    BY <1>2, <1>5, <2>1 DEF NoHeads
  <2>6. QED BY <2>4, <2>5 DEF EndsWith
<1>6. QED BY <1>3, <1>4, <1>5 DEF u

\* And back: the last headers of both are those of the second, or of the first when the
\* second has none.
LEMMA HeadsSplit ==
  ASSUME NEW S, NEW s \in Seq(S), NEW t \in Seq(S), NEW st
  PROVE  /\ NoHeads(s \o t) => NoHeads(s) /\ NoHeads(t)
         /\ EndsWith(s \o t, st) => EndsWith(t, st) \/ (NoHeads(t) /\ EndsWith(s, st))
<1> DEFINE u == s \o t
<1>1. /\ Len(u) = Len(s) + Len(t) /\ Len(s) \in Nat /\ Len(t) \in Nat
      /\ DOMAIN u = 1..Len(u) /\ DOMAIN s = 1..Len(s) /\ DOMAIN t = 1..Len(t)
      /\ \A i \in 1..Len(s) : u[i] = s[i]
      /\ \A i \in 1..Len(t) : u[Len(s) + i] = t[i]
  OBVIOUS
<1> HIDE DEF u
<1>2. ASSUME NEW i \in HeadsIn(s)
      PROVE  i \in HeadsIn(u) /\ u[i] = s[i] /\ i \in 1..Len(s)
  BY <1>1, <1>2 DEF HeadsIn
<1>3. ASSUME NEW i \in HeadsIn(t)
      PROVE  Len(s) + i \in HeadsIn(u) /\ u[Len(s) + i] = t[i] /\ i \in 1..Len(t)
  <2>1. i \in 1..Len(t) /\ t[i].kind = "head"
    BY <1>1, <1>3 DEF HeadsIn
  <2>2. Len(s) + i \in 1..Len(u) /\ u[Len(s) + i] = t[i]
    BY <1>1, <2>1
  <2>3. QED BY <1>1, <2>1, <2>2 DEF HeadsIn
<1>4. NoHeads(u) => NoHeads(s) /\ NoHeads(t)
  BY <1>2, <1>3 DEF NoHeads
<1>5. ASSUME EndsWith(u, st)
      PROVE  EndsWith(t, st) \/ (NoHeads(t) /\ EndsWith(s, st))
  <2>1. PICK i \in HeadsIn(u) : u[i].stream = st /\ \A k \in HeadsIn(u) : k <= i
    BY <1>5 DEF EndsWith
  <2>2. i \in 1..Len(u) /\ u[i].kind = "head"
    BY <1>1, <2>1 DEF HeadsIn
  <2>3. CASE i <= Len(s)
    <3>1. i \in HeadsIn(s) /\ s[i].stream = st
      BY <1>1, <2>1, <2>2, <2>3 DEF HeadsIn
    <3>2. EndsWith(s, st)
      BY <1>2, <2>1, <3>1 DEF EndsWith
    <3>3. NoHeads(t)
      <4>1. SUFFICES ASSUME NEW k \in HeadsIn(t) PROVE FALSE
        BY DEF NoHeads
      <4>2. Len(s) + k <= i /\ k \in 1..Len(t)
        BY <1>3, <2>1
      <4>3. QED BY <1>1, <2>2, <2>3, <4>2
    <3>4. QED BY <3>2, <3>3
  <2>4. CASE i > Len(s)
    <3>1. i - Len(s) \in 1..Len(t) /\ i = Len(s) + (i - Len(s))
      BY <1>1, <2>2, <2>4
    <3>2. t[i - Len(s)] = u[i]
      BY <1>1, <3>1
    <3>3. i - Len(s) \in HeadsIn(t) /\ t[i - Len(s)].stream = st
      BY <1>1, <2>1, <2>2, <3>1, <3>2 DEF HeadsIn
    <3>4. ASSUME NEW k \in HeadsIn(t) PROVE k <= i - Len(s)
      <4>1. Len(s) + k <= i /\ k \in 1..Len(t)
        BY <1>3, <2>1
      <4>2. QED BY <1>1, <2>2, <4>1
    <3>5. QED BY <3>3, <3>4 DEF EndsWith
  <2>5. QED BY <1>1, <2>2, <2>3, <2>4
<1>6. QED BY <1>4, <1>5 DEF u

\* Headers of the rest once the oldest item is gone: still the last of these, unless the
\* oldest item was the last header page itself.
LEMMA HeadsTail ==
  ASSUME NEW S, NEW s \in Seq(S), s # <<>>, NEW st
  PROVE  /\ NoHeads(s) => NoHeads(Tail(s)) /\ NoHeads(<<Head(s)>>)
         /\ EndsWith(s, st) =>
              \/ EndsWith(Tail(s), st)
              \/ /\ NoHeads(Tail(s)) /\ EndsWith(<<Head(s)>>, st)
                 /\ Head(s).kind = "head" /\ Head(s).stream = st
<1> DEFINE t == Tail(s)
           h == <<Head(s)>>
<1>1. /\ Len(s) \in Nat /\ Len(s) > 0 /\ DOMAIN s = 1..Len(s)
      /\ DOMAIN t = 1..(Len(s) - 1) /\ \A i \in 1..(Len(s) - 1) : t[i] = s[i + 1]
      /\ DOMAIN h = {1} /\ h[1] = s[1] /\ Head(s) = s[1]
  OBVIOUS
<1> HIDE DEF t, h
<1>2. ASSUME NEW i \in HeadsIn(t) PROVE i \in Nat /\ i + 1 \in HeadsIn(s)
  BY <1>1, <1>2 DEF HeadsIn
<1>3. ASSUME NEW i \in HeadsIn(h) PROVE i = 1 /\ 1 \in HeadsIn(s)
  BY <1>1, <1>3 DEF HeadsIn
<1>4. NoHeads(s) => NoHeads(t) /\ NoHeads(h)
  BY <1>2, <1>3 DEF NoHeads
<1>5. ASSUME EndsWith(s, st)
      PROVE  \/ EndsWith(t, st)
             \/ /\ NoHeads(t) /\ EndsWith(h, st)
                /\ Head(s).kind = "head" /\ Head(s).stream = st
  <2>1. PICK i \in HeadsIn(s) : s[i].stream = st /\ \A k \in HeadsIn(s) : k <= i
    BY <1>5 DEF EndsWith
  <2>2. i \in 1..Len(s) /\ s[i].kind = "head"
    BY <1>1, <2>1 DEF HeadsIn
  <2>3. CASE i = 1
    <3>1. NoHeads(t)
      <4>1. SUFFICES ASSUME NEW k \in HeadsIn(t) PROVE FALSE
        BY DEF NoHeads
      <4>2. k \in 1..(Len(s) - 1) /\ k + 1 <= 1
        BY <1>1, <1>2, <2>1, <2>3, <4>1 DEF HeadsIn
      <4>3. QED BY <1>1, <4>2
    <3>2. 1 \in HeadsIn(h) /\ h[1].stream = st
      BY <1>1, <2>1, <2>2, <2>3 DEF HeadsIn
    <3>3. EndsWith(h, st)
      BY <1>3, <3>2 DEF EndsWith
    <3>4. QED BY <1>1, <2>1, <2>2, <2>3, <3>1, <3>3
  <2>4. CASE i > 1
    <3>1. i - 1 \in 1..(Len(s) - 1) /\ (i - 1) + 1 = i
      BY <1>1, <2>2, <2>4
    <3>2. t[i - 1] = s[i]
      BY <1>1, <3>1
    <3>3. i - 1 \in HeadsIn(t) /\ t[i - 1].stream = st
      BY <1>1, <2>1, <2>2, <3>1, <3>2 DEF HeadsIn
    <3>4. ASSUME NEW k \in HeadsIn(t) PROVE k <= i - 1
      BY <1>2, <2>1, <2>2, <3>4
    <3>5. QED BY <3>3, <3>4 DEF EndsWith
  <2>5. QED BY <2>2, <2>3, <2>4
<1>6. QED BY <1>4, <1>5 DEF t, h

\* Short sequences.
LEMMA HeadsShort ==
  /\ NoHeads(<<>>) /\ \A st : ~EndsWith(<<>>, st)
  /\ \A s, n : NoHeads(<<DataPage(s, n)>>)
  /\ \A s, t : EndsWith(<<HeadPage(s, t)>>, s)
<1>1. NoHeads(<<>>) /\ \A st : ~EndsWith(<<>>, st)
  BY DEF NoHeads, EndsWith, HeadsIn
<1>2. ASSUME NEW s, NEW n PROVE NoHeads(<<DataPage(s, n)>>)
  <2>1. DOMAIN <<DataPage(s, n)>> = {1} /\ <<DataPage(s, n)>>[1].kind = "data"
    BY DEF DataPage
  <2>2. QED BY <2>1 DEF NoHeads, HeadsIn
<1>3. ASSUME NEW s, NEW t PROVE EndsWith(<<HeadPage(s, t)>>, s)
  <2>1. /\ DOMAIN <<HeadPage(s, t)>> = {1} /\ <<HeadPage(s, t)>>[1].kind = "head"
        /\ <<HeadPage(s, t)>>[1].stream = s
    BY DEF HeadPage
  <2>2. HeadsIn(<<HeadPage(s, t)>>) = {1}
    BY <2>1 DEF HeadsIn
  <2>3. QED BY <2>1, <2>2 DEF EndsWith
<1>4. QED BY <1>1, <1>2, <1>3

\* What ends with headers has some.
LEMMA EndsHasHeads == ASSUME NEW items, NEW s PROVE EndsWith(items, s) => ~NoHeads(items)
BY DEF EndsWith, NoHeads

\* The threads differ.
LEMMA Threads ==
  /\ Pool \subseteq Jobs /\ Jobs \subseteq Makers /\ "remote" \in Jobs \ Pool
  /\ {"audio", "start", "reconnect"} \subseteq Makers
  /\ "audio" \notin Jobs /\ "start" \notin Jobs /\ "reconnect" \notin Jobs
BY StreamAssumption DEF Jobs, Makers

-----------------------------------------------------------------------------
\* The start, with its headers in hand and connected.
LEMMA HeadersInit == Init => Holders /\ LinkState /\ HeadersCurrent
<1> SUFFICES ASSUME Init
             PROVE  Holders /\ LinkState /\ HeadersCurrent
  OBVIOUS
<1>1. /\ made = [t \in Makers |-> IF t = "start" THEN <<HeadPage(0, NoTitle)>> ELSE <<>>]
      /\ job = [j \in Jobs |-> "none"] /\ stream = 0
      /\ reconnect = "none" /\ send = "running"
  BY DEF Init
<1>2. Holders
  <2>1. \A j \in Jobs : made[j] = <<>> /\ job[j] = "none"
    BY <1>1, Threads
  <2>2. made["reconnect"] = <<>> /\ made["audio"] = <<>>
    BY <1>1, Threads
  <2>3. QED BY <2>1, <2>2, HeadsShort, Threads DEF Holders
<1>3. LinkState
  BY <1>1 DEF LinkState, Seeking
<1>4. OnlyMaker("start")
  BY <1>1, Threads, HeadsShort DEF OnlyMaker
<1>5. QED BY <1>1, <1>2, <1>3, <1>4, Threads DEF HeadersCurrent, InMade

\* The connection is gone before it is sought, and back when it is published.
LEMMA LinkNext == IInv /\ LinkState /\ [Next]_vars => LinkState'
<1> SUFFICES ASSUME IInv, LinkState, [Next]_vars
             PROVE  LinkState'
  OBVIOUS
<1>1. CASE SendFails \/ LinkLost \/ Teardown
  BY <1>1 DEF SendFails, LinkLost, Teardown, LinkState, Seeking
<1>2. CASE \/ ReconnectGivesUp \/ ReconnectRestarts \/ ReconnectSendsHeaders
           \/ ReconnectPublishes \/ ReconnectDone
  BY <1>2 DEF ReconnectGivesUp, ReconnectRestarts, ReconnectSendsHeaders,
              ReconnectPublishes, ReconnectDone, LinkState, Seeking
<1>3. ASSUME UNCHANGED <<send, shout, reconnect>> PROVE LinkState'
  BY <1>3 DEF LinkState
<1>4. CASE Encode \/ AudioPush \/ StartupPush \/ SendRead \/ SendChunk
  BY <1>3, <1>4 DEF Encode, AudioPush, StartupPush, Push, SendRead, SendChunk, linkVars
<1>5. CASE \/ \E j \in Pool : OnPushMetadata(j)
           \/ RequestMetadata
           \/ \E j \in Jobs : \/ MetadataGate(j) \/ MetadataChain(j)
                              \/ MetadataPush(j) \/ MetadataReply(j)
  BY <1>3, <1>5 DEF OnPushMetadata, RequestMetadata, MetadataGate, MetadataChain,
                    MetadataPush, Push, MetadataReply, JobOnly, linkVars
<1>6. CASE UNCHANGED vars
  BY <1>3, <1>6 DEF vars, linkVars
<1>7. QED BY <1>1, <1>2, <1>4, <1>5, <1>6 DEF Next

\* Steps of other threads than the jobs.
LEMMA HoldersKept ==
  ASSUME Holders, UNCHANGED <<job, inFlight>>,
         \A j \in Jobs : made'[j] = made[j] \/ made'[j] = <<>>,
         made'["reconnect"] # <<>> => reconnect' = "headers", NoHeads(made'["audio"])
  PROVE  Holders'
BY DEF Holders, NoHeads, HeadsIn

\* The push of a title: one job of the dock at a time, and headers only in its last step.
LEMMA HoldersJobs ==
  ASSUME IInv, Holders,
         \/ \E j \in Pool : OnPushMetadata(j)
         \/ RequestMetadata
         \/ \E j \in Jobs : \/ MetadataGate(j) \/ MetadataChain(j)
                            \/ MetadataPush(j) \/ MetadataReply(j)
  PROVE  Holders'
<1>1. job \in [Jobs -> JobPC] /\ DOMAIN made = Makers
  BY DEF IInv, Scalars, Flow
<1>2. CASE \E j \in Pool : OnPushMetadata(j)
  <2>1. PICK j \in Pool : /\ ~inFlight /\ inFlight' = TRUE
                          /\ job' = [job EXCEPT ![j] = "asked"] /\ job[j] = "none"
                          /\ UNCHANGED <<made, reconnect>>
    BY <1>2 DEF OnPushMetadata, JobOnly, linkVars
  <2>2. \A k \in Jobs : job'[k] = IF k = j THEN "asked" ELSE job[k]
    BY <1>1, <2>1
  <2>3. \A k \in Pool : job[k] = "none"
    BY <2>1 DEF Holders
  <2>4. \A k \in Jobs : made[k] # <<>> => job'[k] = "pushing"
    BY <2>1, <2>2 DEF Holders
  <2>5. job'["remote"] # "replying"
    BY <2>1, <2>2, Threads DEF Holders
  <2>6. NoHeads(made'["audio"])
    BY <2>1 DEF Holders
  <2>7. QED BY <2>1, <2>2, <2>3, <2>4, <2>5, <2>6, Threads DEF Holders
<1>3. CASE RequestMetadata
  <2>1. /\ job["remote"] = "none" /\ job' = [job EXCEPT !["remote"] = "asked"]
        /\ UNCHANGED <<made, inFlight, reconnect>>
    BY <1>3 DEF RequestMetadata, JobOnly, linkVars
  <2>2. \A k \in Jobs : job'[k] = IF k = "remote" THEN "asked" ELSE job[k]
    BY <1>1, <2>1
  <2>3. NoHeads(made'["audio"])
    BY <2>1 DEF Holders
  <2>4. QED BY <2>1, <2>2, <2>3, Threads DEF Holders
<1>4. ASSUME NEW j \in Jobs, NEW pc, job' = [job EXCEPT ![j] = pc], job[j] # "none",
             pc = "pushing" \/ made'[j] = <<>>,
             j = "remote" => pc # "replying",
             inFlight' = inFlight \/ (j \in Pool /\ pc = "none"),
             \A u \in Makers \ {j} : made'[u] = made[u], UNCHANGED reconnect
      PROVE  Holders'
  <2>1. \A k \in Jobs : job'[k] = IF k = j THEN pc ELSE job[k]
    BY <1>1, <1>4
  <2>2. \A k \in Jobs : made'[k] # <<>> => job'[k] = "pushing"
    BY <1>4, <2>1, Threads DEF Holders
  <2>3. made'["reconnect"] # <<>> => reconnect' = "headers"
    BY <1>4, Threads DEF Holders
  <2>4. NoHeads(made'["audio"])
    BY <1>4, Threads DEF Holders
  <2>5. \A k \in Pool : job'[k] # "none" => job[k] # "none"
    BY <1>4, <2>1, Threads
  <2>6. \A k, l \in Pool : job'[k] # "none" /\ job'[l] # "none" => k = l
    BY <2>5 DEF Holders
  <2>7. \A k \in Pool : job'[k] # "none" => inFlight'
    BY <1>4, <2>1, <2>5, Threads DEF Holders
  <2>8. job'["remote"] # "replying"
    BY <1>4, <2>1, Threads DEF Holders
  <2>9. QED BY <2>2, <2>3, <2>4, <2>6, <2>7, <2>8 DEF Holders
<1>5. \A j \in Jobs : Finished(j) \in {"none", "replying"} /\ Finished("remote") = "none"
  BY Threads DEF Finished
<1>6. ASSUME NEW j \in Jobs, MetadataGate(j) PROVE Holders'
  <2>1. /\ job[j] = "asked"
        /\ job' = [job EXCEPT ![j] = IF connected THEN "checked" ELSE Finished(j)]
        /\ UNCHANGED <<made, inFlight, reconnect>>
    BY <1>6 DEF MetadataGate, JobOnly, linkVars
  <2>2. made'[j] = <<>>
    BY <2>1 DEF Holders
  <2>3. j = "remote" => (IF connected THEN "checked" ELSE Finished(j)) # "replying"
    BY <1>5
  <2>4. QED BY <1>4, <2>1, <2>2, <2>3
<1>7. ASSUME NEW j \in Jobs, MetadataChain(j) PROVE Holders'
  <2>1. PICK t \in Titles, ok \in BOOLEAN :
          /\ Restarts(j, t, ok)
          /\ job' = [job EXCEPT ![j] = IF ok THEN "pushing" ELSE Finished(j)]
    BY <1>7 DEF MetadataChain
  <2>2. job[j] = "checked" /\ UNCHANGED <<inFlight, reconnect>>
    BY <1>7 DEF MetadataChain, linkVars
  <2>3. made' = IF ok THEN [made EXCEPT ![j] = <<HeadPage(stream', t)>>] ELSE made
    BY <2>1 DEF Restarts, OpusRestarts, VorbisRestarts
  <2>4. \A u \in Makers \ {j} : made'[u] = made[u]
    BY <1>1, <2>3
  <2>5. ok \/ made'[j] = <<>>
    BY <2>2, <2>3 DEF Holders
  <2>6. j = "remote" => (IF ok THEN "pushing" ELSE Finished(j)) # "replying"
    BY <1>5
  <2>7. QED BY <1>4, <2>1, <2>2, <2>4, <2>5, <2>6
<1>8. ASSUME NEW j \in Jobs, MetadataPush(j) PROVE Holders'
  <2>1. /\ job[j] = "pushing" /\ job' = [job EXCEPT ![j] = Finished(j)]
        /\ made' = [made EXCEPT ![j] = <<>>] /\ UNCHANGED <<inFlight, reconnect>>
    BY <1>8 DEF MetadataPush, Push, linkVars
  <2>2. made'[j] = <<>> /\ \A u \in Makers \ {j} : made'[u] = made[u]
    BY <1>1, <2>1, Threads
  <2>3. j = "remote" => Finished(j) # "replying"
    BY <1>5
  <2>4. QED BY <1>4, <2>1, <2>2, <2>3
<1>9. ASSUME NEW j \in Jobs, MetadataReply(j) PROVE Holders'
  <2>1. /\ job[j] = "replying" /\ job' = [job EXCEPT ![j] = "none"]
        /\ UNCHANGED <<made, reconnect>>
    BY <1>9 DEF MetadataReply, JobOnly, linkVars
  <2>2. made'[j] = <<>>
    BY <2>1 DEF Holders
  <2>3. j \in Pool
    BY <2>1 DEF Holders, Jobs
  <2>4. QED BY <1>4, <2>1, <2>2, <2>3
<1>10. QED BY <1>2, <1>3, <1>6, <1>7, <1>8, <1>9

\* The other threads.
LEMMA HoldersNext == IInv /\ LinkState /\ Holders /\ [Next]_vars => Holders'
<1> SUFFICES ASSUME IInv, LinkState, Holders, [Next]_vars
             PROVE  Holders'
  OBVIOUS
<1>1. DOMAIN made = Makers
  BY DEF IInv, Flow
<1>2. CASE Encode
  <2>1. /\ made' = [made EXCEPT !["audio"] = <<DataPage(stream, pages + 1)>>]
        /\ UNCHANGED <<job, inFlight, reconnect>>
    BY <1>2 DEF Encode, jobVars, linkVars
  <2>2. NoHeads(made'["audio"])
    BY <1>1, <2>1, Threads, HeadsShort
  <2>3. \A u \in Makers \ {"audio"} : made'[u] = made[u]
    BY <1>1, <2>1
  <2>4. (made'["reconnect"] # <<>> => reconnect' = "headers")
    BY <2>1, <2>3, Threads DEF Holders
  <2>5. QED BY <2>1, <2>2, <2>3, <2>4, Threads, HoldersKept
<1>3. ASSUME UNCHANGED <<job, inFlight>>,
             \A u \in Makers : made'[u] = made[u] \/ made'[u] = <<>>,
             made["reconnect"] # <<>> /\ made'["reconnect"] # <<>> => reconnect' = "headers"
      PROVE  Holders'
  BY <1>3, Threads, HeadsShort, HoldersKept DEF Holders
<1>4. ASSUME NEW t \in {"audio", "start"}, Push(t), UNCHANGED jobVars PROVE Holders'
  <2>1. \A u \in Makers : made'[u] = made[u] \/ made'[u] = <<>>
    BY <1>1, <1>4 DEF Push
  <2>2. UNCHANGED <<job, inFlight, reconnect>>
    BY <1>4 DEF Push, jobVars, linkVars
  <2>3. QED BY <1>3, <2>1, <2>2 DEF Holders
<1>5. CASE \/ \E j \in Pool : OnPushMetadata(j)
           \/ RequestMetadata
           \/ \E j \in Jobs : \/ MetadataGate(j) \/ MetadataChain(j)
                              \/ MetadataPush(j) \/ MetadataReply(j)
  BY <1>5, HoldersJobs
<1>6. CASE SendRead \/ SendChunk \/ SendFails \/ Teardown
  <2>1. UNCHANGED <<made, job, inFlight>>
    BY <1>6 DEF SendRead, SendChunk, SendFails, Teardown, jobVars
  <2>2. UNCHANGED reconnect
    BY <1>6 DEF SendRead, SendChunk, SendFails, Teardown, linkVars
  <2>3. QED BY <1>3, <2>1, <2>2 DEF Holders
<1>7. CASE LinkLost
  <2>1. UNCHANGED <<made, job, inFlight>> /\ made["reconnect"] = <<>>
    BY <1>7 DEF LinkLost, jobVars, LinkState, Seeking, Holders
  <2>2. QED BY <1>3, <2>1
<1>8. CASE ReconnectGivesUp \/ ReconnectPublishes \/ ReconnectDone
  <2>1. UNCHANGED <<made, job, inFlight>> /\ made["reconnect"] = <<>>
    BY <1>8 DEF ReconnectGivesUp, ReconnectPublishes, ReconnectDone, jobVars, Holders
  <2>2. QED BY <1>3, <2>1
<1>9. CASE ReconnectSendsHeaders
  <2>1. /\ made' = [made EXCEPT !["reconnect"] = <<>>] /\ UNCHANGED <<job, inFlight>>
    BY <1>9 DEF ReconnectSendsHeaders, jobVars
  <2>2. /\ made'["reconnect"] = <<>>
        /\ \A u \in Makers : made'[u] = made[u] \/ made'[u] = <<>>
    BY <1>1, <2>1, Threads
  <2>3. QED BY <1>3, <2>1, <2>2
<1>10. CASE ReconnectRestarts
  <2>1. PICK ok \in BOOLEAN : Restarts("reconnect", title, ok)
    BY <1>10 DEF ReconnectRestarts
  <2>2. reconnect' = "headers" /\ UNCHANGED <<job, inFlight>>
    BY <1>10 DEF ReconnectRestarts, jobVars
  <2>3. \A u \in Makers \ {"reconnect"} : made'[u] = made[u]
    BY <1>1, <2>1 DEF Restarts, OpusRestarts, VorbisRestarts
  <2>4. NoHeads(made'["audio"])
    BY <2>3, Threads DEF Holders
  <2>5. QED BY <2>2, <2>3, <2>4, Threads, HoldersKept
<1>11. CASE UNCHANGED vars
  <2>1. UNCHANGED <<made, job, inFlight, reconnect>>
    BY <1>11 DEF vars, jobVars, linkVars
  <2>2. QED BY <1>3, <2>1 DEF Holders
<1>12. CASE AudioPush \/ StartupPush
  BY <1>4, <1>12 DEF AudioPush, StartupPush
<1>13. QED BY <1>2, <1>5, <1>6, <1>7, <1>8, <1>9, <1>10, <1>11, <1>12 DEF Next

-----------------------------------------------------------------------------
(***************************************************************************)
(* Where the headers of the present stream are, step by step.              *)
(***************************************************************************)
Somewhere == InMade \/ InRing \/ InChunk \/ OnWire

\* The headers of a new connection are the only ones.
OnlyReconnect == OnlyMaker("reconnect") /\ NoHeads(ring) /\ NoHeads(chunk)

\* They move on, on the same connection.
LEMMA HeadersMove ==
  ASSUME HeadersCurrent, UNCHANGED <<disturbed, shout, reconnect>>,
         shout /\ Somewhere => Somewhere', OnlyReconnect => OnlyReconnect',
         OnWire => OnWire'
  PROVE  HeadersCurrent'
<1>1. HeadersCurrent <=>
        (~disturbed => /\ shout => Somewhere
                       /\ reconnect = "headers" => OnlyReconnect
                       /\ reconnect = "publish" => OnWire)
  BY DEF HeadersCurrent, Somewhere, OnlyReconnect
<1>2. HeadersCurrent' <=>
        (~disturbed' => /\ shout' => Somewhere'
                        /\ reconnect' = "headers" => OnlyReconnect'
                        /\ reconnect' = "publish" => OnWire')
  BY DEF HeadersCurrent, Somewhere, OnlyReconnect
<1>3. QED BY <1>1, <1>2

\* Nothing that header pages depend on changes.
LEMMA HeadersStay ==
  ASSUME HeadersCurrent, UNCHANGED <<stream, made, ring, chunk, wire, disturbed>>,
         shout' => shout, reconnect' \in {"headers", "publish"} => reconnect' = reconnect
  PROVE  HeadersCurrent'
BY DEF HeadersCurrent, InMade, OnlyMaker, InRing, NoMaker, InChunk, OnWire, NoHeads,
       EndsWith, HeadsIn

\* A page of audio comes between no headers.
LEMMA HeadersEncode == ASSUME IInv, HeadersCurrent, Holders, Encode PROVE HeadersCurrent'
<1>1. /\ made' = [made EXCEPT !["audio"] = <<DataPage(stream, pages + 1)>>]
      /\ UNCHANGED <<stream, ring, chunk, wire, disturbed, shout, reconnect>>
  BY DEF Encode, linkVars, historyVars
<1>2. /\ NoHeads(made'["audio"]) /\ NoHeads(made["audio"])
      /\ \A u \in Makers \ {"audio"} : made'[u] = made[u]
  BY <1>1, HeadsShort, Threads DEF IInv, Flow, Holders
<1>3. ASSUME NEW t \in Makers, OnlyMaker(t) PROVE OnlyMaker(t)'
  <2>1. t # "audio"
    BY <1>2, <1>3, EndsHasHeads DEF OnlyMaker
  <2>2. EndsWith(made'[t], stream')
    BY <1>1, <1>2, <1>3, <2>1 DEF OnlyMaker
  <2>3. \A u \in Makers \ {t} : NoHeads(made'[u])
    BY <1>2, <1>3 DEF OnlyMaker
  <2>4. QED BY <2>2, <2>3 DEF OnlyMaker
<1>4. NoMaker => NoMaker'
  BY <1>2 DEF NoMaker
<1>5. /\ InMade => InMade'
      /\ InRing => InRing'
      /\ InChunk => InChunk'
      /\ OnWire => OnWire'
  BY <1>1, <1>3, <1>4 DEF InMade, InRing, InChunk, OnWire
<1>6. OnlyReconnect => OnlyReconnect'
  BY <1>1, <1>3, Threads DEF OnlyReconnect
<1>7. Somewhere => Somewhere'
  BY <1>5 DEF Somewhere
<1>8. QED BY <1>1, <1>5, <1>6, <1>7, HeadersMove

\* What a thread pushes goes behind the headers, or takes them along; the ring drops
\* headers of the present stream only in a step that disturbs.
LEMMA HeadersPush ==
  ASSUME IInv, HeadersCurrent, LinkState, NEW t \in Makers \ {"reconnect"}, Push(t)
  PROVE  HeadersCurrent'
<1> DEFINE joined == ring \o made[t]
<1>1. /\ made[t] # <<>> /\ made' = [made EXCEPT ![t] = <<>>]
      /\ UNCHANGED <<stream, chunk, wire, shout, reconnect>>
      /\ disturbed' = (disturbed \/ LosesHeaders(made[t]))
  BY DEF Push, encoderVars, linkVars
<1>2. /\ ring \in Seq(Pages) /\ made[t] \in Seq(Pages) /\ joined \in Seq(Pages)
      /\ joined # <<>>
  <2>1. ring \in Seq(Pages) /\ made[t] \in Seq(Pages)
    BY PagesTyped
  <2>2. QED BY <1>1, <2>1
<1>3. \A u \in Makers : made'[u] = IF u = t THEN <<>> ELSE made[u]
  BY <1>1 DEF IInv, Flow
<1>4. NoHeads(made[t]) => \A u \in Makers : NoHeads(made[u]) => NoHeads(made'[u])
  BY <1>3, HeadsShort
<1>5. NoHeads(ring) /\ NoHeads(made[t]) => NoHeads(ring')
  <2>1. SUFFICES ASSUME NoHeads(ring), NoHeads(made[t]) PROVE NoHeads(ring')
    OBVIOUS
  <2>2. NoHeads(joined)
    BY <1>2, <2>1, HeadsConcat
  <2>3. NoHeads(Tail(joined))
    BY <1>2, <2>2, HeadsTail
  <2>4. QED BY <2>1, <2>2, <2>3 DEF Push
<1>6. ASSUME EndsWith(joined, stream), send # "ended", ~disturbed'
      PROVE  EndsWith(ring', stream)
  <2>1. CASE Overflows(made[t])
    <3>1. ring' = Tail(joined)
      BY <1>6, <2>1 DEF Push
    <3>2. ~(Head(joined).kind = "head" /\ Head(joined).stream = stream)
      BY <1>1, <1>6, <2>1 DEF LosesHeaders
    <3>3. QED BY <1>2, <1>6, <3>1, <3>2, HeadsTail
  <2>2. CASE ~Overflows(made[t])
    BY <1>6, <2>2 DEF Push
  <2>3. QED BY <2>1, <2>2
<1> HIDE DEF joined
<1>7. SUFFICES ASSUME ~disturbed'
               PROVE  /\ shout' => (InMade \/ InRing \/ InChunk \/ OnWire)'
                      /\ reconnect' = "headers" =>
                           (OnlyMaker("reconnect") /\ NoHeads(ring) /\ NoHeads(chunk))'
                      /\ reconnect' = "publish" => OnWire'
  BY DEF HeadersCurrent
<1>8. ~disturbed
  BY <1>1, <1>7
<1>9. ASSUME NEW u \in Makers \ {t}, OnlyMaker(u) PROVE OnlyMaker(u)' /\ NoHeads(made[t])
  <2>1. NoHeads(made[t])
    BY <1>9 DEF OnlyMaker
  <2>2. EndsWith(made'[u], stream')
    BY <1>1, <1>3, <1>9 DEF OnlyMaker
  <2>3. \A v \in Makers \ {u} : NoHeads(made'[v])
    BY <1>4, <1>9, <2>1 DEF OnlyMaker
  <2>4. QED BY <2>1, <2>2, <2>3 DEF OnlyMaker
<1>10. OnWire => OnWire'
  BY <1>1, <1>4, <1>5 DEF OnWire, NoMaker
<1>11. reconnect' = "headers" =>
         (OnlyMaker("reconnect") /\ NoHeads(ring) /\ NoHeads(chunk))'
  BY <1>1, <1>5, <1>8, <1>9, Threads DEF HeadersCurrent
<1>12. ASSUME shout' PROVE (InMade \/ InRing \/ InChunk \/ OnWire)'
  <2>1. send # "ended" /\ Somewhere
    BY <1>1, <1>8, <1>12 DEF LinkState, HeadersCurrent, Somewhere
  <2>2. ASSUME NEW u \in Makers, OnlyMaker(u) PROVE InMade' \/ InRing'
    <3>1. CASE u = t
      <4>1. EndsWith(joined, stream)
        BY <1>2, <2>2, <3>1, HeadsConcat DEF OnlyMaker, joined
      <4>2. NoMaker'
        BY <1>3, <2>2, <3>1, HeadsShort DEF OnlyMaker, NoMaker
      <4>3. QED BY <1>1, <1>6, <1>7, <2>1, <4>1, <4>2 DEF InRing
    <3>2. CASE u # t
      BY <1>9, <2>2, <3>2 DEF InMade
    <3>3. QED BY <3>1, <3>2
  <2>3. InRing => InRing'
    <3>1. SUFFICES ASSUME InRing PROVE InRing'
      OBVIOUS
    <3>2. NoHeads(made[t]) /\ NoMaker'
      BY <1>4, <3>1 DEF InRing, NoMaker
    <3>3. EndsWith(joined, stream)
      BY <1>2, <3>1, <3>2, HeadsConcat DEF InRing, joined
    <3>4. QED BY <1>1, <1>6, <1>7, <2>1, <3>2, <3>3 DEF InRing
  <2>4. InChunk => InChunk'
    BY <1>1, <1>4, <1>5 DEF InChunk, NoMaker
  <2>5. QED BY <1>10, <2>1, <2>2, <2>3, <2>4 DEF Somewhere, InMade
<1>13. QED BY <1>1, <1>8, <1>10, <1>11, <1>12 DEF HeadersCurrent

\* The headers of a title are alone with their thread, unless the step disturbs.
LEMMA HeadersChain ==
  ASSUME IInv, HeadersCurrent, Holders, NEW j \in Jobs, MetadataChain(j)
  PROVE  HeadersCurrent'
<1>1. PICK t \in Titles, ok \in BOOLEAN :
        /\ Restarts(j, t, ok)
        /\ disturbed' = \/ ~ok \/ MeetsAnotherChain(j)
                        \/ ~shout \/ reconnect # "none" \/ made["start"] # <<>>
                        \/ disturbed /\ HeadsOnTheWay
  BY DEF MetadataChain
<1>2. UNCHANGED <<reconnect, shout>> /\ job[j] = "checked"
  BY DEF MetadataChain, linkVars
<1>3. SUFFICES ASSUME ~disturbed' PROVE InMade' /\ reconnect' = "none"
  BY DEF HeadersCurrent
<1>4. ok /\ ~MeetsAnotherChain(j) /\ reconnect = "none" /\ made["start"] = <<>>
  BY <1>1, <1>3
<1>5. made' = [made EXCEPT ![j] = <<HeadPage(stream', t)>>]
  BY <1>1, <1>4 DEF Restarts, OpusRestarts, VorbisRestarts
<1>6. EndsWith(made'[j], stream') /\ \A u \in Makers \ {j} : made'[u] = made[u]
  BY <1>5, HeadsShort, Threads DEF IInv, Flow
<1>7. ASSUME NEW u \in Makers \ {j} PROVE NoHeads(made[u])
  <2>1. CASE u \in Jobs
    <3>1. SUFFICES ASSUME job[u] = "pushing" PROVE FALSE
      BY <2>1, HeadsShort DEF Holders
    <3>2. "remote" \notin {j, u}
      BY <1>4, <1>7, <2>1, <3>1 DEF MeetsAnotherChain
    <3>3. j \in Pool /\ u \in Pool
      BY <2>1, <3>2 DEF Jobs
    <3>4. QED BY <1>2, <1>7, <3>1, <3>3 DEF Holders
  <2>2. CASE u \in {"audio", "start", "reconnect"}
    BY <1>4, <2>2, HeadsShort DEF Holders
  <2>3. QED BY <2>1, <2>2 DEF Makers
<1>8. OnlyMaker(j)'
  BY <1>6, <1>7 DEF OnlyMaker
<1>9. QED BY <1>2, <1>4, <1>8, Threads DEF InMade

\* The send thread takes headers along.
LEMMA HeadersRead == ASSUME IInv, HeadersCurrent, SendRead PROVE HeadersCurrent'
<1>1. chunk = <<>> /\ UNCHANGED <<stream, made, wire, disturbed, shout, reconnect>>
  BY DEF SendRead, encoderVars, linkVars, historyVars
<1>2. chunk' \in Seq(Pages) /\ ring' \in Seq(Pages) /\ ring = chunk' \o ring'
  <2>1. PICK n \in 1..Len(ring) :
          chunk' = SubSeq(ring, 1, n) /\ ring' = SubSeq(ring, n + 1, Len(ring))
    BY DEF SendRead
  <2>2. QED BY <2>1, RingCut, PagesTyped
<1>3. /\ NoHeads(ring) => NoHeads(ring') /\ NoHeads(chunk')
      /\ EndsWith(ring, stream) =>
           EndsWith(ring', stream) \/ (NoHeads(ring') /\ EndsWith(chunk', stream))
  BY <1>2, HeadsSplit
<1>4. (NoMaker => NoMaker') /\ \A t \in Makers : OnlyMaker(t) => OnlyMaker(t)'
  BY <1>1 DEF NoMaker, OnlyMaker
<1>5. /\ InMade => InMade'
      /\ OnWire => OnWire'
      /\ InRing => InRing' \/ InChunk'
  BY <1>1, <1>3, <1>4 DEF InMade, OnWire, InRing, InChunk
<1>6. ~InChunk
  BY <1>1, HeadsShort DEF InChunk
<1>7. OnlyReconnect => OnlyReconnect'
  BY <1>3, <1>4, Threads DEF OnlyReconnect
<1>8. Somewhere => Somewhere'
  BY <1>5, <1>6 DEF Somewhere
<1>9. QED BY <1>1, <1>5, <1>7, <1>8, HeadersMove

\* It sends them, when there is a connection.
LEMMA HeadersChunk ==
  ASSUME IInv, HeadersCurrent, LinkState, SendChunk
  PROVE  HeadersCurrent'
<1>1. /\ wire' = (IF shout THEN wire \o chunk ELSE wire) /\ chunk' = <<>>
      /\ UNCHANGED <<stream, made, ring, disturbed, shout, reconnect>>
  BY DEF SendChunk, encoderVars, linkVars
<1>2. wire \in Seq(Pages) /\ chunk \in Seq(Pages) /\ NoHeads(chunk')
  BY <1>1, PagesTyped, HeadsShort
<1>3. (NoMaker => NoMaker') /\ \A t \in Makers : OnlyMaker(t) => OnlyMaker(t)'
  BY <1>1 DEF NoMaker, OnlyMaker
<1>4. (InMade => InMade') /\ (InRing => InRing')
  BY <1>1, <1>3 DEF InMade, InRing
<1>5. OnWire => OnWire'
  BY <1>1, <1>2, <1>3, HeadsConcat DEF OnWire
<1>6. shout /\ InChunk => OnWire'
  BY <1>1, <1>2, <1>3, HeadsConcat DEF InChunk, OnWire
<1>7. OnlyReconnect => OnlyReconnect'
  BY <1>1, <1>2, <1>3, Threads DEF OnlyReconnect
<1>8. shout /\ Somewhere => Somewhere'
  BY <1>4, <1>5, <1>6 DEF Somewhere
<1>9. QED BY <1>1, <1>5, <1>7, <1>8, HeadersMove

\* on_reconnect makes headers while no others are on the way, or disturbs.
LEMMA HeadersRestart ==
  ASSUME IInv, HeadersCurrent, LinkState, ReconnectRestarts
  PROVE  HeadersCurrent'
<1>1. PICK ok \in BOOLEAN :
        /\ Restarts("reconnect", title, ok)
        /\ disturbed' = (~ok \/ HeadsOnTheWay)
  BY DEF ReconnectRestarts
<1>2. /\ UNCHANGED <<ring, chunk, shout>> /\ ~shout /\ reconnect' = "headers"
  BY DEF ReconnectRestarts, LinkState, Seeking
<1>3. SUFFICES ASSUME ~disturbed'
               PROVE  (OnlyMaker("reconnect") /\ NoHeads(ring) /\ NoHeads(chunk))'
  BY <1>2 DEF HeadersCurrent
<1>4. ok /\ NoMaker /\ NoHeads(ring) /\ NoHeads(chunk)
  BY <1>1, <1>3 DEF HeadsOnTheWay, NoMaker, NoHeads
<1>5. made' = [made EXCEPT !["reconnect"] = <<HeadPage(stream', title)>>]
  BY <1>1, <1>4 DEF Restarts, OpusRestarts, VorbisRestarts
<1>6. /\ EndsWith(made'["reconnect"], stream')
      /\ \A u \in Makers \ {"reconnect"} : made'[u] = made[u]
  BY <1>5, HeadsShort, Threads DEF IInv, Flow
<1>7. OnlyMaker("reconnect")'
  BY <1>4, <1>6 DEF OnlyMaker, NoMaker
<1>8. QED BY <1>2, <1>4, <1>7

\* They begin what the new connection gets.
LEMMA HeadersSent ==
  ASSUME IInv, HeadersCurrent, LinkState, ReconnectSendsHeaders
  PROVE  HeadersCurrent'
<1>1. /\ reconnect = "headers" /\ reconnect' = "publish"
      /\ made' = [made EXCEPT !["reconnect"] = <<>>]
      /\ (wire' = made["reconnect"] /\ disturbed' = disturbed) \/ disturbed' = TRUE
      /\ UNCHANGED <<stream, ring, chunk, shout>> /\ ~shout
  BY DEF ReconnectSendsHeaders, encoderVars, LinkState, Seeking
<1>2. SUFFICES ASSUME ~disturbed' PROVE OnWire'
  BY <1>1 DEF HeadersCurrent
<1>3. /\ wire' = made["reconnect"] /\ OnlyMaker("reconnect")
      /\ NoHeads(ring) /\ NoHeads(chunk)
  BY <1>1, <1>2 DEF HeadersCurrent
<1>4. EndsWith(wire', stream')
  BY <1>1, <1>3 DEF OnlyMaker
<1>5. NoMaker'
  BY <1>1, <1>3, HeadsShort DEF OnlyMaker, NoMaker, IInv, Flow
<1>6. QED BY <1>1, <1>3, <1>4, <1>5 DEF OnWire

\* Then it is published; a connection that is lost or torn down carries no headers.
LEMMA HeadersLink ==
  ASSUME HeadersCurrent, LinkState,
         \/ SendFails \/ LinkLost \/ Teardown
         \/ ReconnectGivesUp \/ ReconnectPublishes \/ ReconnectDone
  PROVE  HeadersCurrent'
<1>1. CASE SendFails \/ LinkLost \/ Teardown
  <2>1. ~shout' /\ reconnect' \notin {"headers", "publish"}
    BY <1>1 DEF SendFails, LinkLost, Teardown, LinkState, Seeking
  <2>2. QED BY <2>1 DEF HeadersCurrent
<1>2. CASE ReconnectGivesUp \/ ReconnectDone
  BY <1>2, HeadersStay DEF ReconnectGivesUp, ReconnectDone, encoderVars, historyVars
<1>3. CASE ReconnectPublishes
  <2>1. /\ reconnect = "publish" /\ reconnect' = "connected"
        /\ UNCHANGED <<stream, made, ring, chunk, wire, disturbed>>
    BY <1>3 DEF ReconnectPublishes, encoderVars, historyVars
  <2>2. OnWire => OnWire'
    BY <2>1 DEF OnWire, NoMaker
  <2>3. QED BY <2>1, <2>2 DEF HeadersCurrent
<1>4. QED BY <1>1, <1>2, <1>3

\* No step leaves the headers of the present stream behind, unless it disturbs.
LEMMA HeadersNext ==
  IInv /\ Holders /\ LinkState /\ HeadersCurrent /\ [Next]_vars => HeadersCurrent'
<1> SUFFICES ASSUME IInv, Holders, LinkState, HeadersCurrent, [Next]_vars
             PROVE  HeadersCurrent'
  OBVIOUS
<1>1. CASE Encode
  BY <1>1, HeadersEncode
<1>2. CASE AudioPush \/ StartupPush
  BY <1>2, HeadersPush, Threads DEF AudioPush, StartupPush
<1>3. CASE \/ \E j \in Pool : OnPushMetadata(j)
           \/ RequestMetadata
           \/ \E j \in Jobs : MetadataGate(j) \/ MetadataReply(j)
  BY <1>3, HeadersStay DEF OnPushMetadata, RequestMetadata, MetadataGate, MetadataReply,
                           JobOnly, encoderVars, linkVars, historyVars
<1>4. CASE \E j \in Jobs : MetadataChain(j)
  BY <1>4, HeadersChain
<1>5. CASE \E j \in Jobs : MetadataPush(j)
  BY <1>5, HeadersPush, Threads DEF MetadataPush
<1>6. CASE SendRead
  BY <1>6, HeadersRead
<1>7. CASE SendChunk
  BY <1>7, HeadersChunk
<1>8. CASE ReconnectRestarts
  BY <1>8, HeadersRestart
<1>9. CASE ReconnectSendsHeaders
  BY <1>9, HeadersSent
<1>10. CASE \/ SendFails \/ LinkLost \/ Teardown
            \/ ReconnectGivesUp \/ ReconnectPublishes \/ ReconnectDone
  BY <1>10, HeadersLink
<1>11. CASE UNCHANGED vars
  BY <1>11, HeadersStay DEF vars, encoderVars, linkVars, historyVars
<1>12. QED BY <1>1, <1>2, <1>3, <1>4, <1>5, <1>6, <1>7, <1>8, <1>9, <1>10, <1>11 DEF Next

\* With no headers on the way, only the server can have them.
LEMMA HeadersArrived == HeadersCurrent => LastHeadersCurrent
<1> SUFFICES ASSUME HeadersCurrent, shout, ~disturbed, ~HeadsOnTheWay
             PROVE  EndsWith(wire, stream)
  BY DEF LastHeadersCurrent, EndsWith
<1>1. NoMaker /\ NoHeads(ring) /\ NoHeads(chunk)
  BY DEF HeadsOnTheWay, NoMaker, NoHeads
<1>2. ~InMade /\ ~InRing /\ ~InChunk
  BY <1>1, EndsHasHeads DEF InMade, OnlyMaker, NoMaker, InRing, InChunk
<1>3. QED BY <1>2 DEF HeadersCurrent, OnWire

\* A listener decodes by the headers of the stream that the encoder is in, as soon as no
\* others are on the way, through titles, reconnects and a full ring, as far as no step
\* of those that the comment of the property names has come between.
THEOREM HeadersStayCurrent == Spec => []LastHeadersCurrent
<1> DEFINE Heads == Holders /\ LinkState /\ HeadersCurrent
<1>1. Init => Heads
  BY HeadersInit
<1>2. IInv /\ Heads /\ [Next]_vars => Heads'
  BY LinkNext, HoldersNext, HeadersNext
<1>3. Heads => LastHeadersCurrent
  BY HeadersArrived
<1> HIDE DEF Heads
<1>4. QED BY <1>1, <1>2, <1>3, Invariant, PTL DEF Spec

=============================================================================
