------------------------------ MODULE OggStream ------------------------------
(***************************************************************************)
(* What a listener of an Opus or Vorbis mount gets: the Ogg pages, in the  *)
(* order in which they are made, queued and sent.  The encoder restarts    *)
(* its logical stream (new serial, new header pages) for a reconnect and   *)
(* for every title pushed, under encoder_mutex; the pages it has made are  *)
(* queued after the unlock, each by the thread that made them: the audio   *)
(* callback, the connect thread for the first headers, the jobs that push  *)
(* a title.  The send thread sends what is queued, the reconnect thread    *)
(* sends its headers itself, before it publishes the new connection.       *)
(*                                                                         *)
(* One work under encoder_mutex is one step, and so is one push.  An item  *)
(* of the ring is what one push adds; when the ring overflows the oldest   *)
(* item is lost (SendBuf has the bytes).  No push of a title reaches the   *)
(* encoder after the teardown (RadioOutput has the teardown).              *)
(***************************************************************************)
EXTENDS Integers, Sequences

CONSTANTS
  Titles,       \* the titles pushed
  NoTitle,      \* the empty title of the start
  Pool,         \* the threads of QThreadPool that may run a job of the dock; none is
                \* another of the Makers
  Remote,       \* obs-websocket pushes titles too: BOOLEAN
  RingPages,    \* the pages that SEND_BUF_CAPACITY has room for
  MaxStreams,   \* bound of this model on the restarts; the last stream gets no data pages
  MaxPages      \* bound of this model on the data pages of one logical stream

ASSUME StreamAssumption ==
  /\ NoTitle \notin Titles
  /\ Pool # {} /\ Remote \in BOOLEAN
  /\ Pool \intersect {"remote", "audio", "start", "reconnect"} = {}
  /\ RingPages \in Nat \ {0} /\ MaxStreams \in Nat /\ MaxPages \in Nat

Jobs == Pool \union {"remote"}

\* The threads that make pages and push or send them later.
Makers == Jobs \union {"audio", "start", "reconnect"}

VARIABLES
  codec,      \* the encoder
  stream,     \* the logical stream it is in: its Ogg serial
  pages,      \* the data pages it has made in this one
  title,      \* st->title
  whole,      \* the encoder is set up, and not cleared by a failed rebuild
  made,       \* made[t]: the pages that thread t has made and not yet passed on
  job,        \* job[j]: where the push of a title is
  inFlight,   \* metadataInFlight_ of the dock
  ring,       \* send_buf
  chunk,      \* scratch of the send thread
  send,       \* "running", "lost" on its way into reconnect_start, or "ended"
  shout,      \* context->shout # NULL
  connected,  \* context->state = RADIO_STATE_CONNECTED
  reconnect,  \* where the reconnect thread is
  wire,       \* history: the pages sent on the present connection
  pushed,     \* history: the title pushed last
  disturbed   \* history: the last restart failed, met one of the races that the
              \* comment of LastHeadersCurrent names, or lost its headers in the ring

encoderVars == <<codec, stream, pages, title, whole>>
jobVars == <<job, inFlight>>
linkVars == <<shout, connected, reconnect>>
historyVars == <<wire, pushed, disturbed>>
vars == <<encoderVars, made, jobVars, ring, chunk, send, linkVars, historyVars>>

JobPC == {"none", "asked", "checked", "pushing", "replying"}
ReconnectPC == {"none", "opening", "headers", "publish", "connected"}

HeadPage(s, t) == [kind |-> "head", stream |-> s, title |-> t]
DataPage(s, n) == [kind |-> "data", stream |-> s, number |-> n]
EndPage(s) == [kind |-> "end", stream |-> s]

HeadsIn(items) == {i \in DOMAIN items : items[i].kind = "head"}

\* Header pages that a thread or the ring holds back.
HeadsOnTheWay ==
  (\E t \in Makers : HeadsIn(made[t]) # {}) \/ HeadsIn(ring) # {} \/ HeadsIn(chunk) # {}

\* connect_complete has published the connection, and the capture has begun; the
\* headers that init made are about to be queued.
Init ==
  /\ codec \in {"opus", "vorbis"}
  /\ stream = 0 /\ pages = 0 /\ title = NoTitle /\ whole = TRUE
  /\ made = [t \in Makers |-> IF t = "start" THEN <<HeadPage(0, NoTitle)>> ELSE <<>>]
  /\ job = [j \in Jobs |-> "none"] /\ inFlight = FALSE
  /\ ring = <<>> /\ chunk = <<>> /\ send = "running"
  /\ shout = TRUE /\ connected = TRUE /\ reconnect = "none"
  /\ wire = <<>> /\ pushed = NoTitle /\ disturbed = FALSE

-----------------------------------------------------------------------------
(***************************************************************************)
(* The encoders.                                                           *)
(***************************************************************************)
\* Mutant: the epoch is not bumped, and the serial is the old one.
SameSerial == UNCHANGED stream /\ pages' = 0

\* A new logical stream.  Pages that are not complete are lost with the old one, and
\* no page ends it.  The serial of the code is time xor address xor epoch * 0x9E3779B1,
\* in 32 bits; here it is a counter, so that serials differ is an assumption.  Of two
\* streams in a row they do: the products differ by 0x9E3779B1 modulo 2^32, hence in one
\* of the three top bits, in which two times of the years 2021 to 2037 agree.
NewSerial == stream' = stream + 1 /\ pages' = 0

\* opus_restart_logical_stream, for headers with the title newTitle.  Without
\* headers the new stream goes on.
OpusRestarts(t, newTitle, ok) ==
  /\ codec = "opus"
  /\ NewSerial
  /\ made' = IF ok THEN [made EXCEPT ![t] = <<HeadPage(stream', newTitle)>>] ELSE made
  /\ UNCHANGED <<codec, whole>>

\* vorbis_clear_state and vorbis_setup_and_emit_headers, which clears the state again
\* when it fails.
VorbisRestarts(t, newTitle, ok) ==
  /\ codec = "vorbis"
  /\ NewSerial
  /\ made' = IF ok THEN [made EXCEPT ![t] = <<HeadPage(stream', newTitle)>>] ELSE made
  /\ whole' = ok
  /\ UNCHANGED codec

Restarts(t, newTitle, ok) ==
  /\ stream < MaxStreams
  /\ OpusRestarts(t, newTitle, ok) \/ VorbisRestarts(t, newTitle, ok)

\* encode_frame completes a page (or else keeps the block: no step).  On a Vorbis
\* state that a failed rebuild has cleared the program ends here.
OpusEncodes == codec = "opus" /\ pages' = pages + 1
VorbisEncodes == codec = "vorbis" /\ whole /\ pages' = pages + 1

-----------------------------------------------------------------------------
(***************************************************************************)
(* The audio callback, and the pushes into the ring.                       *)
(***************************************************************************)
Encode ==
  /\ send # "ended"
  /\ made["audio"] = <<>>
  /\ pages < MaxPages /\ stream < MaxStreams
  /\ OpusEncodes \/ VorbisEncodes
  /\ made' = [made EXCEPT !["audio"] = <<DataPage(stream, pages + 1)>>]
  /\ UNCHANGED <<codec, stream, title, whole, jobVars, ring, chunk, send, linkVars,
                 historyVars>>

\* The push of these pages makes room at the cost of the oldest ones.
Overflows(items) == send # "ended" /\ Len(ring \o items) > RingPages

\* What is lost are the headers of the stream the encoder is in.
LosesHeaders(items) ==
  Overflows(items) /\ LET oldest == Head(ring \o items)
                      IN oldest.kind = "head" /\ oldest.stream = stream

\* send_buf_push, after the unlock; a freed buffer takes nothing, and a full one makes
\* room.
Push(t) ==
  /\ made[t] # <<>>
  /\ made' = [made EXCEPT ![t] = <<>>]
  /\ ring' = IF send = "ended" THEN ring
             ELSE IF Overflows(made[t]) THEN Tail(ring \o made[t])
             ELSE ring \o made[t]
  /\ disturbed' = (disturbed \/ LosesHeaders(made[t]))
  /\ UNCHANGED <<encoderVars, chunk, send, linkVars, wire, pushed>>

AudioPush == Push("audio") /\ UNCHANGED jobVars
StartupPush == Push("start") /\ UNCHANGED jobVars

-----------------------------------------------------------------------------
(***************************************************************************)
(* Titles: a job of the dock, or radio.pushMetadata.                       *)
(***************************************************************************)
JobOnly == UNCHANGED <<encoderVars, made, ring, chunk, send, linkVars, historyVars>>

\* Mutant: the dock does not mind a push that is still in flight.
OnPushMetadataAnyway(j) ==
  /\ job[j] = "none"
  /\ inFlight' = TRUE
  /\ job' = [job EXCEPT ![j] = "asked"]
  /\ JobOnly

\* onPushMetadata: the job goes to the thread pool.
OnPushMetadata(j) ==
  /\ ~inFlight
  /\ job[j] = "none"
  /\ inFlight' = TRUE
  /\ job' = [job EXCEPT ![j] = "asked"]
  /\ JobOnly

\* radio.pushMetadata, on the obs-websocket thread.
RequestMetadata ==
  /\ Remote
  /\ job["remote"] = "none"
  /\ job' = [job EXCEPT !["remote"] = "asked"]
  /\ UNCHANGED inFlight
  /\ JobOnly

\* Where a job goes when there is nothing more to do: the dock gets a reply.
Finished(j) == IF j \in Pool THEN "replying" ELSE "none"

\* radio_output_emit_inband_metadata: only while CONNECTED ...
MetadataGate(j) ==
  /\ job[j] = "asked"
  /\ job' = [job EXCEPT ![j] = IF connected THEN "checked" ELSE Finished(j)]
  /\ UNCHANGED inFlight
  /\ JobOnly

\* Mutant: the title is put into these headers and not kept.
StashNothing(t) == UNCHANGED title

\* The title is kept for the headers of later streams.
Stash(t) == title' = t

\* Another job has made its header pages and not yet queued them.
MeetsAnotherChain(j) ==
  \E k \in Jobs \ {j} : job[k] = "pushing" /\ "remote" \in {j, k}

\* ... update_metadata, under encoder_mutex ...
MetadataChain(j) ==
  /\ job[j] = "checked" /\ send # "ended"
  /\ \E t \in Titles, ok \in BOOLEAN :
       /\ Stash(t) /\ pushed' = t
       /\ Restarts(j, t, ok)
       /\ job' = [job EXCEPT ![j] = IF ok THEN "pushing" ELSE Finished(j)]
       /\ disturbed' = \/ ~ok \/ MeetsAnotherChain(j)
                       \/ ~shout \/ reconnect # "none" \/ made["start"] # <<>>
                       \/ disturbed /\ HeadsOnTheWay
  /\ UNCHANGED <<inFlight, ring, chunk, send, linkVars, wire>>

\* ... and the push.
MetadataPush(j) ==
  /\ job[j] = "pushing"
  /\ Push(j)
  /\ job' = [job EXCEPT ![j] = Finished(j)]
  /\ UNCHANGED inFlight

\* The queued invocation on the UI thread.
MetadataReply(j) ==
  /\ job[j] = "replying"
  /\ job' = [job EXCEPT ![j] = "none"]
  /\ inFlight' = FALSE
  /\ JobOnly

-----------------------------------------------------------------------------
(***************************************************************************)
(* The send thread.                                                        *)
(***************************************************************************)
\* A read of up to 4096 bytes: the first pages of the ring, as many as end in it.  A page
\* that the read cuts counts for the read that ends it.
SendRead ==
  /\ send = "running" /\ chunk = <<>> /\ ring # <<>>
  /\ \E n \in 1..Len(ring) :
       chunk' = SubSeq(ring, 1, n) /\ ring' = SubSeq(ring, n + 1, Len(ring))
  /\ UNCHANGED <<encoderVars, made, jobVars, send, linkVars, historyVars>>

\* Without a connection what has been read is dropped.
SendChunk ==
  /\ send = "running" /\ chunk # <<>>
  /\ wire' = IF shout THEN wire \o chunk ELSE wire
  /\ chunk' = <<>>
  /\ UNCHANGED <<encoderVars, made, jobVars, ring, send, linkVars, pushed, disturbed>>

SendFails ==
  /\ send = "running" /\ chunk # <<>> /\ shout
  /\ shout' = FALSE
  /\ chunk' = <<>>
  /\ send' = "lost"
  /\ UNCHANGED <<encoderVars, made, jobVars, ring, connected, reconnect, historyVars>>

\* reconnect_start; or, with reconnect disabled, the state ERROR.
LinkLost ==
  /\ send = "lost"
  /\ send' = "running"
  /\ connected' = FALSE
  /\ reconnect' \in {"opening", "none"}
  /\ UNCHANGED <<encoderVars, made, jobVars, ring, chunk, shout, historyVars>>

(***************************************************************************)
(* The reconnect thread, once shout_open has succeeded or the last attempt *)
(* has failed.                                                             *)
(***************************************************************************)
ReconnectGivesUp ==
  /\ reconnect = "opening"
  /\ reconnect' = "none"
  /\ UNCHANGED <<encoderVars, made, jobVars, ring, chunk, send, shout, connected,
                 historyVars>>

\* on_reconnect, under encoder_mutex.
ReconnectRestarts ==
  /\ reconnect = "opening"
  /\ reconnect' = "headers"
  /\ wire' = <<>>
  /\ \E ok \in BOOLEAN :
       /\ Restarts("reconnect", title, ok)
       /\ disturbed' = (~ok \/ HeadsOnTheWay)
  /\ UNCHANGED <<title, jobVars, ring, chunk, send, shout, connected, pushed>>

\* Mutant: the headers go through the ring.
ReconnectQueuesHeaders ==
  /\ reconnect = "headers"
  /\ reconnect' = "publish"
  /\ ring' = ring \o made["reconnect"]
  /\ made' = [made EXCEPT !["reconnect"] = <<>>]
  /\ UNCHANGED <<encoderVars, jobVars, chunk, send, shout, connected, historyVars>>

\* shout_send of the headers, if there are any, on the new handle.  Its failure is
\* logged.
ReconnectSendsHeaders ==
  /\ reconnect = "headers"
  /\ reconnect' = "publish"
  /\ made' = [made EXCEPT !["reconnect"] = <<>>]
  /\ \/ wire' = made["reconnect"] /\ UNCHANGED disturbed
     \/ UNCHANGED wire /\ disturbed' = TRUE
  /\ UNCHANGED <<encoderVars, jobVars, ring, chunk, send, shout, connected, pushed>>

ReconnectPublishes ==
  /\ reconnect = "publish"
  /\ reconnect' = "connected"
  /\ shout' = TRUE
  /\ UNCHANGED <<encoderVars, made, jobVars, ring, chunk, send, connected, historyVars>>

ReconnectDone ==
  /\ reconnect = "connected"
  /\ reconnect' = "none"
  /\ connected' = TRUE
  /\ UNCHANGED <<encoderVars, made, jobVars, ring, chunk, send, shout, historyVars>>

-----------------------------------------------------------------------------
\* radio_output_teardown: the send thread has ended its round, the ring is freed, and
\* the last page of the encoder goes out itself.
Teardown ==
  /\ send = "running" /\ chunk = <<>> /\ reconnect = "none"
  /\ shout => whole
  /\ send' = "ended"
  /\ ring' = <<>>
  /\ wire' = IF shout THEN Append(wire, EndPage(stream)) ELSE wire
  /\ shout' = FALSE /\ connected' = FALSE
  /\ UNCHANGED <<encoderVars, made, jobVars, chunk, reconnect, pushed, disturbed>>

Next ==
  \/ Encode \/ AudioPush \/ StartupPush
  \/ \E j \in Pool : OnPushMetadata(j)
  \/ RequestMetadata
  \/ \E j \in Jobs : MetadataGate(j) \/ MetadataChain(j) \/ MetadataPush(j) \/ MetadataReply(j)
  \/ SendRead \/ SendChunk \/ SendFails \/ LinkLost
  \/ ReconnectGivesUp \/ ReconnectRestarts \/ ReconnectSendsHeaders
  \/ ReconnectPublishes \/ ReconnectDone
  \/ Teardown

Spec == Init /\ [][Next]_vars

-----------------------------------------------------------------------------
(***************************************************************************)
(* Properties.                                                             *)
(***************************************************************************)
Pages ==
  [kind : {"head"}, stream : 0..MaxStreams, title : Titles \union {NoTitle}]
    \union [kind : {"data"}, stream : 0..MaxStreams, number : 1..MaxPages]
    \union [kind : {"end"}, stream : 0..MaxStreams]

TypeOK ==
  /\ codec \in {"opus", "vorbis"} /\ stream \in 0..MaxStreams /\ pages \in 0..MaxPages
  /\ title \in Titles \union {NoTitle} /\ whole \in BOOLEAN
  /\ made \in [Makers -> Seq(Pages)]
  /\ job \in [Jobs -> JobPC] /\ inFlight \in BOOLEAN
  /\ ring \in Seq(Pages) /\ chunk \in Seq(Pages) /\ wire \in Seq(Pages)
  /\ send \in {"running", "lost", "ended"}
  /\ shout \in BOOLEAN /\ connected \in BOOLEAN /\ reconnect \in ReconnectPC
  /\ pushed \in Titles \union {NoTitle} /\ disturbed \in BOOLEAN

\* What a listener decodes by is what the encoder produces: when no header pages are
\* on the way any more, the last that the server got are those of the logical stream
\* the encoder is in.  Not covered (disturbed) are a title pushed before the headers
\* of the start are queued or while there is no connection, a title of obs-websocket
\* beside one of the dock (TitlesInOrder), a reconnect that finds headers still
\* queued, headers that a full ring has dropped, and failures of a rebuild or of the
\* headers' shout_send; the next restart that meets none of these mends it.
LastHeadersCurrent ==
  shout /\ ~disturbed /\ ~HeadsOnTheWay =>
    \E i \in HeadsIn(wire) :
      /\ wire[i].stream = stream
      /\ \A k \in HeadsIn(wire) : k <= i

\* The title of the last push is in the headers of the present stream wherever they
\* are, also in those made for a reconnect (radio-opus-encoder.c 78-80: a rejoining
\* listener sees the live title).
TitleSurvives ==
  \A items \in {made[t] : t \in Makers} \union {ring, chunk, wire} :
    \A i \in HeadsIn(items) : items[i].stream = stream => items[i].title = pushed

\* Within one Ogg serial the pages reach the server in the order in which they were
\* made and none twice, whatever happens to the connection, however often the stream
\* is restarted and whichever pages a full ring drops.  That two streams have not the
\* same serial is assumed (NewSerial).
PagesInOrder ==
  \A i, k \in DOMAIN wire :
    /\ i < k
    /\ wire[i].kind = "data" /\ wire[k].kind = "data"
    /\ wire[i].stream = wire[k].stream
    => wire[i].number < wire[k].number

(***************************************************************************)
(* A property that a comment states and the code does not have.            *)
(***************************************************************************)
\* Titles that several threads push are queued in the order in which the encoder
\* took them, so the last one is the one that stays: obs-ws-vendor.c 219-221 has
\* radio.pushMetadata beside the dock because the push "is documented thread-safe".
TitlesInOrder ==
  \A i, k \in HeadsIn(ring) :
    /\ i < k /\ NoTitle \notin {ring[i].title, ring[k].title}
    => ring[i].stream < ring[k].stream
=============================================================================
