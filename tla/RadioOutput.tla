---------------------------- MODULE RadioOutput -----------------------------
(***************************************************************************)
(* The life of one output of the plugin: struct radio_output, from         *)
(* radio_output_create to radio_output_destroy, and every thread that      *)
(* touches it (radio-output.c, reconnect.c):                               *)
(*                                                                         *)
(*   main       create, start, stop, destroy: the frontend calls them      *)
(*   connect    connect_thread_fn, one detached thread per start           *)
(*   send       encoder_send_thread, drains the ring buffer to libshout    *)
(*   reconnect  reconnect_thread_fn, after a failed shout_send             *)
(*   audio      radio_output_raw_audio, called by libobs while capturing   *)
(*                                                                         *)
(* One step is one access to shared state that another thread can see      *)
(* between two others; what a thread does under a mutex without blocking   *)
(* is one step, and a mutex held over a longer piece of work (job->mutex,  *)
(* encoder_mutex) is read off the holders' program counters.  A step that  *)
(* the C standard leaves undefined (a use of the freed context, of a       *)
(* destroyed mutex, of a NULL encoder) either stops there or goes on as if *)
(* nothing had happened; the properties look at the state before it.       *)
(***************************************************************************)
EXTENDS Integers

CONSTANTS
  ReconnectEnabled,  \* context->reconnect_enabled
  MaxRetries,        \* context->reconnect_max_retries, 0 for no limit
  Container,         \* the codec has header pages: Opus and Vorbis, not MP3
  RingCapacity,      \* items the send buffer holds (bytes, in the code)
  AttemptCap         \* bound of this model on the counter of an unlimited retry

ASSUME SettingsAssumption ==
  /\ ReconnectEnabled \in BOOLEAN
  /\ Container \in BOOLEAN
  /\ MaxRetries \in Nat
  /\ RingCapacity \in Nat \ {0}
  /\ AttemptCap \in Nat \ {0}
  /\ MaxRetries <= AttemptCap

VARIABLES
  main, wasError, inStop, joined,            \* main thread: pc, teardown's locals
  connect, job,                                \* connect thread: pc, struct radio_connect_job
  send,                                        \* send thread: pc
  reconnect,                                   \* reconnect threads: pc
  audio,                                       \* audio callback: pc
  state,                                       \* context->state
  shout, connections,                          \* context->shout # NULL; handles open
  capture,                                     \* libobs: data capture of the output
  encoder,                                     \* context->encoder # NULL
  bufData, queued, sendRunning,                \* send_buf with send_mutex and send_cond
  reconnectActive, reconnectRunning, attempts, \* context->reconnect_*
  bare                                         \* reconnected, header pages not tried yet

mainLocals == <<wasError, inStop, joined>>
mainVars == <<main, mainLocals>>
connectVars == <<connect, job>>
linkVars == <<shout, connections, bare>>
bufVars == <<bufData, queued, sendRunning>>
retryVars == <<reconnectActive, reconnectRunning, attempts>>
vars == <<mainVars, connectVars, send, reconnect, audio, state, linkVars,
          capture, encoder, bufVars, retryVars>>

States == {"DISCONNECTED", "CONNECTING", "CONNECTED", "RECONNECTING", "ERROR"}

MainPC == {"created", "running", "entry", "takeJob", "cancelJob", "releaseJob",
           "endCapture", "cancelReconnect", "stopReconnect", "readThread",
           "joinReconnect", "clearActive",
           "stopSend", "wakeSend", "joinSend", "freeBuf",
           "lockEncoder", "flush", "closeShout", "setDisconnected", "drain", "free",
           "freed"}
ConnectPC == {"none", "opening", "publish", "beginCapture", "initBuf", "spawnSend",
              "startup", "endCapture", "closeShout", "lockEncoder", "dropEncoder",
              "setError", "detachFailed", "detach", "signal", "unlock",
              "releaseField", "releaseOwn", "done"}
SendPC == {"none", "lock", "wait", "dequeued", "sending", "setError", "signal",
           "checkActive", "stopOld", "join", "clearActive", "setReconnecting",
           "setRunning", "spawn", "setActive", "exited", "joined"}
ReconnectPC == {"none", "sleep", "open", "checkEncoder", "lockEncoder", "reinit",
                "publish", "setConnected", "setError", "signal", "exited"}
AudioPC == {"idle", "try", "encode", "push", "pushLock"}

\* The thread that context->reconnect_thread names, and one that reconnect_start has
\* replaced there although it had not ended: the code means to have no such thread, and
\* there is one when reconnect_start and reconnect_cancel overlap.
ReconnectThreads == {"current", "older"}
NoThread == "none"

NoJob == [mem |-> "none", field |-> FALSE, canceled |-> FALSE, completed |-> FALSE,
          refs |-> 0, dropField |-> FALSE]

\* radio_output_create: bzalloc, state DISCONNECTED.
Init ==
  /\ main = "created" /\ wasError = FALSE /\ inStop = FALSE /\ joined = NoThread
  /\ connect = "none" /\ job = NoJob
  /\ send = "none"
  /\ reconnect = [t \in ReconnectThreads |-> "none"]
  /\ audio = "idle"
  /\ state = "DISCONNECTED"
  /\ shout = FALSE /\ connections = 0 /\ bare = FALSE
  /\ capture = "never"
  /\ encoder = FALSE
  /\ bufData = FALSE /\ queued = 0 /\ sendRunning = FALSE
  /\ reconnectActive = FALSE /\ reconnectRunning = FALSE /\ attempts = 0

(***************************************************************************)
(* What several threads use.                                               *)
(***************************************************************************)
Allocated == main # "freed"

Alive(t) == reconnect[t] \notin {"none", "exited"}
ReconnectAlive == \E t \in ReconnectThreads : Alive(t)

\* Not ended, or not yet joined by the main thread, which is about to.
InUse(t) == Alive(t) \/ (reconnect[t] = "exited" /\ joined = t)

SendAlive == send \notin {"none", "exited", "joined"}

\* Mutant: the connect thread completes a start without job->mutex.
NoJobMutex == FALSE

HoldsJobMutex == connect \in ConnectPC \ {"none", "opening", "releaseField", "releaseOwn", "done"}

\* encoder_mutex: held by the audio callback while it encodes, by the reconnect
\* thread while it re-initialises, by whoever flushes or destroys the encoder.
EncoderHolders ==
  {t \in {"main", "connect", "audio"} :
     \/ t = "main" /\ main = "flush"
     \/ t = "connect" /\ connect = "dropEncoder"
     \/ t = "audio" /\ audio = "encode"}
  \union {t \in ReconnectThreads : reconnect[t] = "reinit"}
\* Mutant: encoder_mutex is not taken.
NoEncoderMutex == TRUE

EncoderMutexFree == EncoderHolders = {}

\* A thread that has been replaced is forgotten when it ends, unless main is joining it.
ReconnectTo(t, pc) ==
  LET forgotten == pc = "exited" /\ t = "older" /\ joined # t
  IN  reconnect' = [reconnect EXCEPT ![t] = IF forgotten THEN "none" ELSE pc]

\* libobs: obs_output_signal_stop and obs_output_end_data_capture end a capture.
Ended(c) == IF c = "on" THEN "ended" ELSE c

\* Mutant: nothing is dropped to make room.
PushedWithoutDrop == queued + 1

\* radio_send_buf_push: the oldest item makes room.
Pushed == IF queued < RingCapacity THEN queued + 1 ELSE queued

\* Mutant: the signal is forgotten.
NotWoken == send

\* pthread_cond_signal(&context->send_cond), after what pushes or stops.
Woken == IF send = "wait" THEN "lock" ELSE send

\* connect_job_release.
Released(j) == [j EXCEPT !.refs = @ - 1, !.mem = IF j.refs > 1 THEN @ ELSE "freed"]

-----------------------------------------------------------------------------
(***************************************************************************)
(* Main thread: start.  Everything before the spawn is one step, since no  *)
(* other thread of the output exists yet.                                  *)
(***************************************************************************)
Start ==
  /\ main = "created"
  /\ main' = "running"
  /\ encoder' = TRUE
  /\ state' = "CONNECTING"
  /\ job' = [NoJob EXCEPT !.mem = "live", !.field = TRUE, !.refs = 2]
  /\ connect' = "opening"
  /\ UNCHANGED <<mainLocals, send, reconnect, audio, linkVars, capture,
                 bufVars, retryVars>>

\* encoder->init or shout_new fails: the encoder is dropped again and the state
\* is not touched.
StartFails ==
  /\ main = "created"
  /\ main' = "running"
  /\ UNCHANGED <<mainLocals, connectVars, send, reconnect, audio, state,
                 linkVars, capture, encoder, bufVars, retryVars>>

\* pthread_create of the connect thread fails.
StartSpawnFails ==
  /\ main = "created"
  /\ main' = "running"
  /\ state' = "ERROR"
  /\ job' = [NoJob EXCEPT !.mem = "freed"]
  /\ UNCHANGED <<mainLocals, connect, send, reconnect, audio, linkVars,
                 capture, encoder, bufVars, retryVars>>

(***************************************************************************)
(* Main thread: the end of an output.  The frontend calls obs_output_stop, *)
(* which calls the stop callback only while capturing, and then drops its  *)
(* reference; obs_output_destroy stops a capture that has begun meanwhile  *)
(* in the same way, waits for the end of one that was on (the audio thread *)
(* has left the callback by then) and calls radio_output_destroy.          *)
(***************************************************************************)
Stop ==
  /\ main = "running"
  /\ main' = IF capture = "on" THEN "entry" ELSE "drain"
  /\ inStop' = (capture = "on")
  /\ UNCHANGED <<wasError, joined, connectVars, send, reconnect, audio, state, linkVars,
                 capture, encoder, bufVars, retryVars>>

Destroy ==
  /\ main = "drain"
  /\ capture = "ended" => audio = "idle"
  /\ main' = "entry"
  /\ UNCHANGED <<mainLocals, connectVars, send, reconnect, audio, state, linkVars,
                 capture, encoder, bufVars, retryVars>>

(***************************************************************************)
(* Main thread: radio_output_teardown.                                     *)
(***************************************************************************)
AfterTeardown == IF inStop THEN "drain" ELSE "freed"

\* A step of the teardown that only moves the program counter.
MainOnly == UNCHANGED <<mainLocals, connectVars, send, reconnect, audio,
                        state, linkVars, capture, encoder, bufVars, retryVars>>

TeardownEntry ==
  /\ main = "entry"
  /\ IF state = "DISCONNECTED"
       THEN main' = AfterTeardown /\ inStop' = FALSE /\ UNCHANGED wasError
       ELSE main' = "takeJob" /\ wasError' = (state = "ERROR") /\ UNCHANGED inStop
  /\ UNCHANGED <<joined, connectVars, send, reconnect, audio, state, linkVars,
                 capture, encoder, bufVars, retryVars>>

TakeJob ==
  /\ main = "takeJob"
  /\ main' = IF job.field THEN "cancelJob" ELSE "endCapture"
  /\ job' = [job EXCEPT !.field = FALSE]
  /\ UNCHANGED <<mainLocals, connect, send, reconnect, audio, state, linkVars,
                 capture, encoder, bufVars, retryVars>>

CancelJob ==
  /\ main = "cancelJob"
  /\ ~HoldsJobMutex
  /\ main' = "releaseJob"
  /\ job' = [job EXCEPT !.canceled = TRUE]
  /\ UNCHANGED <<mainLocals, connect, send, reconnect, audio, state, linkVars,
                 capture, encoder, bufVars, retryVars>>

ReleaseJob ==
  /\ main = "releaseJob"
  /\ main' = "endCapture"
  /\ job' = Released(job)
  /\ UNCHANGED <<mainLocals, connect, send, reconnect, audio, state, linkVars,
                 capture, encoder, bufVars, retryVars>>

EndCapture ==
  /\ main = "endCapture"
  /\ main' = "cancelReconnect"
  /\ capture' = Ended(capture)
  /\ UNCHANGED <<mainLocals, connectVars, send, reconnect, audio, state,
                 linkVars, encoder, bufVars, retryVars>>

\* reconnect_cancel: test reconnect_active ...
CancelReconnect ==
  /\ main = "cancelReconnect"
  /\ main' = IF reconnectActive THEN "stopReconnect" ELSE "stopSend"
  /\ MainOnly

\* ... clear reconnect_running ...
StopReconnect ==
  /\ main = "stopReconnect"
  /\ main' = "readThread"
  /\ reconnectRunning' = FALSE
  /\ UNCHANGED <<mainLocals, connectVars, send, reconnect, audio, state,
                 linkVars, capture, encoder, bufVars, reconnectActive, attempts>>

\* ... read reconnect_thread, which reconnect_start may be about to replace.  If the
\* send thread has joined that thread already, the handle names none, or the thread
\* that gets its identity next ...
ReadThread ==
  /\ main = "readThread"
  /\ main' = "joinReconnect"
  /\ \/ joined' = "current"
     \/ reconnect["current"] = "none" /\ joined' = NoThread
  /\ UNCHANGED <<wasError, inStop, connectVars, send, reconnect, audio, state,
                 linkVars, capture, encoder, bufVars, retryVars>>

\* ... and join it.  The join waits for the end of the thread.  It is undefined if the
\* send thread is joining the same: one of the two may get an error at once, which
\* nobody looks at.
JoinReconnect ==
  /\ main = "joinReconnect"
  /\ main' = "clearActive"
  /\ joined' = NoThread
  /\ \/ joined = NoThread /\ UNCHANGED reconnect
     \/ joined # NoThread /\ ~Alive(joined) /\ ReconnectTo(joined, "none")
     \/ joined = "current" /\ send = "join" /\ UNCHANGED reconnect
  /\ UNCHANGED <<wasError, inStop, connectVars, send, audio, state, linkVars,
                 capture, encoder, bufVars, retryVars>>

ClearActive ==
  /\ main = "clearActive"
  /\ main' = "stopSend"
  /\ reconnectActive' = FALSE
  /\ UNCHANGED <<mainLocals, connectVars, send, reconnect, audio, state,
                 linkVars, capture, encoder, bufVars, reconnectRunning, attempts>>

StopSend ==
  /\ main = "stopSend"
  /\ main' = IF bufData THEN "wakeSend" ELSE "lockEncoder"
  /\ sendRunning' = (sendRunning /\ ~bufData)
  /\ UNCHANGED <<mainLocals, connectVars, send, reconnect, audio, state,
                 linkVars, capture, encoder, bufData, queued, retryVars>>

WakeSend ==
  /\ main = "wakeSend"
  /\ main' = "joinSend"
  /\ send' = Woken
  /\ UNCHANGED <<mainLocals, connectVars, reconnect, audio, state,
                 linkVars, capture, encoder, bufVars, retryVars>>

\* Mutant: no join.
JoinSendTooEarly ==
  /\ main = "joinSend"
  /\ main' = "freeBuf"
  /\ UNCHANGED send
  /\ UNCHANGED <<mainLocals, connectVars, reconnect, audio, state,
                 linkVars, capture, encoder, bufVars, retryVars>>

JoinSend ==
  /\ main = "joinSend"
  /\ ~SendAlive
  /\ main' = "freeBuf"
  /\ send' = "joined"
  /\ UNCHANGED <<mainLocals, connectVars, reconnect, audio, state,
                 linkVars, capture, encoder, bufVars, retryVars>>

\* With send_mutex and send_cond.
FreeBuf ==
  /\ main = "freeBuf"
  /\ main' = "lockEncoder"
  /\ bufData' = FALSE
  /\ queued' = 0
  /\ UNCHANGED <<mainLocals, connectVars, send, reconnect, audio, state,
                 linkVars, capture, encoder, sendRunning, retryVars>>

LockEncoder ==
  /\ main = "lockEncoder"
  /\ EncoderMutexFree
  /\ main' = "flush"
  /\ MainOnly

\* Flush, destroy the encoder, unlock.
FlushEncoder ==
  /\ main = "flush"
  /\ main' = "closeShout"
  /\ encoder' = FALSE
  /\ UNCHANGED <<mainLocals, connectVars, send, reconnect, audio, state,
                 linkVars, capture, bufVars, retryVars>>

\* Mutant: the handle is forgotten, not closed.
ForgetShout ==
  /\ main = "closeShout"
  /\ main' = "setDisconnected"
  /\ shout' = FALSE
  /\ connections' = connections
  /\ UNCHANGED <<mainLocals, connectVars, send, reconnect, audio, state,
                 bare, capture, encoder, bufVars, retryVars>>

\* Send the flushed bytes; hand the handle to a closing thread.
CloseShout ==
  /\ main = "closeShout"
  /\ main' = "setDisconnected"
  /\ shout' = FALSE
  /\ connections' = IF shout THEN connections - 1 ELSE connections
  /\ UNCHANGED <<mainLocals, connectVars, send, reconnect, audio, state,
                 bare, capture, encoder, bufVars, retryVars>>

\* Mutant: ERROR is not preserved.
AlwaysDisconnected ==
  /\ main = "setDisconnected"
  /\ main' = IF inStop THEN "drain" ELSE "free"
  /\ state' = "DISCONNECTED"
  /\ wasError' = FALSE /\ inStop' = FALSE
  /\ UNCHANGED <<joined, connectVars, send, reconnect, audio, linkVars,
                 capture, encoder, bufVars, retryVars>>

SetDisconnected ==
  /\ main = "setDisconnected"
  /\ main' = IF inStop THEN "drain" ELSE "free"
  /\ state' = IF wasError THEN state ELSE "DISCONNECTED"
  /\ wasError' = FALSE /\ inStop' = FALSE
  /\ UNCHANGED <<joined, connectVars, send, reconnect, audio, linkVars,
                 capture, encoder, bufVars, retryVars>>

Free ==
  /\ main = "free"
  /\ main' = "freed"
  /\ MainOnly

TeardownStep ==
  \/ TeardownEntry \/ TakeJob \/ CancelJob \/ ReleaseJob \/ EndCapture
  \/ CancelReconnect \/ StopReconnect \/ ReadThread \/ JoinReconnect \/ ClearActive
  \/ StopSend \/ WakeSend \/ JoinSend \/ FreeBuf
  \/ LockEncoder \/ FlushEncoder \/ CloseShout \/ SetDisconnected \/ Free

-----------------------------------------------------------------------------
(***************************************************************************)
(* Connect thread.                                                         *)
(***************************************************************************)
\* shout_open returns and job->mutex is taken.  A cancelled thread hands an
\* opened handle over to be closed and keeps only its reference.
OpenSucceeds ==
  /\ connect = "opening"
  /\ connect' = IF job.canceled THEN "releaseOwn" ELSE "publish"
  /\ connections' = IF job.canceled THEN connections ELSE connections + 1
  /\ UNCHANGED <<mainVars, job, send, reconnect, audio, state, shout, bare, capture,
                 encoder, bufVars, retryVars>>

OpenFails ==
  /\ connect = "opening"
  /\ connect' = IF job.canceled THEN "releaseOwn" ELSE "lockEncoder"
  /\ UNCHANGED <<mainVars, job, send, reconnect, audio, state, linkVars, capture,
                 encoder, bufVars, retryVars>>

\* connect_complete, first lines.
Publish ==
  /\ connect = "publish"
  /\ connect' = "beginCapture"
  /\ shout' = TRUE
  /\ state' = "CONNECTED"
  /\ attempts' = 0
  /\ UNCHANGED <<mainVars, job, send, reconnect, audio, connections, bare,
                 capture, encoder, bufVars, reconnectActive, reconnectRunning>>

BeginCapture ==
  /\ connect = "beginCapture"
  /\ \/ capture' = "on" /\ connect' = "initBuf"
     \/ UNCHANGED capture /\ connect' = "closeShout"
  /\ UNCHANGED <<mainVars, job, send, reconnect, audio, state, linkVars, encoder,
                 bufVars, retryVars>>

\* Mutex and condition first, send_buf.data, which opens the gate, last.
InitBuf ==
  /\ connect = "initBuf"
  /\ \/ /\ connect' = "spawnSend"
        /\ bufData' = TRUE /\ sendRunning' = TRUE
     \/ /\ connect' = "endCapture"
        /\ UNCHANGED <<bufData, sendRunning>>
  /\ UNCHANGED <<mainVars, job, send, reconnect, audio, state, linkVars, capture,
                 encoder, queued, retryVars>>

SpawnSend ==
  /\ connect = "spawnSend"
  /\ connect' = "startup"
  /\ send' = "lock"
  /\ UNCHANGED <<mainVars, job, reconnect, audio, state, linkVars, capture,
                 encoder, bufVars, retryVars>>

SpawnSendFails ==
  /\ connect = "spawnSend"
  /\ connect' = "endCapture"
  /\ bufData' = FALSE /\ queued' = 0 /\ sendRunning' = FALSE
  /\ UNCHANGED <<mainVars, job, send, reconnect, audio, state, linkVars, capture,
                 encoder, retryVars>>

\* send_buf_push of the header pages.
PushStartup ==
  /\ connect = "startup"
  /\ connect' = "detach"
  /\ IF Container THEN queued' = Pushed /\ send' = Woken
                  ELSE UNCHANGED <<queued, send>>
  /\ UNCHANGED <<mainVars, job, reconnect, audio, state, linkVars, capture,
                 encoder, bufData, sendRunning, retryVars>>

\* fail_after_capture, fail_after_open.
ConnectEndCapture ==
  /\ connect = "endCapture"
  /\ connect' = "closeShout"
  /\ capture' = Ended(capture)
  /\ UNCHANGED <<mainVars, job, send, reconnect, audio, state, linkVars, encoder,
                 bufVars, retryVars>>

ConnectCloseShout ==
  /\ connect = "closeShout"
  /\ connect' = "lockEncoder"
  /\ shout' = FALSE
  /\ connections' = connections - 1
  /\ UNCHANGED <<mainVars, job, send, reconnect, audio, state, bare,
                 capture, encoder, bufVars, retryVars>>

\* connect_thread_fn, if (!ok).
ConnectLockEncoder ==
  /\ connect = "lockEncoder"
  /\ EncoderMutexFree
  /\ connect' = "dropEncoder"
  /\ UNCHANGED <<mainVars, job, send, reconnect, audio, state, linkVars, capture,
                 encoder, bufVars, retryVars>>

ConnectDropEncoder ==
  /\ connect = "dropEncoder"
  /\ connect' = "setError"
  /\ encoder' = FALSE
  /\ UNCHANGED <<mainVars, job, send, reconnect, audio, state, linkVars, capture,
                 bufVars, retryVars>>

ConnectSetError ==
  /\ connect = "setError"
  /\ connect' = "detachFailed"
  /\ state' = "ERROR"
  /\ UNCHANGED <<mainVars, job, send, reconnect, audio, linkVars, capture, encoder,
                 bufVars, retryVars>>

DetachJob ==
  /\ connect \in {"detach", "detachFailed"}
  /\ connect' = IF connect = "detach" THEN "unlock" ELSE "signal"
  /\ job' = [job EXCEPT !.dropField = job.field, !.field = FALSE]
  /\ UNCHANGED <<mainVars, send, reconnect, audio, state, linkVars, capture,
                 encoder, bufVars, retryVars>>

SignalConnectFailed ==
  /\ connect = "signal"
  /\ connect' = "unlock"
  /\ capture' = Ended(capture)
  /\ UNCHANGED <<mainVars, job, send, reconnect, audio, state, linkVars, encoder,
                 bufVars, retryVars>>

CompleteJob ==
  /\ connect = "unlock"
  /\ connect' = IF job.dropField THEN "releaseField" ELSE "releaseOwn"
  /\ job' = [job EXCEPT !.completed = TRUE]
  /\ UNCHANGED <<mainVars, send, reconnect, audio, state, linkVars, capture,
                 encoder, bufVars, retryVars>>

ReleaseConnect ==
  /\ connect \in {"releaseField", "releaseOwn"}
  /\ connect' = IF connect = "releaseField" THEN "releaseOwn" ELSE "done"
  /\ job' = [Released(job) EXCEPT !.dropField = FALSE]
  /\ UNCHANGED <<mainVars, send, reconnect, audio, state, linkVars, capture,
                 encoder, bufVars, retryVars>>

ConnectStep ==
  \/ Publish \/ BeginCapture \/ InitBuf \/ SpawnSend \/ SpawnSendFails \/ PushStartup
  \/ ConnectEndCapture \/ ConnectCloseShout
  \/ ConnectLockEncoder \/ ConnectDropEncoder \/ ConnectSetError
  \/ DetachJob \/ SignalConnectFailed \/ CompleteJob \/ ReleaseConnect

-----------------------------------------------------------------------------
(***************************************************************************)
(* Send thread.                                                            *)
(***************************************************************************)
SendAt(pc) == send = pc /\ Allocated

\* The loop condition is tested again under send_mutex: leave, wait or dequeue.
SendLock ==
  /\ SendAt("lock")
  /\ \/ ~sendRunning /\ send' = "exited" /\ UNCHANGED queued
     \/ sendRunning /\ queued = 0 /\ send' = "wait" /\ UNCHANGED queued
     \/ sendRunning /\ queued > 0 /\ send' = "dequeued" /\ queued' = queued - 1
  /\ UNCHANGED <<mainVars, connectVars, reconnect, audio, state, linkVars, capture,
                 encoder, bufData, sendRunning, retryVars>>

\* pthread_cond_wait may return without a signal.
SpuriousWakeup ==
  /\ SendAt("wait")
  /\ send' = "lock"
  /\ UNCHANGED <<mainVars, connectVars, reconnect, audio, state, linkVars, capture,
                 encoder, bufVars, retryVars>>

\* Without a handle what was dequeued is dropped.
SendBegin ==
  /\ SendAt("dequeued")
  /\ send' = IF shout THEN "sending" ELSE "lock"
  /\ UNCHANGED <<mainVars, connectVars, reconnect, audio, state, linkVars, capture,
                 encoder, bufVars, retryVars>>

\* shout_sync and shout_send.
SendSucceeds ==
  /\ SendAt("sending")
  /\ send' = "lock"
  /\ UNCHANGED <<mainVars, connectVars, reconnect, audio, state, linkVars, capture,
                 encoder, bufVars, retryVars>>

\* Mutant: the dead handle stays in context->shout.
SendFailsKeepsShout ==
  /\ SendAt("sending")
  /\ send' = IF ReconnectEnabled THEN "checkActive" ELSE "setError"
  /\ connections' = connections - 1
  /\ UNCHANGED <<mainVars, connectVars, reconnect, audio, state, shout, bare, capture,
                 encoder, bufVars, retryVars>>

SendFails ==
  /\ SendAt("sending")
  /\ send' = IF ReconnectEnabled THEN "checkActive" ELSE "setError"
  /\ shout' = FALSE
  /\ connections' = connections - 1
  /\ UNCHANGED <<mainVars, connectVars, reconnect, audio, state, bare, capture,
                 encoder, bufVars, retryVars>>

\* Mutant: a lost link is shown as a stopped output.
SendSetDisconnected ==
  /\ SendAt("setError")
  /\ send' = "signal"
  /\ state' = "DISCONNECTED"
  /\ UNCHANGED <<mainVars, connectVars, reconnect, audio, linkVars, capture,
                 encoder, bufVars, retryVars>>

SendSetError ==
  /\ SendAt("setError")
  /\ send' = "signal"
  /\ state' = "ERROR"
  /\ UNCHANGED <<mainVars, connectVars, reconnect, audio, linkVars, capture,
                 encoder, bufVars, retryVars>>

SendSignal ==
  /\ SendAt("signal")
  /\ send' = "lock"
  /\ capture' = Ended(capture)
  /\ UNCHANGED <<mainVars, connectVars, reconnect, audio, state, linkVars,
                 encoder, bufVars, retryVars>>

\* reconnect_start: a thread that is still there is told to stop ...
StartCheckActive ==
  /\ SendAt("checkActive")
  /\ send' = IF reconnectActive THEN "stopOld" ELSE "setReconnecting"
  /\ UNCHANGED <<mainVars, connectVars, reconnect, audio, state, linkVars, capture,
                 encoder, bufVars, retryVars>>

StartStopOld ==
  /\ SendAt("stopOld")
  /\ send' = "join"
  /\ reconnectRunning' = FALSE
  /\ UNCHANGED <<mainVars, connectVars, reconnect, audio, state, linkVars, capture,
                 encoder, bufVars, reconnectActive, attempts>>

\* ... and joined, with the outcomes of JoinReconnect if main joins it as well ...
StartJoin ==
  /\ SendAt("join")
  /\ send' = "clearActive"
  /\ \/ /\ ~Alive("current")
        /\ ReconnectTo("current", "none")
        /\ joined' \in {joined} \union {t \in {NoThread} : joined = "current"}
     \/ /\ main = "joinReconnect" /\ joined = "current"
        /\ UNCHANGED <<reconnect, joined>>
  /\ UNCHANGED <<main, wasError, inStop, connectVars, audio, state, linkVars, capture,
                 encoder, bufVars, retryVars>>

StartClearActive ==
  /\ SendAt("clearActive")
  /\ send' = "setReconnecting"
  /\ reconnectActive' = FALSE
  /\ UNCHANGED <<mainVars, connectVars, reconnect, audio, state, linkVars, capture,
                 encoder, bufVars, reconnectRunning, attempts>>

\* ... and spawn a new one.
StartSetReconnecting ==
  /\ SendAt("setReconnecting")
  /\ send' = "setRunning"
  /\ state' = "RECONNECTING"
  /\ UNCHANGED <<mainVars, connectVars, reconnect, audio, linkVars, capture,
                 encoder, bufVars, retryVars>>

StartSetRunning ==
  /\ SendAt("setRunning")
  /\ send' = "spawn"
  /\ reconnectRunning' = TRUE
  /\ UNCHANGED <<mainVars, connectVars, reconnect, audio, state, linkVars, capture,
                 encoder, bufVars, reconnectActive, attempts>>

StartSpawn ==
  /\ SendAt("spawn")
  /\ ~InUse("current") \/ ~InUse("older")
  /\ send' = "setActive"
  /\ IF InUse("current")
       THEN /\ reconnect' = [reconnect EXCEPT !["current"] = "sleep",
                                              !["older"] = reconnect["current"]]
            /\ joined' = IF joined = "current" THEN "older" ELSE joined
       ELSE /\ reconnect' = [reconnect EXCEPT !["current"] = "sleep"]
            /\ UNCHANGED joined
  /\ UNCHANGED <<main, wasError, inStop, connectVars, audio, state, linkVars, capture,
                 encoder, bufVars, retryVars>>

StartReconnectSpawnFails ==
  /\ SendAt("spawn")
  /\ send' = "setError"
  /\ reconnectRunning' = FALSE
  /\ UNCHANGED <<mainVars, connectVars, reconnect, audio, state, linkVars, capture,
                 encoder, bufVars, reconnectActive, attempts>>

StartSetActive ==
  /\ SendAt("setActive")
  /\ send' = "lock"
  /\ reconnectActive' = TRUE
  /\ UNCHANGED <<mainVars, connectVars, reconnect, audio, state, linkVars, capture,
                 encoder, bufVars, reconnectRunning, attempts>>

SendStep ==
  \/ SendLock \/ SendBegin \/ SendSucceeds \/ SendFails
  \/ SendSetError \/ SendSignal
  \/ StartCheckActive \/ StartStopOld \/ StartJoin \/ StartClearActive
  \/ StartSetReconnecting \/ StartSetRunning
  \/ StartSpawn \/ StartReconnectSpawnFails \/ StartSetActive

-----------------------------------------------------------------------------
(***************************************************************************)
(* Reconnect thread.                                                       *)
(***************************************************************************)
ReconnectAt(t, pc) == reconnect[t] = pc /\ Allocated

\* What a step that touches only this thread's program counter leaves alone.
ReconnectOnly == UNCHANGED <<mainVars, connectVars, send, audio, state, linkVars,
                             capture, encoder, bufVars, retryVars>>

\* The delay is over, or cut short by reconnect_running.
ReconnectWakes(t) ==
  /\ ReconnectAt(t, "sleep")
  /\ ReconnectTo(t, IF reconnectRunning THEN "open" ELSE "exited")
  /\ attempts' = IF reconnectRunning /\ attempts < AttemptCap THEN attempts + 1
                                                              ELSE attempts
  /\ UNCHANGED <<mainVars, connectVars, send, audio, state, linkVars, capture,
                 encoder, bufVars, reconnectActive, reconnectRunning>>

\* attempt_connect.
ReopenSucceeds(t) ==
  /\ ReconnectAt(t, "open")
  /\ ReconnectTo(t, IF Container THEN "checkEncoder" ELSE "publish")
  /\ connections' = connections + 1
  /\ bare' = Container
  /\ UNCHANGED <<mainVars, connectVars, send, audio, state, shout, capture,
                 encoder, bufVars, retryVars>>

\* Mutant: the thread gives up without telling.
ReopenFailsSilently(t) ==
  /\ ReconnectAt(t, "open")
  /\ ReconnectTo(t, IF MaxRetries > 0 /\ attempts >= MaxRetries THEN "exited"
                                                               ELSE "sleep")
  /\ ReconnectOnly

\* Give up when the limit is reached.
ReopenFails(t) ==
  /\ ReconnectAt(t, "open")
  /\ ReconnectTo(t, IF MaxRetries > 0 /\ attempts >= MaxRetries THEN "setError"
                                                               ELSE "sleep")
  /\ ReconnectOnly

\* Mutant: the handle is published without its header pages.
ReconnectSkipsHeaders(t) ==
  /\ ReconnectAt(t, "checkEncoder")
  /\ ReconnectTo(t, "publish")
  /\ ReconnectOnly

\* context->encoder is read before encoder_mutex is taken ...
ReconnectCheckEncoder(t) ==
  /\ ReconnectAt(t, "checkEncoder")
  /\ ReconnectTo(t, IF encoder THEN "lockEncoder" ELSE "publish")
  /\ ReconnectOnly

\* ... and used under it.
ReconnectLockEncoder(t) ==
  /\ ReconnectAt(t, "lockEncoder")
  /\ EncoderMutexFree
  /\ ReconnectTo(t, "reinit")
  /\ ReconnectOnly

\* on_reconnect, unlock, shout_send of the header pages on the new handle.  A failure
\* of either is logged and the connection kept: bare is about the order alone.
ReconnectReinit(t) ==
  /\ ReconnectAt(t, "reinit")
  /\ ReconnectTo(t, "publish")
  /\ bare' = FALSE
  /\ UNCHANGED <<mainVars, connectVars, send, audio, state, shout, connections, capture,
                 encoder, bufVars, retryVars>>

ReconnectPublish(t) ==
  /\ ReconnectAt(t, "publish")
  /\ ReconnectTo(t, "setConnected")
  /\ shout' = TRUE
  /\ UNCHANGED <<mainVars, connectVars, send, audio, state, connections, bare, capture,
                 encoder, bufVars, retryVars>>

\* Mutant: the counter is not reset.
ReconnectKeepsAttempts(t) ==
  /\ ReconnectAt(t, "setConnected")
  /\ ReconnectTo(t, "exited")
  /\ state' = "CONNECTED"
  /\ UNCHANGED attempts
  /\ UNCHANGED <<mainVars, connectVars, send, audio, linkVars, capture, encoder,
                 bufVars, reconnectActive, reconnectRunning>>

\* Mutant: the state is not set.
ReconnectKeepsState(t) ==
  /\ ReconnectAt(t, "setConnected")
  /\ ReconnectTo(t, "exited")
  /\ UNCHANGED state
  /\ attempts' = 0
  /\ UNCHANGED <<mainVars, connectVars, send, audio, linkVars, capture, encoder,
                 bufVars, reconnectActive, reconnectRunning>>

ReconnectSetConnected(t) ==
  /\ ReconnectAt(t, "setConnected")
  /\ ReconnectTo(t, "exited")
  /\ state' = "CONNECTED"
  /\ attempts' = 0
  /\ UNCHANGED <<mainVars, connectVars, send, audio, linkVars, capture, encoder,
                 bufVars, reconnectActive, reconnectRunning>>

ReconnectSetError(t) ==
  /\ ReconnectAt(t, "setError")
  /\ ReconnectTo(t, "signal")
  /\ state' = "ERROR"
  /\ UNCHANGED <<mainVars, connectVars, send, audio, linkVars, capture, encoder,
                 bufVars, retryVars>>

ReconnectSignal(t) ==
  /\ ReconnectAt(t, "signal")
  /\ ReconnectTo(t, "exited")
  /\ capture' = Ended(capture)
  /\ UNCHANGED <<mainVars, connectVars, send, audio, state, linkVars, encoder,
                 bufVars, retryVars>>

ReconnectStep(t) ==
  \/ ReconnectWakes(t) \/ ReopenSucceeds(t) \/ ReopenFails(t)
  \/ ReconnectCheckEncoder(t) \/ ReconnectLockEncoder(t) \/ ReconnectReinit(t)
  \/ ReconnectPublish(t) \/ ReconnectSetConnected(t)
  \/ ReconnectSetError(t) \/ ReconnectSignal(t)

-----------------------------------------------------------------------------
(***************************************************************************)
(* Audio thread.                                                           *)
(***************************************************************************)
AudioAt(pc) == audio = pc /\ Allocated

AudioOnly == UNCHANGED <<mainVars, connectVars, send, reconnect, state, linkVars,
                         capture, encoder, bufVars, retryVars>>

\* libobs calls back while the capture is on.
AudioCallback ==
  /\ AudioAt("idle")
  /\ capture = "on"
  /\ audio' = "try"
  /\ AudioOnly

\* trylock, and the two gates under it.
AudioTry ==
  /\ AudioAt("try")
  /\ audio' = IF EncoderMutexFree /\ encoder /\ bufData THEN "encode" ELSE "idle"
  /\ AudioOnly

\* encode_frame and unlock: some bytes, or none yet, or an error, which is logged.
AudioEncode ==
  /\ AudioAt("encode")
  /\ audio' \in {"push", "idle"}
  /\ AudioOnly

\* send_buf_push tests send_buf.data before it takes send_mutex ...
AudioPush ==
  /\ AudioAt("push")
  /\ audio' = IF bufData THEN "pushLock" ELSE "idle"
  /\ AudioOnly

\* ... and radio_send_buf_push tests it again under the mutex.
AudioPushLocked ==
  /\ AudioAt("pushLock")
  /\ audio' = "idle"
  /\ queued' = IF bufData THEN Pushed ELSE queued
  /\ send' = Woken
  /\ UNCHANGED <<mainVars, connectVars, reconnect, state, linkVars, capture,
                 encoder, bufData, sendRunning, retryVars>>

AudioReturns == AudioTry \/ AudioEncode \/ AudioPush \/ AudioPushLocked

-----------------------------------------------------------------------------
\* The output is gone.
Gone == main = "freed" /\ UNCHANGED vars

Next ==
  \/ Start \/ StartFails \/ StartSpawnFails
  \/ Stop \/ Destroy \/ TeardownStep
  \/ OpenSucceeds \/ OpenFails \/ ConnectStep
  \/ SendStep \/ SpuriousWakeup
  \/ \E t \in ReconnectThreads : ReconnectStep(t)
  \/ AudioCallback \/ AudioReturns
  \/ Gone

Spec == Init /\ [][Next]_vars

\* The scheduler runs every thread.  shout_send and the reconnect thread's
\* shout_open return, if only by a timeout of the kernel, and so does a
\* callback; the audio thread holds encoder_mutex for a part of its period only,
\* so a reconnect thread that waits for it gets it: its lock is the one step of it that
\* another thread can disable, and strong fairness is about that step.  Nothing is
\* assumed of the connect thread's shout_open, of the user or of the audio source.
Fairness ==
  /\ WF_vars(TeardownStep \/ Destroy)
  /\ WF_vars(ConnectStep)
  /\ WF_vars(SendStep)
  /\ \A t \in ReconnectThreads : SF_vars(ReconnectStep(t))
  /\ WF_vars(AudioReturns)

FairSpec == Spec /\ Fairness

-----------------------------------------------------------------------------
(***************************************************************************)
(* Properties.                                                             *)
(***************************************************************************)
TypeOK ==
  /\ main \in MainPC /\ wasError \in BOOLEAN /\ inStop \in BOOLEAN
  /\ joined \in ReconnectThreads \union {NoThread}
  /\ connect \in ConnectPC
  /\ job \in [mem : {"none", "live", "freed"}, field : BOOLEAN, canceled : BOOLEAN,
              completed : BOOLEAN, refs : 0..2, dropField : BOOLEAN]
  /\ send \in SendPC
  /\ reconnect \in [ReconnectThreads -> ReconnectPC]
  /\ audio \in AudioPC
  /\ state \in States
  /\ shout \in BOOLEAN /\ connections \in Nat
  /\ bare \in BOOLEAN
  /\ capture \in {"never", "on", "ended"}
  /\ encoder \in BOOLEAN
  /\ bufData \in BOOLEAN /\ queued \in 0..RingCapacity /\ sendRunning \in BOOLEAN
  /\ reconnectActive \in BOOLEAN /\ reconnectRunning \in BOOLEAN
  /\ attempts \in 0..AttemptCap

\* The encoder is never flushed, re-initialised, destroyed or used to encode by
\* two threads at once, and the audio callback never encodes with one that has
\* been destroyed (radio-output.h 106-111: without the mutex the callback meets
\* a half-rebuilt Vorbis state).
EncoderExclusive ==
  /\ \A t, u \in EncoderHolders : t = u
  /\ audio = "encode" => encoder

\* The send thread lives inside the life of what it works with: the buffer with
\* its mutex and condition, and the context.  Teardown dismantles them only after
\* the join, and the capture gate of the connect thread never leaves a send
\* thread behind when it fails.
SendThreadHasItsResources ==
  SendAlive => Allocated /\ bufData

\* No lost wakeup: a send thread that waits has nothing to send and has not been
\* told to stop, except when the teardown is about to signal it.
NoLostWakeup ==
  send = "wait" => queued = 0 /\ (sendRunning \/ main = "wakeSend")

\* Each open connection has exactly one owner, which will close it: the context,
\* the connect thread before it publishes, or the reconnect thread before it
\* does.  Hence there is never a second source connection on the mount.
Owners ==
  {t \in {"context", "connect"} :
     \/ t = "context" /\ shout
     \/ t = "connect" /\ connect = "publish"}
  \union {t \in ReconnectThreads :
            reconnect[t] \in {"checkEncoder", "lockEncoder", "reinit", "publish"}}
OneOwnedConnection ==
  /\ \A t, u \in Owners : t = u
  /\ connections = IF Owners = {} THEN 0 ELSE 1

\* No connection survives the output: once destroyed, all handles are closed.
NoConnectionLeaked == main = "freed" => connections = 0

\* While nobody stops the output, the state never lies for good: a CONNECTED
\* without a connection has a thread at work to correct it, a RECONNECTING has a
\* thread that retries, and an ERROR has no connection.
StateTellsTheTruth ==
  main = "running" =>
    /\ state = "CONNECTED" /\ ~shout =>
         \/ send \in {"setError", "checkActive", "stopOld", "join", "clearActive",
                     "setReconnecting"}
         \/ connect \in {"lockEncoder", "dropEncoder", "setError"}
    /\ state = "RECONNECTING" =>
         ReconnectAlive \/ send \in {"setRunning", "spawn", "setError"}
    /\ state = "ERROR" => ~shout /\ connections = 0

\* A reconnect that starts has the whole budget of attempts, with the previous
\* reconnect thread gone, and none takes more than MaxRetries attempts or gives
\* up earlier.
RetryBudget ==
  main = "running" =>
  /\ send = "spawn" => attempts = 0 /\ ~ReconnectAlive
  /\ MaxRetries > 0 => attempts <= MaxRetries
  /\ \A t \in ReconnectThreads :
       reconnect[t] \in {"setError", "signal"} => attempts = MaxRetries

\* After a reconnect no audio goes out on the new connection before the attempt to
\* send the header pages (reconnect.c 40-53: a server cannot serve data pages
\* without them).
HeadersFirstAfterReconnect ==
  main = "running" /\ send = "sending" => ~bare

\* An ERROR that the user has been shown stays until the context is freed, through
\* the stop that acknowledges it (radio-output.c 202-205).
ErrorIsKept == [](main = "running" /\ state = "ERROR" => [](state = "ERROR"))

\* What a stopped output promises, with a limit on the retries or without reconnect:
\* every Stop and every release ends, with the context freed, however long the first
\* shout_open blocks.  It is not so with reconnect_max 0, no limit (reconnect.c 129-131):
\* between the two lines of reconnect_cancel reconnect_start may set reconnect_running
\* again and put a new thread where the old one was, and the join then waits for a
\* thread that nobody stops.
RetriesEnd == ReconnectEnabled => MaxRetries > 0
Stopping == main \in {"entry", "drain"}
StopCompletes == RetriesEnd => (Stopping ~> main = "freed")

\* With a limit on the retries nothing stays as it is for ever: an output that nobody
\* stops and that has lost its link gets its connection back, or gives up and says so;
\* and the stop of one ends, whatever the reconnect threads do.  Without a limit a lost
\* link may be retried for ever, as it should.
LossOrStopIsResolved ==
  RetriesEnd =>
    (Stopping \/ (main = "running" /\ connect = "done" /\ ~shout)
       ~> main = "freed" \/ (main = "running" /\ (shout \/ state = "ERROR")))

(***************************************************************************)
(* Properties that comments of the code state and the code does not have.  *)
(***************************************************************************)
\* The push of the audio callback takes a send_mutex that exists: radio-output.c
\* 1044-1046 calls it safe "even if teardown freed send_buf in the meantime".
PushFindsMutex ==
  audio = "pushLock" /\ send = "joined" => bufData

\* No reconnect thread is left when the context is freed: reconnect.h 17-21,
\* reconnect_cancel stops and joins it "so the thread cannot write to a freed
\* handle".
NoReconnectAfterFree == main = "freed" => ~ReconnectAlive
=============================================================================
