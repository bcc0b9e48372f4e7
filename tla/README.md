# A verification of obs-radio-output

obs-radio-output is a plugin for OBS Studio that sends a program's audio to an
Icecast or Shoutcast server. It is about 6,000 lines of C and C++ of its own,
in `src/src/` of the repository (paths below are relative to the repository's
root, so `src/radio-output.c`). Its difficulty is not in what it computes. It
is in five kinds of threads that share one `struct radio_output`, and in the
order in which that struct is taken apart. The modules here
model that sharing, the protocols around it, and what a listener finally gets.

Contents: [inventory](#inventory) - [modules](#modules) - [runs](#runs) -
[bounds](#bounds) - [fairness](#fairness) - [proofs](#proofs) -
[disagreements](#where-code-and-comments-disagree) -
[not modelled](#what-is-not-modelled) - [plan](#plan)

To check everything:

    tlc -workers 2 -config output.cfg MCRadioOutput     # and so on, see "Runs"
    tlapm ConnectJobProofs.tla                          # and the seven other *Proofs

## Inventory

| component | state | operations | threads and partners |
|---|---|---|---|
| Output life cycle (`radio-output.c`) | `state`, `shout`, `encoder`, `connect_job`, `send_running`, the capture | create, start, stop, destroy, raw_audio | main, connect, send, reconnect, audio; libobs calls in |
| Connect protocol (`radio-output.c` 420-656) | `radio_connect_job`: mutex, refs, canceled, completed | spawn, cancel, complete, release | main and one detached thread per start |
| Reconnect (`reconnect.c`) | `reconnect_active`, `reconnect_running`, `reconnect_attempts`, the thread's handle | start, cancel, attempt, the retry loop | send thread starts it, teardown cancels it |
| Send buffer (`send-buf.c`) | array, `wpos`, `rpos`, capacity | init, push, read, free | producers audio/connect/title jobs, consumer send thread, under `send_mutex` |
| Opus and Vorbis encoders (`radio-opus-encoder.c`, `radio-vorbis-encoder.c`) | Ogg stream with its serial, page numbers, title | init, encode_frame, on_reconnect, update_metadata, flush | audio, reconnect and title threads, under `encoder_mutex` |
| In-band metadata (`metadata.c`, `radio-output.c` 660-700) | - | push of a title, to libshout or into the ring | dock's pool job, obs-websocket |
| Frontend (`frontend-wire.cpp`) | the handle `g_active_output_handle`, `g_active_output` | start, stop, streaming events, load, unload | Qt main thread; scripts own outputs too |
| Settings (`frontend-wire.cpp`, `radio-output-config-dialog.cpp`) | `g_config`, `config.json` and its backup, the dialog's widgets | load, save, open, edit, accept, reject, apply a patch | Qt main thread, but the dialog runs an event loop of its own |
| Opus audio path (`radio-output.c` 1008-1054, `radio-opus-encoder.c`) | the accumulator, the granule position, the packets libogg holds | encode_frame, emit_one_frame, restart, flush | audio thread, under `encoder_mutex` |
| Dock (`radio-output-dock.cpp`) | last state shown, in-flight flags | 500 ms poll, buttons, title field | Qt main thread and `QThreadPool` |
| Listener poll (`listener-poll.cpp`) | timer, last error, polls, the published count | poll, reply, start, stop | Qt network replies, in any order |
| obs-websocket verbs (`obs-ws-vendor.c`) | - | start, stop, status, pushMetadata, getListeners, applyConfig | obs-websocket's own threads; start, stop and applyConfig hop to the Qt main thread |
| MP3 encoder, header formatting, entry point | see `PROJECT.json` | | |

How they interact:

* **main** calls create/start/stop/destroy. A start makes the encoder and the
  libshout handle and spawns a detached **connect** thread, because `shout_open`
  may block for a minute. That thread and the main thread meet in the
  reference-counted job; `job->mutex` orders a cancellation against a completion.
* On success connect starts the capture, opens the ring, spawns the **send**
  thread and queues the encoder's headers. From then on libobs calls the
  **audio** callback, which encodes under `encoder_mutex` (trylock) and queues
  under `send_mutex`.
* A failed `shout_send` makes the send thread either show an error or start a
  **reconnect** thread, which rebuilds the encoder's Ogg stream and opens a new
  connection.
* Stop and destroy both run the same teardown, in a fixed order: job, capture,
  reconnect, active pointer, send thread, ring, encoder, connection, state.
  `g_active_output` is cleared there, and dock, listener poller and websocket
  all read it: the dock's poll on the main thread, `radio.status`, `radio.pushMetadata` and
  a pool job of the dock on others.
* The config dialog is modal: no button of another window can be clicked while it is
  open, but timers, streaming events and the websocket's verbs reach the same main
  thread through its event loop, and `radio.applyConfig` changes what it shows.
* A title makes an Ogg encoder end its logical stream and start one with new
  header pages. The pages are made under one mutex and queued under another.

The hard behaviours, each at its line, are the `hazards` of `PROJECT.json`. In
short: who frees the job and the context; mutexes destroyed while a thread is
before them; a reconnect racing a teardown; a state left to lie by a thread that
has ended; lost wakeups; a double close or a leak of the connection; pages
queued in another order than made; counters that wrap; a pointer that outlives
its output; replies that arrive late; a save cut off half way; samples of a call that
fails half way.

What makes each component correct:

* *connect protocol*: the context outlives everything the thread does to it, the
  job lives as long as it is used and no longer, a cancel never waits for the
  network;
* *life cycle*: no thread outlives its resources, each open connection has exactly
  one owner, Stop ends (with a limit on the retries), the state shown is the truth or
  about to be;
* *reconnect*: exclusive use of the encoder, a full retry budget, headers before
  audio, a lost link is mended or reported;
* *ring*: a bounded FIFO that forgets the oldest bytes;
* *encoders and metadata*: the listener's last headers are those of the pages that
  follow, with the latest title, pages in order;
* *frontend*: the active pointer is of a live output whenever the UI thread looks, every output has exactly one
  owner, an unload leaves nothing, a start does not end a broadcast;
* *settings*: what runs is what a new process would load, what was saved stays on the
  disk through crashes, a dialog nobody touches changes nothing;
* *Opus audio path*: every sample is sent once and in order or given up where the code
  says so, positions count samples, every call returns;
* *listener poll*: label and published count agree, none is stale, or not for ever.

## Modules

| module | models | relation to the code |
|---|---|---|
| `ConnectJob` | the job protocol for any set of outputs | `main[o]`, `thread[o]` are program counters; `refs`, `canceled`, `completed` the job's fields, `field` is `context->connect_job` |
| `OutputStates` | the state diagram an output promises | abstract: `state` and whether a stop was asked |
| `RadioOutput` | one output with all its threads | a program counter per thread, one action per access to shared state |
| `RadioOutputRefinement` | `RadioOutput` implements the two above | mappings `MainOfJob`, `ThreadOfJob` |
| `ByteFifo` | a bounded FIFO of bytes that forgets the oldest | abstract |
| `SendBuf` | `send-buf.c`, bytes and wrapping `size_t` | refines `ByteFifo` |
| `OggStream` | encoder streams, titles, ring, connection, what the listener gets | one step per work under `encoder_mutex`, one per push into the ring |
| `OpusFrames` | the audio of the Opus encoder, sample by sample | one action per round of the loop of `opus_encode_frame`, one per outcome of `emit_one_frame` |
| `Frontend` | frontend handle, script's handle, `g_active_output`, dock buttons, verbs | one action per button, verb, event |
| `Config` | `Frontend` with `g_config`, `config.json`, its backup and the dialog | wraps the actions of `Frontend`, and refines it |
| `ListenerPoll` | dock poll, timer, replies in flight, label and published count | one action per slot |
| `*Proofs` | theorems of the module named | |
| `MC*` | values for TLC and the mutants' symmetry sets | |

How to read them against the code:

* **Granularity.** In `RadioOutput` a step is one access to shared state that
  another thread can see between two others; so `reconnect_cancel` is five steps (test the
  flag, clear `reconnect_running`, read the thread's handle, join, clear the flag) and
  `reconnect_start` as many. What a thread does under a mutex
  without blocking is one step. `job->mutex` and `encoder_mutex` are held over
  longer work, so their holder is read off the program counters
  (`HoldsJobMutex`, `EncoderHolders`) and no variable stands for the mutex.
  `context->state` and the flags are atomic in the code, so one step each.
* **Undefined behaviour.** A use of the freed context, of a destroyed mutex or of a
  NULL encoder either stops the thread or goes on as if nothing had happened;
  the properties look at the state before the use. Main and send thread may join the same
  reconnect thread at once, which POSIX leaves undefined: each join waits for the end of the
  thread, or returns an error at once, and nobody looks at the result. A join of a handle
  that has been joined already finds no thread, or the one that gets its identity next. That
  the program crashes there is left out.
* **libobs is external**, and modelled from how the plugin relies on it:
  `obs_output_stop` calls the stop callback only while the output is capturing;
  `obs_output_destroy` stops an active capture, waits for its end with no audio
  callback left in flight, and then calls destroy; `obs_output_end_data_capture`
  and `obs_output_signal_stop` end a capture *without* waiting for a callback
  that is in flight. libshout calls return with success or failure at will, and
  a connect thread's `shout_open` may never return.
* **The queue.** `RadioOutput` counts items where the ring counts bytes, because it
  asks when a thread sleeps and what exists. `SendBuf` has the bytes.
* **History variables.** `bare` in `RadioOutput` (a connection whose headers have
  not been tried), `lost` and `got` in `SendBuf`, `late` in `ListenerPoll`, and
  `wire`, `pushed`, `disturbed` in `OggStream`, `saved`, `unsaved`, `untouched` in
  `Config`, `dropped` in `Frontend` (outputs without an owner), and `sent`, `dropped`, `faults` in `OpusFrames` are not state of the code; no
  guard of an action that models code reads them except to bound the model.
* **Mutants.** A definition whose comment begins with "Mutant" is not part of the
  model. It is the plausible bug that the property named in `PROJECT.json` must
  catch, next to the definition it alters.

`OggStream` and `RadioOutput` describe the same threads from two sides. The
first has the content of the pages with one output that is started once; the
second has the life and death of the objects and no content. `OggStream`
therefore assumes what `RadioOutput` shows (one reconnect thread, exclusive use
of the encoder) and does not have a title pushed after the teardown. `OpusFrames` is
the inside of one of `OggStream`'s steps, `Encode`: the first has the samples and
packets of one codec and no threads, because `encoder_mutex` excludes them, the second
has pages and no samples.

`Config` extends `Frontend`: its steps are those of `Frontend` with what they do to
the settings, and steps of the dialog that leave the frontend alone. A save has three
outcomes, as `obs_data_save_json_safe` of libobs writes a temporary file, renames the
old one to the backup and the new one into place: it succeeds, fails before it
touched the old file, or ends between the two renames. A crash in the middle of a save
is a failed save followed by the end of the process, which may come at any time
(`ProcessEnds`). After an end the module may be loaded again, with what is on the disk, or
with the defaults when the file is missing or is not parsed.
One check box, `start_with_streaming`, and one combo box, the bitrate, stand for the
widgets: they differ in that a combo box cannot show every value. A spin box cannot
either, it takes the nearest value of its range; `Unlisted` stands for both.

The script of the repository has no `script_unload`. A reload therefore forgets its output,
which goes on until the process ends: `LuaReload` moves it into `dropped`, and the
properties about owners name that exception.

## Runs

| run | states | time | what it shows |
|---|---|---|---|
| `connect_job` | 3 thousand | 2 s | two outputs with a connect thread each: no teardown passes the cancel step during a completion, the job is neither freed early nor leaked, and a cancel completes although `shout_open` never returns |
| `output` | 21 thousand | 10 s | one output, no reconnect: threads end before what they use, no leak, an error stays shown, and every Stop ends; implements `OutputStates` |
| `output_reconnect` | 420 thousand | 150 s | reconnect with a limit of two attempts: one owner per connection, the encoder is never shared, no lost wakeup, the state does not lie for good, every reconnect has its whole budget, headers go first, and, the retries being limited, a lost link is resolved and every Stop ends, whichever threads it has to join; implements `ConnectJob` |
| `send_buf` | 1.4 thousand | 2 s | every sequence of calls on a ring of three bytes whose counters wrap at 12 implements the FIFO, with no copy outside the array |
| `frontend` | 1.1 million | 95 s | three outputs of frontend and script in any order, with the settings: the active pointer between tasks, ownership, unload, starts that spare a running broadcast; what was saved stays on the disk (in the file, or in the backup, which only the user can put back) through failed and interrupted saves, live settings are saved, a dialog nobody edits changes nothing it can show |
| `listeners` | 1.1 thousand | 2 s | two mounts (a count stands for its mount), up to two requests in flight for each: label and published count agree, and a count of another mount fades, however many errors are kept quiet |
| `stream` | 3.1 million | 85 s | two titles, from the dock and from obs-websocket, two restarts, Opus and Vorbis, a ring that overflows: the last headers the listener got are current, headers of the present stream carry the last title wherever they are, pages arrive in order |
| `opus_frames` | 758 thousand | 45 s | callbacks of any length against frames of three samples, two restarts and two failures anywhere: copies stay inside, no sample is lost silently, sent twice or overtaken, positions never go back and count samples until a fault, the flush holds nothing back, every call returns |
| `connect_job_block`, `push_after_teardown`, `reconnect_after_free`, `stream_titles` | | seconds | a statement of a comment that the code does not keep, see below |

Deadlock is checked where a stop of the whole system would be a fault:
`RadioOutput` (with `Gone`, which marks the one proper end), `SendBuf`,
`ListenerPoll`. `ConnectJob` and `Frontend` create each output once and may run
out of outputs, `OggStream` runs out of streams and pages, and `OpusFrames` ends with
the flush, so there it is not checked.

`ErrorIsKept`, `StartSparesBroadcast` and `ConfirmingChangesNothing` are action
properties; `CancelNeverWaitsForOpen`, `StopCompletes`, `LossOrStopIsResolved`,
`StaleCountFades` and `EncoderReturns` are liveness; `ImplementsConnectJob`, `ImplementsOutputStates` and `ImplementsFifo`
are refinements; the rest are invariants.

## Bounds

* `Outputs`: each is created once. Two are enough for `ConnectJob`, where outputs
  share nothing except the one main thread, and three in `Frontend` let one of the
  script, one that it has dropped and one of the frontend live at once, created and
  replaced in any order, also over several processes: what matters of an earlier one is
  the files. The theorems hold for any set.
* `Listed`: one entry of the combo box and one value it has not got. Together with the
  check box that is four settings, enough to tell the file, the backup, the live
  settings and the widgets apart; `ConfigProofs` has any.
* `AttemptCap` caps the counter of a retry without limit (`MaxRetries = 0`, as
  `reconnect_max` 0), which no run uses; with `MaxRetries = 2` there is a first attempt, a
  retry and a failure for good. The safety theorems have any limit and none; the two
  liveness properties assume a limit (`RetriesEnd`), and without one the second part of
  each is false, see the disagreements.
* `RingCapacity` 1 or 2 items: full, empty, and one between.
* `ReconnectThreads`: the one that `context->reconnect_thread` names ("current") and one
  that `reconnect_start` has replaced there before it had ended ("older"); the code means to
  have no such thread, see `reconnect_after_free`. A third is not modelled: `StartSpawn`
  waits until one of the two has ended and been joined.
* `SendBuf`: capacity 3, `SizeMod` 12, payloads of at most 4 bytes. The real
  capacity, 2^18, divides 2^64 as 3 divides 12, and that divisibility is the
  assumption the proof needs. A payload of capacity + 1 is the longest whose
  copy stays inside the array wherever it starts. The code's payloads, the pages of one
  callback or of one header, are far below 256 KB. Nothing guards against a longer one, and
  `send-buf.h` and a unit test promise that it works, see the disagreements.
* `MaxRequests` 2 per mount: the older reply can overtake the newer.
* `OggStream`: `MaxStreams` 2 restarts, so that a title's chain and a reconnect
  meet in either order; `MaxPages` 2 pages of each stream but the last, so that one
  can be held by its thread, or queued, while another is sent; a pool of two
  threads, which is what two jobs of the dock at once would take; `RingPages` 2, so that
  the headers of the start, of a title or a page of audio can each be what a full ring
  drops. The theorems hold for any of these.
* `OpusFrames`: frames of 3 samples and 9 in all: three frames, or pieces that
  cross a boundary at each place; a callback brings 1 to 9, so less than what a frame
  has room for, exactly that, and several frames at once. Two restarts and two
  failures meet in either order, also inside one call. The theorems need no bound.

## Fairness

The scheduler runs every thread: weak fairness of the main thread's teardown, of
the connect thread after `shout_open` has returned, of the send and the reconnect
threads, and of an audio callback that has begun. `shout_send` and the reconnect
thread's `shout_open` return, if only by the kernel's timeout. The one
assumption that is stronger is strong fairness of the reconnect thread, for its lock of
`encoder_mutex`: the audio thread holds it for a fraction of its period only, so
it is free again and again and whoever waits gets it. Nothing is assumed of the
connect thread's `shout_open`, which may block for ever, of the user, or of the
audio source. `ConnectJob` assumes the same: the main thread's steps, and the
connect thread's after the open. `OpusFrames` assumes that a call that has begun goes
on: it holds `encoder_mutex` and waits for nothing. `ListenerPoll` assumes that the
timer fires while it runs, and of the network that each request comes to an end, with
an answer or because the connection breaks. No time limit in the code ends one; without
that assumption a server that never answers leaves the count as it was. The other
modules state no liveness.

## Proofs

Eight modules hold theorems; each has an inductive invariant `IInv` with
`InvInit`, `InvNext`, and a theorem `Invariant == Spec => []IInv` from which the
others follow. They hold for every value of the constants that the modules'
assumptions allow. TLC checked each invariant on the module's run before it was proved.

**`RadioOutputProofs`**: every safety property of the output and its threads, for any
size of the ring and any retry budget: `TypeCorrect`, `SendThreadSafe`, `EncoderSafe`,
`WakeupsAreKept`, `OneConnection`, `NothingLeaks`, `StateTrue`, `RetriesBounded`,
`HeadersFirst`, `ErrorKept`, and the refinements `FollowsConnectJob` and `ShowsItsStates`.
None of the properties is inductive: each relies on what the other threads are not
doing at that point. The invariant says so in five layers, and each step of a layer
cites only the layers before it:

| layer | says | needed for |
|---|---|---|
| `ControlInv` | who still holds the job and may cancel: a teardown past the cancel step excludes a start being completed | the order of all else |
| `BufferInv` | send thread and ring are built by the connect thread and dismantled by a teardown that has joined the sender; only a sender starts a reconnect | `SendThreadSafe` |
| `LinkInv` | the link is a token: in `context->shout`, or sought by one thread, or lost by a sender that is about to start that thread | `OneConnection` |
| `UnstoppedInv` | until the user stops the output there is one reconnect thread, which `reconnect_start` finds and joins; every wrong state is on its way to be corrected; attempts are counted from 0 | `StateTrue`, `RetriesBounded`, `HeadersFirst` |
| `PlainInv` | without reconnect, a handle lost or closed stays so | `NothingLeaks`, `ShowsItsStates` |

`LinkInv` excludes no stop, so `OneConnection` holds even with the second reconnect thread
that `reconnect_after_free` shows: the two never both seek. `ErrorKept` is an invariance
within an invariance: `ErrorIsFinal` lists what no thread may be doing once ERROR is
shown. `NothingLeaks` and `ShowsItsStates` assume `~ReconnectEnabled`, and must: with
reconnect a thread that outlives the stop can open a connection that nobody closes and
set the state of an output that was disconnected, as that finding says. `FollowsConnectJob`
has no such assumption. It is a step simulation with one lemma per group of actions, and the
attempt to prove it with reconnect enabled showed that `ConnectJob` was too strict:
`StateSetAgain`, a late thread that leaves DISCONNECTED once more, was missing there.

**`ConnectJobProofs`**: `TypeCorrect`, `ContextSafe`, `JobSafe`, `JobFreed`.
The invariants the run checks are not inductive, because none says how many
hold a reference. `RefsCounted` does: `refs` is the number of the holders, read
off the two program counters and the field. `JobLivesByRefs` ties the memory to
the count, `OneHolder` says that field and main thread never both hold what is
one reference, `NotStarted` describes the outputs without a thread and
`Cancellable` says that a job in the hands of the completing thread is one
the main thread has not got past. The context's safety then follows from the
last and the mutex, the job's from the first two.

**`SendBufProofs`**: `TypeCorrect`, `Bounded`, `MemorySafe`, `RingIsQueue`, for every
capacity and counter width with `SizeMod` a multiple of `Capacity`. (`Bounded` has no run of its
own: the refinement implies it.) The invariant adds
only the gate (without a capacity both positions are 0, with data the capacity is
the array's); the work is in the
arithmetic: lemmas about the wrapping difference of the positions when either
moves, and about the two parts of a split copy. `RingIsQueue` is the refinement,
`Spec => ImplementsFifo`: the queue of `ByteFifo` is read off the cells from `rpos` to
`wpos`. Lemmas on remainders say that positions at most a capacity apart are
cells of their own, also across the end of the array and of the counter; `PushedCell`
then says cell by cell what a push leaves, and `QueuePush` and `QueueRead` that the queue is
the old one, short of its oldest bytes, with the payload behind it, or without what was read.
A failed `malloc` maps to the FIFO's free, because without data (`NoDataEmpty`) both
positions are 0.

**`FrontendProofs`**: `TypeCorrect`, `ActiveSafe`, `Owned`, `UnloadComplete`,
`StartSpares`, for any set of outputs. The three invariants are inductive together
with the types. The argument is that a release, wherever it comes from, goes
through the teardown that clears the active pointer if it is its own.
`StartSpares` is an action property: without a script the active output is the
handle's, so the test of the active state in the start request is a test of the
output that would be replaced. An output that a reload of the script has dropped nobody
can stop any more, and `ActiveSafe` speaks of the pointer between tasks of the main thread
only: the readers of it on other threads are not modelled.

**`ConfigProofs`**: `ImplementsFrontend`, `SavesAreDurable`, `LiveIsSaved`,
`ConfirmingIsHarmless`, for any outputs and any entries of the combo box. The first is
a step simulation, `[ConfigNext]_allVars => [Next]_vars`: with settings and dialog the
frontend does nothing that `Frontend` does not, so the theorems of `FrontendProofs`
hold of the whole. The invariant of the others joins the two properties with what a
dialog shows (`DialogShowsConfig`: an untouched one shows the settings as they are) and
with the fact that no dialog outlives the module. One lemma, `SaveKeeps`, has the three
outcomes of a save, and every path that saves cites it.

**`OpusFramesProofs`**: `TypeCorrect`, `NothingVanishes`, `AudioStaysInOrder`,
`FlushComplete`, `PositionsCount`, for frames of any size, callbacks of any length and any number of
restarts and failures. The types contain the memory safety of the copies. The invariant
splits what is on its way into four parts: packets sent, packets of this call, packets
that wait for a page, and the accumulator. `Kept` says that with what was given up
they are all samples, `PartsInOrder` that each is in order and they are so one behind
another, `TakenFirst` that all is before what the call has yet to take, `Rest` that
calls leave nothing between them. Lemmas on concatenating, appending and cutting sequences
of packets turn each step into a matter of sets. `PositionsCount` has two parts, and an
invariant of its own for each. Whatever fails, each packet of the one sequence of packets
sent, of this call and waiting is `Later` than all before it: of a later stream, or a frame
or more further on; the encoder's counter is never behind the packet last made. Until a
call fails the position of each is exactly the frame size times the packets of its stream
up to it; after a failure that count is not claimed, because a failed `ogg_stream_packetin`
moves the counter without a packet. A restart keeps both because no packet is of a stream
that is still to come.

**`ListenerPollProofs`**: `TypeCorrect`, `Agreement`, `ErrorHidesCount`,
`DownForgetsCount`, for any mounts and any number of requests in flight. The
strengthening is that the timer runs exactly while the dock believes the
output connected. The last two are proved and not run; what they leave open, an old
count that a late reply shows, is the subject of the run's `StaleCountFades`.

**`OggStreamProofs`**: `TypeCorrect`, `TitleKept`, `PagesStayInOrder` and
`HeadersStayCurrent`, for any titles, pool threads, restarts and sizes of the ring,
obs-websocket's titles included. The strengthening `GoodPages` says that
no page anywhere is a header of a stream the encoder has not reached, and that the
headers of its present stream carry the pushed title. It has to speak of every place
where pages are (a thread's hands, ring, chunk, wire), because a step moves pages
from one to the next.
`PagesStayInOrder` needs the whole way of the audio: `Line` says that wire, chunk, ring
and the callback's hands, one behind another, are in order, that every page there is one
the encoder has numbered, and that nobody but the callback holds audio pages. A page
leaves that way at the front of the ring or goes on, and a read takes a first part of the
ring, so order is kept.
`HeadersStayCurrent` follows the headers of the present stream: `HeadersCurrent` says
that while there is a connection and nothing has `disturbed` it they are the last headers
in one of the four places (`InMade`, `InRing`, `InChunk`, `OnWire`), with none in a place
behind it.
Whoever makes new ones must then be the only one that holds any, which is what `Holders`
gives: the dock runs one title job at a time, and without that (`stream_titles`) the
property fails. `LinkState` says when there is no connection, so that a reconnect
thread may count on what it sends itself.

Only model-checked: the five liveness properties (`CancelNeverWaitsForOpen`,
`StopCompletes`, `LossOrStopIsResolved`, `StaleCountFades`, `EncoderReturns`), because
liveness under fairness is beyond the prover. All other properties of the passing runs,
the refinements included, are stated by a theorem. The four runs that end in a violation
refute theirs, so there is nothing to prove.

## Where code and comments disagree

* `connect_job_block`: `radio-output.c` 560-561 relies on `job->mutex` to keep the
  context alive until the block ends, but a failed start takes the job off the
  context before it signals the stop (line 598); a destroy finds no job to
  cancel and may free the context before that line.
* `push_after_teardown`: lines 1044-1046 call the audio callback's push safe even if
  the teardown has freed the ring. `send_buf.data` is tested before `send_mutex`
  is locked (397-400), and the teardown destroys the mutex in between.
* `reconnect_after_free`: `reconnect.h` 17-21 promises that after `reconnect_cancel`
  no thread is left to write to a freed handle. The teardown cancels before it
  joins the send thread, which may then start a new one.
* `stream_titles`: `obs-ws-vendor.c` 219-221 pushes a title on the websocket's own
  thread because the push "is documented thread-safe". The encoder makes the
  header pages under its mutex but they are queued after the unlock, so this
  thread and a job of the dock can queue theirs in the opposite order, and the
  listener gets the headers of the ended stream last.

`LastHeadersCurrent` in `stream` excludes, by `disturbed`, what the code does not
promise: a title pushed before the first headers are queued or while there is no
connection, the race of `stream_titles`, a reconnect that finds older headers still
queued, headers that a full ring has dropped, a rebuild or a send of the headers that
failed (logged, and the connection kept). A later restart that
meets none of these makes the property hold again, and the model checks that it
does.

Other disagreements have no run, because one would add nothing to reading the lines:

* a start that fails before the connect thread leaves DISCONNECTED where
  `frontend-wire.cpp` 246-251 counts on ERROR (`Frontend` has that outcome);
* `metadata.c` 42-45 trusts a state gate that is stale once it is passed;
* `radio-output.c` 1050 reads the encoder's name after the unlock, and 669 calls it
  without a new test under the lock, when the teardown may have cleared it;
* a value that a combo box has not got, or that is out of the range of a spin box, is
  replaced when the dialog is confirmed, as are those that `radio.applyConfig` sets while it
  is open, and
  the backup of `config.json` is written and never read (`Config` has both);
* with `reconnect_max` 0, unlimited, a Stop may never return, where `reconnect.h` 17-21 has
  `reconnect_cancel` "stop and join the reconnect thread" and `reconnect.c` 87-89 sleeps in
  short slices so that it can be cancelled promptly. A reconnect has succeeded, so
  `reconnect_active` is still set; main clears `reconnect_running` (193); a failing send
  joins the old thread, sets `reconnect_running` again and spawns a new one (163-171); main
  joins that (194), and it retries for as long as the server is away. To see it, set
  `MaxRetries = 0` in `output_reconnect.cfg` and check `Stopping ~> main = "freed"`: TLC
  finds the trace in under a minute. The properties of the runs are stated with a limit;
* a push longer than the ring and what is left to its end runs over the array
  (`send-buf.c` 46-49), where `send-buf.h` 44-48 names no limit and
  `src/tests/test_ring_buffer.cpp` 101-116 pushes more than the capacity, from cell 0, where
  it fits. `SizesAssumption` excludes it, as the callers do;
* a listener count that is missing in an answer counts as 0, where the comment at
  `listener-poll.cpp` 60 speaks of -1;
* a reply that comes after the stream went down is published, against
  `radio-output.h` 229-233 (`ListenerPoll` has it, in `late`).

## What is not modelled

* The byte layout of `OpusHead` and `OpusTags`, signal processing, libopus,
  libvorbis, LAME: no control, covered by the repository's own unit tests.
* Which widgets of the config dialog are visible, and all widgets but two that stand
  for them. Reading the settings in `radio_output_update`: it changes only what the
  next start uses.
* libvorbis's analysis loop: like the frames of Opus, with the accumulator inside the
  library, whose behaviour is not in the repository.
* The readers of `g_active_output` and of the shout handle on foreign threads
  (`radio.status`, `radio.pushMetadata`, a pool job of the dock, `metadata_update` after its
  unlock): each uses a pointer that nothing holds for it, so every order is possible.
  `ActiveIsAlive` is about the pointer between two tasks of the main thread, and does not
  cover them.
* That the Ogg serials of two logical streams differ: `NewSerial` counts them, where the
  code takes time xor address xor epoch times a constant. Of two streams in a row they do
  differ, for the times of 2021 to 2037 (the argument is in the comment of `NewSerial`).
* MP3's titles, which go through libshout with a handle that is used after
  `state_mutex` is released: a hazard with a note. MP3 itself is `Container = FALSE`.
* The parsing of the Icecast and Shoutcast answers, labels and layout.
* Registration, logging, build and packaging, the vendored websocket header.
* A page that an overflow of the ring cuts in the middle counts as lost in `OggStream`, and
  one that is cut by a read of the send thread (4096 bytes) counts for the read that ends
  it; what a player makes of the parts, when a send fails between them, is not in the code.

## Plan

The order in which the project was and is to be built; the important first.

1. done - `ConnectJob`, `RadioOutput`, the state diagram and the two refinements.
2. done - `SendBuf` against `ByteFifo`.
3. done - `Frontend`, `ListenerPoll`, `OggStream`.
4. done - invariants of `ConnectJob`, `SendBuf`, `Frontend`, `ListenerPoll`, the
   title in `OggStream`, proved.
5. done - `Config` (settings, file, dialog, `radio.applyConfig`, restart of the process)
   and `OpusFrames` (samples to packets), with their proofs; overflow in `OggStream`;
   liveness of the listener poll and of the encoder's calls.
6. done - `RadioOutput`: all its safety properties from one invariant that says, per
   program counter, what each thread may rely on, and its two refinements.
7. done - `PagesInOrder`, `LastHeadersCurrent`, `PositionCountsSamples`, and
   `SendBuf => ByteFifo!Spec`.
8. later - the users of `g_active_output` and of the shout handle on other threads
   beside the teardown; the settings update; `OpusHead`/`OpusTags` as operators against
   a reading of RFC 7845; the end of the old stream at a title's chain
   (`radio-encoder.h` 104-107).
