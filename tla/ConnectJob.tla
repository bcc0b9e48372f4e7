----------------------------- MODULE ConnectJob -----------------------------
(***************************************************************************)
(* The asynchronous initial connect of radio-output.c (issue #61 there):   *)
(* radio_output_start hands the blocking shout_open to a detached connect  *)
(* thread through a reference-counted job, and the teardown that a Stop or *)
(* a destroy runs must cancel that job without ever waiting for the open.  *)
(*                                                                         *)
(* Every output has its own context and at most one job.  One main thread  *)
(* runs the starts, stops and destroys of all of them, so any number of    *)
(* cancelled connect threads may still be blocked in shout_open while the  *)
(* main thread starts the next output.  This module is the protocol alone: *)
(* RadioOutput.tla, which has everything else the two threads touch,       *)
(* implements it.                                                          *)
(***************************************************************************)
EXTENDS Integers

CONSTANT Outputs        \* the outputs (contexts) the main thread creates

VARIABLES
  main,       \* main[o]: where the main thread is with o
  thread,     \* thread[o]: where o's connect thread is
  job,        \* job[o]: the heap object struct radio_connect_job
  field,      \* field[o]: context->connect_job # NULL
  canceled,   \* canceled[o]: job->canceled
  completed,  \* completed[o]: job->completed
  refs,       \* refs[o]: job->refs
  dropField   \* dropField[o]: the connect thread's local drop_field_ref

vars == <<main, thread, job, field, canceled, completed, refs, dropField>>

(***************************************************************************)
(* main: "absent" before start, "idle" when no call of o is running, or    *)
(* "disconnected" if o is also in that state, which makes a teardown       *)
(* return at once; "cancel" waiting for job->mutex in connect_cancel,      *)
(* "release" about to drop the reference it took, "teardown" in the rest,  *)
(* "freed" after radio_output_destroy.                                     *)
(* thread: "opening" in shout_open; with job->mutex held, "completing" the *)
(* start, "signalling" a failure of it, "unlocking"; then its one or two   *)
(* releases.                                                               *)
(***************************************************************************)
MainPC == {"absent", "idle", "disconnected",
           "cancel", "release", "teardown", "freed"}
ThreadPC == {"none", "opening", "completing", "signalling", "unlocking",
             "releaseField", "releaseOwn", "done"}

Init ==
  /\ main = [o \in Outputs |-> "absent"]
  /\ thread = [o \in Outputs |-> "none"]
  /\ job = [o \in Outputs |-> "none"]
  /\ field = [o \in Outputs |-> FALSE]
  /\ canceled = [o \in Outputs |-> FALSE]
  /\ completed = [o \in Outputs |-> FALSE]
  /\ refs = [o \in Outputs |-> 0]
  /\ dropField = [o \in Outputs |-> FALSE]

\* Mutant: a start is completed without job->mutex.
NoJobMutex(o) == FALSE

\* The connect thread holds job->mutex from its check of canceled to its unlock.
HoldsJobMutex(o) == thread[o] \in {"completing", "signalling", "unlocking"}

\* The main thread runs one call at a time, whichever output it is for.
MainFree == \A o \in Outputs : main[o] \notin {"cancel", "release", "teardown"}

(***************************************************************************)
(* radio_output_start.                                                     *)
(***************************************************************************)
Start(o) ==
  /\ MainFree
  /\ main[o] = "absent"
  /\ main' = [main EXCEPT ![o] = "idle"]
  /\ thread' = [thread EXCEPT ![o] = "opening"]
  /\ job' = [job EXCEPT ![o] = "live"]
  /\ field' = [field EXCEPT ![o] = TRUE]
  /\ refs' = [refs EXCEPT ![o] = 2]
  /\ UNCHANGED <<canceled, completed, dropField>>

\* The encoder or the handle cannot be created: no job, state DISCONNECTED.
StartFails(o) ==
  /\ MainFree
  /\ main[o] = "absent"
  /\ main' = [main EXCEPT ![o] = "disconnected"]
  /\ UNCHANGED <<thread, job, field, canceled, completed, refs, dropField>>

\* pthread_create fails: the job is freed by hand, state ERROR.
SpawnFails(o) ==
  /\ MainFree
  /\ main[o] = "absent"
  /\ main' = [main EXCEPT ![o] = "idle"]
  /\ job' = [job EXCEPT ![o] = "freed"]
  /\ UNCHANGED <<thread, field, canceled, completed, refs, dropField>>

(***************************************************************************)
(* connect_job_release: the last reference frees the job.                  *)
(***************************************************************************)
Release(o) ==
  /\ refs' = [refs EXCEPT ![o] = @ - 1]
  /\ job' = IF refs[o] > 1 THEN job ELSE [job EXCEPT ![o] = "freed"]

(***************************************************************************)
(* radio_output_teardown, whose first step is connect_cancel.  It runs in  *)
(* the stop callback, in the destroy callback, or in both, one after the   *)
(* other.  A stop in state ERROR leaves that state, any other leaves       *)
(* DISCONNECTED.                                                           *)
(***************************************************************************)
TakeJob(o) ==
  /\ MainFree
  /\ main[o] = "idle"
  /\ main' = [main EXCEPT ![o] = IF field[o] THEN "cancel" ELSE "teardown"]
  /\ field' = [field EXCEPT ![o] = FALSE]
  /\ UNCHANGED <<thread, job, canceled, completed, refs, dropField>>

\* Mutant: the cancel waits for the end of the connect thread.
CancelJoins(o) ==
  /\ main[o] = "cancel"
  /\ thread[o] = "done"
  /\ main' = [main EXCEPT ![o] = "release"]
  /\ canceled' = [canceled EXCEPT ![o] = TRUE]
  /\ UNCHANGED <<thread, job, field, completed, refs, dropField>>

Cancel(o) ==
  /\ main[o] = "cancel"
  /\ ~HoldsJobMutex(o)
  /\ main' = [main EXCEPT ![o] = "release"]
  /\ canceled' = [canceled EXCEPT ![o] = TRUE]
  /\ UNCHANGED <<thread, job, field, completed, refs, dropField>>

ReleaseTaken(o) ==
  /\ main[o] = "release"
  /\ main' = [main EXCEPT ![o] = "teardown"]
  /\ Release(o)
  /\ UNCHANGED <<thread, field, canceled, completed, dropField>>

StopReturns(o) ==
  /\ main[o] = "teardown"
  /\ main' \in {[main EXCEPT ![o] = pc] : pc \in {"idle", "disconnected"}}
  /\ UNCHANGED <<thread, job, field, canceled, completed, refs, dropField>>

DestroyFrees(o) ==
  /\ main[o] = "teardown"
  /\ main' = [main EXCEPT ![o] = "freed"]
  /\ UNCHANGED <<thread, job, field, canceled, completed, refs, dropField>>

\* The teardown in destroy returns at once in state DISCONNECTED.
DestroyDisconnected(o) ==
  /\ MainFree
  /\ main[o] = "disconnected"
  /\ main' = [main EXCEPT ![o] = "freed"]
  /\ UNCHANGED <<thread, job, field, canceled, completed, refs, dropField>>

\* A reconnect thread that the stop missed sets the state once more, so the destroy
\* will not return at once.  It exists only after a start that was completed.
StateSetAgain(o) ==
  /\ main[o] = "disconnected"
  /\ thread[o] \in {"unlocking", "releaseField", "releaseOwn", "done"}
  /\ main' = [main EXCEPT ![o] = "idle"]
  /\ UNCHANGED <<thread, job, field, canceled, completed, refs, dropField>>

(***************************************************************************)
(* connect_thread_fn.                                                      *)
(***************************************************************************)
OpenReturns(o) ==
  /\ thread[o] = "opening"
  /\ thread' = [thread EXCEPT ![o] = IF canceled[o] THEN "releaseOwn"
                                                    ELSE "completing"]
  /\ UNCHANGED <<main, job, field, canceled, completed, refs, dropField>>

\* Mutant: the field reference is dropped whoever holds it.
DetachUnchecked(o) ==
  /\ thread[o] = "completing"
  /\ thread' \in {[thread EXCEPT ![o] = pc] : pc \in {"signalling", "unlocking"}}
  /\ dropField' = [dropField EXCEPT ![o] = TRUE]
  /\ field' = [field EXCEPT ![o] = FALSE]
  /\ UNCHANGED <<main, job, canceled, completed, refs>>

\* The completion is over, well or badly, and the job leaves the context.
Detach(o) ==
  /\ thread[o] = "completing"
  /\ thread' \in {[thread EXCEPT ![o] = pc] : pc \in {"signalling", "unlocking"}}
  /\ dropField' = [dropField EXCEPT ![o] = field[o]]
  /\ field' = [field EXCEPT ![o] = FALSE]
  /\ UNCHANGED <<main, job, canceled, completed, refs>>

\* Only a failed start: obs_output_signal_stop(context->output, ...).
SignalFailure(o) ==
  /\ thread[o] = "signalling"
  /\ thread' = [thread EXCEPT ![o] = "unlocking"]
  /\ UNCHANGED <<main, job, field, canceled, completed, refs, dropField>>

\* Mutant: the reference of the field is never dropped.
CompleteKeepsField(o) ==
  /\ thread[o] = "unlocking"
  /\ completed' = [completed EXCEPT ![o] = TRUE]
  /\ thread' = [thread EXCEPT ![o] = "releaseOwn"]
  /\ UNCHANGED <<main, job, field, canceled, refs, dropField>>

Complete(o) ==
  /\ thread[o] = "unlocking"
  /\ completed' = [completed EXCEPT ![o] = TRUE]
  /\ thread' = [thread EXCEPT ![o] = IF dropField[o] THEN "releaseField"
                                                     ELSE "releaseOwn"]
  /\ UNCHANGED <<main, job, field, canceled, refs, dropField>>

ReleaseField(o) ==
  /\ thread[o] = "releaseField"
  /\ thread' = [thread EXCEPT ![o] = "releaseOwn"]
  /\ dropField' = [dropField EXCEPT ![o] = FALSE]
  /\ Release(o)
  /\ UNCHANGED <<main, field, canceled, completed>>

ReleaseOwn(o) ==
  /\ thread[o] = "releaseOwn"
  /\ thread' = [thread EXCEPT ![o] = "done"]
  /\ Release(o)
  /\ UNCHANGED <<main, field, canceled, completed, dropField>>

-----------------------------------------------------------------------------
MainStep(o) == \/ Cancel(o) \/ ReleaseTaken(o) \/ StopReturns(o) \/ DestroyFrees(o)

\* Everything the connect thread does once shout_open has returned.
AfterOpen(o) == \/ Detach(o) \/ SignalFailure(o) \/ Complete(o)
                \/ ReleaseField(o) \/ ReleaseOwn(o)

Next ==
  \E o \in Outputs :
    \/ Start(o) \/ StartFails(o) \/ SpawnFails(o) \/ TakeJob(o) \/ DestroyDisconnected(o)
    \/ StateSetAgain(o)
    \/ MainStep(o)
    \/ OpenReturns(o)
    \/ AfterOpen(o)

Spec == Init /\ [][Next]_vars

\* The scheduler runs both threads; nothing is assumed of shout_open, which
\* may block for as long as the peer likes.
Fairness == \A o \in Outputs : WF_vars(MainStep(o)) /\ WF_vars(AfterOpen(o))
FairSpec == Spec /\ Fairness

-----------------------------------------------------------------------------
(***************************************************************************)
(* Properties.                                                             *)
(***************************************************************************)
TypeOK ==
  /\ main \in [Outputs -> MainPC]
  /\ thread \in [Outputs -> ThreadPC]
  /\ job \in [Outputs -> {"none", "live", "freed"}]
  /\ field \in [Outputs -> BOOLEAN]
  /\ canceled \in [Outputs -> BOOLEAN]
  /\ completed \in [Outputs -> BOOLEAN]
  /\ refs \in [Outputs -> 0..2]
  /\ dropField \in [Outputs -> BOOLEAN]

\* While the connect thread finishes the start (publishes the handle, begins
\* the capture, creates the send thread, or drops the encoder), no teardown is
\* past its cancel step and the context is allocated: radio-output.c 423-432,
\* "a canceled thread never touches the context again, so destroy can free it
\* safely".
ContextOutlivesCompletion ==
  \A o \in Outputs :
    thread[o] = "completing" => main[o] \notin {"release", "teardown", "freed"}

\* The same for the whole block the connect thread runs under job->mutex, as
\* radio-output.c 560-561 has it: "teardown is blocked at its cancel step, so
\* the context stays alive for this whole block".  The last use of the context
\* in that block is the signal of a failed start.
ContextOutlivesBlock ==
  \A o \in Outputs :
    thread[o] \in {"completing", "signalling"} => main[o] # "freed"

\* Whoever still has a reference to drop, or a mutex of the job to take,
\* finds the job allocated: the count never frees it early.
UsesJob(o) == \/ thread[o] \notin {"none", "done"}
              \/ main[o] \in {"cancel", "release"}
              \/ field[o]
JobAliveWhileUsed == \A o \in Outputs : UsesJob(o) => job[o] = "live"

\* The job does not leak: when the connect thread has ended and the context
\* no longer points to it, with no teardown holding it, it has been freed.
JobNotLeaked ==
  \A o \in Outputs : job[o] = "live" => UsesJob(o)

\* A teardown that waits in connect_cancel gets past it even if shout_open
\* never returns: "Stop must never wait for it".
CancelNeverWaitsForOpen ==
  \A o \in Outputs : main[o] = "cancel" ~> main[o] = "teardown"
=============================================================================
