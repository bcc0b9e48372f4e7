-------------------------- MODULE ConnectJobProofs ---------------------------
(***************************************************************************)
(* ConnectJob is safe for any number of outputs: the reference count frees *)
(* the job of an output exactly when its last holder is done, and the      *)
(* context outlives the completion of its start.                           *)
(*                                                                         *)
(* None of the properties is inductive.  What makes them so is a count of  *)
(* the holders: one reference belongs to the connect thread, the other     *)
(* goes from context->connect_job either to the teardown that takes the    *)
(* job or to the connect thread that detaches it.                          *)
(***************************************************************************)
EXTENDS ConnectJob, TLAPS

\* The reference that started in context->connect_job has not been dropped.
FieldRef(o) == field[o] \/ main[o] \in {"cancel", "release"} \/ dropField[o]

\* The connect thread has not dropped its own.
OwnRef(o) == thread[o] \notin {"none", "done"}

RefsCounted(o) ==
  refs[o] = (IF FieldRef(o) THEN 1 ELSE 0) + (IF OwnRef(o) THEN 1 ELSE 0)

JobLivesByRefs(o) == job[o] = "live" <=> refs[o] > 0

\* The field reference has one holder at a time: the context of an output that is
\* not being stopped, the teardown, or the connect thread.
OneHolder(o) ==
  /\ field[o] => main[o] = "idle"
  /\ dropField[o] => /\ ~field[o]
                     /\ main[o] \notin {"cancel", "release"}
                     /\ thread[o] \in {"signalling", "unlocking", "releaseField"}
  /\ thread[o] = "releaseField" => dropField[o]

NotStarted(o) == main[o] = "absent" => thread[o] = "none" /\ ~field[o]

\* Until it has detached the job, the connect thread is uncancelled only if the
\* job can still be cancelled, and no cancelled thread holds the mutex.
Cancellable(o) ==
  /\ thread[o] \in {"opening", "completing"} =>
       field[o] \/ main[o] = "cancel" \/ canceled[o]
  /\ canceled[o] => ~HoldsJobMutex(o)
  /\ main[o] = "release" => canceled[o]

JobInv(o) ==
  /\ RefsCounted(o)
  /\ JobLivesByRefs(o)
  /\ OneHolder(o)
  /\ NotStarted(o)
  /\ Cancellable(o)

IInv == TypeOK /\ \A o \in Outputs : JobInv(o)
-----------------------------------------------------------------------------
\* What a step of one output leaves alone of another.
SameAt(o) ==
  /\ main'[o] = main[o] /\ thread'[o] = thread[o] /\ job'[o] = job[o]
  /\ field'[o] = field[o] /\ canceled'[o] = canceled[o]
  /\ refs'[o] = refs[o] /\ dropField'[o] = dropField[o]

\* The invariant of one output depends on that output's state only.
LEMMA JobInvFrame ==
  ASSUME NEW o \in Outputs, JobInv(o), SameAt(o)
  PROVE  JobInv(o)'
BY DEF SameAt, JobInv, RefsCounted, JobLivesByRefs, OneHolder, NotStarted, Cancellable,
       FieldRef, OwnRef, HoldsJobMutex

\* So a step of one output preserves the invariant if it does so for that output.
LEMMA OneOutput ==
  ASSUME IInv, NEW p \in Outputs, TypeOK', JobInv(p)',
         \A o \in Outputs \ {p} : SameAt(o)
  PROVE  IInv'
<1>1. \A o \in Outputs : JobInv(o)'
  <2>1. ASSUME NEW o \in Outputs, o # p
        PROVE  JobInv(o)'
    BY <2>1, JobInvFrame DEF IInv
  <2>2. QED BY <2>1
<1>2. QED BY <1>1 DEF IInv

\* Before the first start nothing is held.
LEMMA InvInit == Init => IInv
BY DEF Init, IInv, TypeOK, MainPC, ThreadPC, JobInv, RefsCounted, JobLivesByRefs, OneHolder,
       NotStarted, Cancellable, FieldRef, OwnRef, HoldsJobMutex

\* Every step of every output preserves the invariant.
LEMMA InvNext == IInv /\ [Next]_vars => IInv'
<1> SUFFICES ASSUME IInv, [Next]_vars
             PROVE  IInv'
  OBVIOUS
<1> USE DEF SameAt, TypeOK, MainPC, ThreadPC
<1>1. ASSUME UNCHANGED vars
      PROVE  IInv'
  BY <1>1 DEF vars, IInv, JobInv, RefsCounted, JobLivesByRefs, OneHolder, NotStarted,
              Cancellable, FieldRef, OwnRef, HoldsJobMutex
<1>2. ASSUME NEW p \in Outputs, Start(p)
      PROVE  IInv'
  <2>1. TypeOK /\ JobInv(p)
    BY DEF IInv
  <2>2. TypeOK'
    BY <1>2, <2>1 DEF Start, JobInv, RefsCounted, FieldRef, OwnRef
  <2>3. JobInv(p)'
    BY <1>2, <2>1 DEF Start, JobInv, RefsCounted, JobLivesByRefs, OneHolder, NotStarted,
                     Cancellable, FieldRef, OwnRef, HoldsJobMutex
  <2>4. \A o \in Outputs \ {p} : SameAt(o)
    BY <1>2, <2>1 DEF Start
  <2>5. QED BY <2>2, <2>3, <2>4, OneOutput
<1>3. ASSUME NEW p \in Outputs, StartFails(p)
      PROVE  IInv'
  <2>1. TypeOK /\ JobInv(p)
    BY DEF IInv
  <2>2. TypeOK'
    BY <1>3, <2>1 DEF StartFails, JobInv, RefsCounted, FieldRef, OwnRef
  <2>3. JobInv(p)'
    BY <1>3, <2>1 DEF StartFails, JobInv, RefsCounted, JobLivesByRefs, OneHolder, NotStarted,
                     Cancellable, FieldRef, OwnRef, HoldsJobMutex
  <2>4. \A o \in Outputs \ {p} : SameAt(o)
    BY <1>3, <2>1 DEF StartFails
  <2>5. QED BY <2>2, <2>3, <2>4, OneOutput
<1>4. ASSUME NEW p \in Outputs, SpawnFails(p)
      PROVE  IInv'
  <2>1. TypeOK /\ JobInv(p)
    BY DEF IInv
  <2>2. TypeOK'
    BY <1>4, <2>1 DEF SpawnFails, JobInv, RefsCounted, FieldRef, OwnRef
  <2>3. JobInv(p)'
    BY <1>4, <2>1 DEF SpawnFails, JobInv, RefsCounted, JobLivesByRefs, OneHolder, NotStarted,
                     Cancellable, FieldRef, OwnRef, HoldsJobMutex
  <2>4. \A o \in Outputs \ {p} : SameAt(o)
    BY <1>4, <2>1 DEF SpawnFails
  <2>5. QED BY <2>2, <2>3, <2>4, OneOutput
<1>5. ASSUME NEW p \in Outputs, TakeJob(p)
      PROVE  IInv'
  <2>1. TypeOK /\ JobInv(p)
    BY DEF IInv
  <2>2. TypeOK'
    BY <1>5, <2>1 DEF TakeJob, JobInv, RefsCounted, FieldRef, OwnRef
  <2>3. JobInv(p)'
    BY <1>5, <2>1 DEF TakeJob, JobInv, RefsCounted, JobLivesByRefs, OneHolder, NotStarted,
                     Cancellable, FieldRef, OwnRef, HoldsJobMutex
  <2>4. \A o \in Outputs \ {p} : SameAt(o)
    BY <1>5, <2>1 DEF TakeJob
  <2>5. QED BY <2>2, <2>3, <2>4, OneOutput
<1>6. ASSUME NEW p \in Outputs, DestroyDisconnected(p)
      PROVE  IInv'
  <2>1. TypeOK /\ JobInv(p)
    BY DEF IInv
  <2>2. TypeOK'
    BY <1>6, <2>1 DEF DestroyDisconnected, JobInv, RefsCounted, FieldRef, OwnRef
  <2>3. JobInv(p)'
    BY <1>6, <2>1 DEF DestroyDisconnected, JobInv, RefsCounted, JobLivesByRefs, OneHolder, NotStarted,
                     Cancellable, FieldRef, OwnRef, HoldsJobMutex
  <2>4. \A o \in Outputs \ {p} : SameAt(o)
    BY <1>6, <2>1 DEF DestroyDisconnected
  <2>5. QED BY <2>2, <2>3, <2>4, OneOutput
<1>7. ASSUME NEW p \in Outputs, Cancel(p)
      PROVE  IInv'
  <2>1. TypeOK /\ JobInv(p)
    BY DEF IInv
  <2>2. TypeOK'
    BY <1>7, <2>1 DEF Cancel, JobInv, RefsCounted, FieldRef, OwnRef
  <2>3. JobInv(p)'
    BY <1>7, <2>1 DEF Cancel, JobInv, RefsCounted, JobLivesByRefs, OneHolder, NotStarted,
                     Cancellable, FieldRef, OwnRef, HoldsJobMutex
  <2>4. \A o \in Outputs \ {p} : SameAt(o)
    BY <1>7, <2>1 DEF Cancel
  <2>5. QED BY <2>2, <2>3, <2>4, OneOutput
<1>8. ASSUME NEW p \in Outputs, ReleaseTaken(p)
      PROVE  IInv'
  <2>1. TypeOK /\ JobInv(p)
    BY DEF IInv
  <2>2. TypeOK'
    BY <1>8, <2>1 DEF ReleaseTaken, Release, JobInv, RefsCounted, FieldRef, OwnRef
  <2>3. JobInv(p)'
    BY <1>8, <2>1 DEF ReleaseTaken, Release, JobInv, RefsCounted, JobLivesByRefs, OneHolder, NotStarted,
                     Cancellable, FieldRef, OwnRef, HoldsJobMutex
  <2>4. \A o \in Outputs \ {p} : SameAt(o)
    BY <1>8, <2>1 DEF ReleaseTaken, Release
  <2>5. QED BY <2>2, <2>3, <2>4, OneOutput
<1>9. ASSUME NEW p \in Outputs, StopReturns(p)
      PROVE  IInv'
  <2>1. TypeOK /\ JobInv(p)
    BY DEF IInv
  <2>2. TypeOK'
    BY <1>9, <2>1 DEF StopReturns, JobInv, RefsCounted, FieldRef, OwnRef
  <2>3. JobInv(p)'
    BY <1>9, <2>1 DEF StopReturns, JobInv, RefsCounted, JobLivesByRefs, OneHolder, NotStarted,
                     Cancellable, FieldRef, OwnRef, HoldsJobMutex
  <2>4. \A o \in Outputs \ {p} : SameAt(o)
    BY <1>9, <2>1 DEF StopReturns
  <2>5. QED BY <2>2, <2>3, <2>4, OneOutput
<1>10. ASSUME NEW p \in Outputs, DestroyFrees(p)
      PROVE  IInv'
  <2>1. TypeOK /\ JobInv(p)
    BY DEF IInv
  <2>2. TypeOK'
    BY <1>10, <2>1 DEF DestroyFrees, JobInv, RefsCounted, FieldRef, OwnRef
  <2>3. JobInv(p)'
    BY <1>10, <2>1 DEF DestroyFrees, JobInv, RefsCounted, JobLivesByRefs, OneHolder, NotStarted,
                     Cancellable, FieldRef, OwnRef, HoldsJobMutex
  <2>4. \A o \in Outputs \ {p} : SameAt(o)
    BY <1>10, <2>1 DEF DestroyFrees
  <2>5. QED BY <2>2, <2>3, <2>4, OneOutput
<1>11. ASSUME NEW p \in Outputs, OpenReturns(p)
      PROVE  IInv'
  <2>1. TypeOK /\ JobInv(p)
    BY DEF IInv
  <2>2. TypeOK'
    BY <1>11, <2>1 DEF OpenReturns, JobInv, RefsCounted, FieldRef, OwnRef
  <2>3. JobInv(p)'
    BY <1>11, <2>1 DEF OpenReturns, JobInv, RefsCounted, JobLivesByRefs, OneHolder, NotStarted,
                     Cancellable, FieldRef, OwnRef, HoldsJobMutex
  <2>4. \A o \in Outputs \ {p} : SameAt(o)
    BY <1>11, <2>1 DEF OpenReturns
  <2>5. QED BY <2>2, <2>3, <2>4, OneOutput
<1>12. ASSUME NEW p \in Outputs, Detach(p)
      PROVE  IInv'
  <2>1. TypeOK /\ JobInv(p)
    BY DEF IInv
  <2>2. TypeOK'
    BY <1>12, <2>1 DEF Detach, JobInv, RefsCounted, FieldRef, OwnRef
  <2>3. JobInv(p)'
    BY <1>12, <2>1 DEF Detach, JobInv, RefsCounted, JobLivesByRefs, OneHolder, NotStarted,
                     Cancellable, FieldRef, OwnRef, HoldsJobMutex
  <2>4. \A o \in Outputs \ {p} : SameAt(o)
    BY <1>12, <2>1 DEF Detach
  <2>5. QED BY <2>2, <2>3, <2>4, OneOutput
<1>13. ASSUME NEW p \in Outputs, SignalFailure(p)
      PROVE  IInv'
  <2>1. TypeOK /\ JobInv(p)
    BY DEF IInv
  <2>2. TypeOK'
    BY <1>13, <2>1 DEF SignalFailure, JobInv, RefsCounted, FieldRef, OwnRef
  <2>3. JobInv(p)'
    BY <1>13, <2>1 DEF SignalFailure, JobInv, RefsCounted, JobLivesByRefs, OneHolder, NotStarted,
                     Cancellable, FieldRef, OwnRef, HoldsJobMutex
  <2>4. \A o \in Outputs \ {p} : SameAt(o)
    BY <1>13, <2>1 DEF SignalFailure
  <2>5. QED BY <2>2, <2>3, <2>4, OneOutput
<1>14. ASSUME NEW p \in Outputs, Complete(p)
      PROVE  IInv'
  <2>1. TypeOK /\ JobInv(p)
    BY DEF IInv
  <2>2. TypeOK'
    BY <1>14, <2>1 DEF Complete, JobInv, RefsCounted, FieldRef, OwnRef
  <2>3. JobInv(p)'
    BY <1>14, <2>1 DEF Complete, JobInv, RefsCounted, JobLivesByRefs, OneHolder, NotStarted,
                     Cancellable, FieldRef, OwnRef, HoldsJobMutex
  <2>4. \A o \in Outputs \ {p} : SameAt(o)
    BY <1>14, <2>1 DEF Complete
  <2>5. QED BY <2>2, <2>3, <2>4, OneOutput
<1>15. ASSUME NEW p \in Outputs, ReleaseField(p)
      PROVE  IInv'
  <2>1. TypeOK /\ JobInv(p)
    BY DEF IInv
  <2>2. TypeOK'
    BY <1>15, <2>1 DEF ReleaseField, Release, JobInv, RefsCounted, FieldRef, OwnRef
  <2>3. JobInv(p)'
    BY <1>15, <2>1 DEF ReleaseField, Release, JobInv, RefsCounted, JobLivesByRefs, OneHolder, NotStarted,
                     Cancellable, FieldRef, OwnRef, HoldsJobMutex
  <2>4. \A o \in Outputs \ {p} : SameAt(o)
    BY <1>15, <2>1 DEF ReleaseField, Release
  <2>5. QED BY <2>2, <2>3, <2>4, OneOutput
<1>16. ASSUME NEW p \in Outputs, ReleaseOwn(p)
      PROVE  IInv'
  <2>1. TypeOK /\ JobInv(p)
    BY DEF IInv
  <2>2. TypeOK'
    BY <1>16, <2>1 DEF ReleaseOwn, Release, JobInv, RefsCounted, FieldRef, OwnRef
  <2>3. JobInv(p)'
    BY <1>16, <2>1 DEF ReleaseOwn, Release, JobInv, RefsCounted, JobLivesByRefs, OneHolder, NotStarted,
                     Cancellable, FieldRef, OwnRef, HoldsJobMutex
  <2>4. \A o \in Outputs \ {p} : SameAt(o)
    BY <1>16, <2>1 DEF ReleaseOwn, Release
  <2>5. QED BY <2>2, <2>3, <2>4, OneOutput
<1>17. ASSUME NEW p \in Outputs, StateSetAgain(p)
      PROVE  IInv'
  <2>1. TypeOK /\ JobInv(p)
    BY DEF IInv
  <2>2. TypeOK'
    BY <1>17, <2>1 DEF StateSetAgain, JobInv, RefsCounted, FieldRef, OwnRef
  <2>3. JobInv(p)'
    BY <1>17, <2>1 DEF StateSetAgain, JobInv, RefsCounted, JobLivesByRefs, OneHolder,
                     NotStarted, Cancellable, FieldRef, OwnRef, HoldsJobMutex
  <2>4. \A o \in Outputs \ {p} : SameAt(o)
    BY <1>17, <2>1 DEF StateSetAgain
  <2>5. QED BY <2>2, <2>3, <2>4, OneOutput
<1>18. QED
  BY <1>1, <1>2, <1>3, <1>4, <1>5, <1>6, <1>7, <1>8, <1>9, <1>10, <1>11, <1>12, <1>13, <1>14,
     <1>15, <1>16, <1>17
  DEF Next, MainStep, AfterOpen

\* The invariant holds in every behaviour.
THEOREM Invariant == Spec => []IInv
BY InvInit, InvNext, PTL DEF Spec

-----------------------------------------------------------------------------
\* Every variable keeps its type; in particular the count of references stays
\* between 0 and 2, so connect_job_release never goes below zero.
THEOREM TypeCorrect == Spec => []TypeOK
<1>1. IInv => TypeOK
  BY DEF IInv
<1>2. QED BY <1>1, Invariant, PTL

\* No teardown is past its cancel step while the connect thread completes a start.
THEOREM ContextSafe == Spec => []ContextOutlivesCompletion
<1>1. IInv => ContextOutlivesCompletion
  <2> SUFFICES ASSUME NEW o \in Outputs, JobInv(o), thread[o] = "completing"
               PROVE  main[o] \notin {"release", "teardown", "freed"}
    BY DEF IInv, ContextOutlivesCompletion
  <2>1. ~canceled[o]
    BY DEF JobInv, Cancellable, HoldsJobMutex
  <2>2. field[o] \/ main[o] = "cancel"
    BY <2>1 DEF JobInv, Cancellable
  <2>3. QED BY <2>2 DEF JobInv, OneHolder
<1>2. QED BY <1>1, Invariant, PTL

\* Nobody who still has to use the job, or its mutex, finds it freed.
THEOREM JobSafe == Spec => []JobAliveWhileUsed
<1>1. IInv => JobAliveWhileUsed
  <2> SUFFICES ASSUME IInv, NEW o \in Outputs, UsesJob(o)
               PROVE  job[o] = "live"
    BY DEF JobAliveWhileUsed
  <2>1. FieldRef(o) \/ OwnRef(o)
    BY DEF UsesJob, FieldRef, OwnRef
  <2>2. refs[o] > 0
    BY <2>1 DEF IInv, JobInv, RefsCounted
  <2>3. QED BY <2>2 DEF IInv, JobInv, JobLivesByRefs
<1>2. QED BY <1>1, Invariant, PTL

\* Once nobody has to use it, the job has been freed.
THEOREM JobFreed == Spec => []JobNotLeaked
<1>1. IInv => JobNotLeaked
  <2> SUFFICES ASSUME IInv, NEW o \in Outputs, job[o] = "live"
               PROVE  UsesJob(o)
    BY DEF JobNotLeaked
  <2>1. FieldRef(o) \/ OwnRef(o)
    BY DEF IInv, JobInv, JobLivesByRefs, RefsCounted
  <2>2. dropField[o] => OwnRef(o)
    BY DEF IInv, JobInv, OneHolder, OwnRef
  <2>3. QED BY <2>1, <2>2 DEF UsesJob, FieldRef, OwnRef
<1>2. QED BY <1>1, Invariant, PTL
=============================================================================
