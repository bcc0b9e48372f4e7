-------------------------- MODULE RadioOutputProofs --------------------------
(***************************************************************************)
(* What RadioOutput guarantees for every setting of an output, however its *)
(* threads interleave, and that it implements ConnectJob and OutputStates. *)
(*                                                                         *)
(* None of the properties is inductive.  The argument is in five layers,   *)
(* each preserved by every step on the strength of those before it:        *)
(*                                                                         *)
(*   ControlInv    who may still cancel the connect thread, and so how far *)
(*                 a teardown can be while that thread completes a start   *)
(*   BufferInv     the send thread and its buffer: created by the connect  *)
(*                 thread, dismantled by a teardown that has joined it;    *)
(*                 and nothing of a reconnect before there is a sender     *)
(*   LinkInv       the link as a token: it is in context->shout, or one    *)
(*                 thread seeks it, or the sender has lost it and is about *)
(*                 to start that thread.  No stop is excluded here: even a *)
(*                 second reconnect thread, which a reconnect_cancel that  *)
(*                 overlaps reconnect_start allows, never seeks with the   *)
(*                 first                                                   *)
(*   UnstoppedInv  until the user stops the output there is one reconnect  *)
(*                 thread, which reconnect_start joins, and every state is *)
(*                 on its way to be corrected                              *)
(*   PlainInv      without a reconnect, the handle is closed for good      *)
(***************************************************************************)
EXTENDS RadioOutputRefinement, TLAPS

-----------------------------------------------------------------------------
(***************************************************************************)
(* The inductive invariant.                                                *)
(***************************************************************************)
\* TypeOK in four parts.
ThreadsTyped ==
  /\ main \in MainPC /\ connect \in ConnectPC /\ send \in SendPC /\ audio \in AudioPC
  /\ reconnect \in [ReconnectThreads -> ReconnectPC]
  /\ joined \in ReconnectThreads \union {NoThread}
  /\ state \in States /\ capture \in {"never", "on", "ended"}

FlagsTyped ==
  /\ wasError \in BOOLEAN /\ inStop \in BOOLEAN /\ shout \in BOOLEAN /\ bare \in BOOLEAN
  /\ encoder \in BOOLEAN /\ bufData \in BOOLEAN /\ sendRunning \in BOOLEAN
  /\ reconnectActive \in BOOLEAN /\ reconnectRunning \in BOOLEAN

CountsTyped ==
  queued \in 0..RingCapacity /\ attempts \in 0..AttemptCap /\ connections \in Nat

JobTyped ==
  job \in [mem : {"none", "live", "freed"}, field : BOOLEAN, canceled : BOOLEAN,
           completed : BOOLEAN, refs : 0..2, dropField : BOOLEAN]

\* The connect thread finishes a start: it holds job->mutex and the job is still
\* the context's.
Completing == {"publish", "beginCapture", "initBuf", "spawnSend", "startup", "detach",
               "endCapture", "closeShout", "lockEncoder", "dropEncoder", "setError",
               "detachFailed"}

\* The reference that started in context->connect_job, and the thread's own.
FieldRef == job.field \/ main \in {"cancelJob", "releaseJob"} \/ job.dropField
OwnRef == connect \notin {"none", "done"}
RefsCounted ==
  job.refs = (IF FieldRef THEN 1 ELSE 0) + (IF OwnRef THEN 1 ELSE 0)

\* The first is dropped once: by the teardown that takes the job or by the connect
\* thread that detaches it.
OneHolder ==
  /\ job.field => main \in {"running", "entry", "takeJob", "drain"}
  /\ job.dropField => /\ ~job.field
                      /\ main \notin {"cancelJob", "releaseJob"}
                      /\ connect \in {"signal", "unlock", "releaseField"}
  /\ connect = "releaseField" => job.dropField

NotStarted == main = "created" => connect = "none" /\ job = NoJob

\* In state DISCONNECTED a teardown returns at once: there is no job to cancel.
NothingToCancel ==
  state = "DISCONNECTED" =>
    main \in {"created", "running", "entry", "drain", "free", "freed"} /\ ~job.field

\* A connect thread that will complete a start can still be cancelled.
Cancellable ==
  /\ connect = "opening" => job.field \/ main = "cancelJob" \/ job.canceled
  /\ connect \in Completing => job.field \/ main = "cancelJob"
  /\ job.canceled => ~HoldsJobMutex
  /\ main = "releaseJob" => job.canceled

ControlInv == RefsCounted /\ OneHolder /\ NotStarted /\ NothingToCancel /\ Cancellable

\* What the connect thread has built, and when it is still there.
BuiltByConnect ==
  /\ bufData => connect \in {"spawnSend", "startup", "detach", "unlock",
                             "releaseField", "releaseOwn", "done"}
  /\ send # "none" => connect \in {"startup", "detach", "unlock",
                                   "releaseField", "releaseOwn", "done"}
  /\ bufData /\ connect # "spawnSend" => send # "none"
  /\ connect \in {"spawnSend", "startup", "detach"} => bufData /\ sendRunning

\* What the teardown has dismantled.
Dismantled == {"lockEncoder", "flush", "closeShout", "setDisconnected", "free", "freed"}
DismantledByMain ==
  /\ SendAlive => bufData
  /\ main \in {"wakeSend", "joinSend", "freeBuf"} => bufData
  /\ main = "freeBuf" => ~SendAlive
  /\ main \in Dismantled \/ state = "DISCONNECTED" => ~bufData

\* reconnect_start before the new thread is there.
Restarting == {"checkActive", "stopOld", "join", "clearActive", "setReconnecting",
               "setRunning", "spawn"}

\* reconnect_cancel of an output that has reconnected.
Cancelling == {"stopReconnect", "readThread", "joinReconnect", "clearActive"}

\* Only a sender starts a reconnect, and only where it is enabled.
ReconnectBySender ==
  /\ \A t \in ReconnectThreads : reconnect[t] # "none" => send # "none"
  /\ reconnectActive \/ main \in Cancelling => send # "none"
  /\ ReconnectEnabled \/
       /\ \A t \in ReconnectThreads : reconnect[t] = "none"
       /\ ~reconnectActive
       /\ send \notin Restarting \union {"setActive"}
       /\ main \notin Cancelling

BufferInv == BuiltByConnect /\ DismantledByMain /\ ReconnectBySender

\* A reconnect thread that has not brought back the link, nor said that it gave up.
Seeking(t) == reconnect[t] \in {"sleep", "open", "checkEncoder", "lockEncoder", "reinit",
                                "publish", "setError"}
Opened(t) == reconnect[t] \in {"checkEncoder", "lockEncoder", "reinit", "publish"}

\* There is at most one link, or one actor after it.
OneLink ==
  /\ connections = IF \/ shout \/ connect = "publish"
                      \/ \E t \in ReconnectThreads : Opened(t) THEN 1 ELSE 0
  /\ \A t \in ReconnectThreads : Seeking(t) => ~shout /\ send \notin Restarting
  /\ \A t, u \in ReconnectThreads : Seeking(t) /\ Seeking(u) => t = u
  /\ send \in Restarting => ~shout
  /\ send = "sending" => shout

\* The handle and the state, seen from the connect thread.
LinkOfConnect ==
  /\ connect \in {"none", "opening", "publish", "lockEncoder", "dropEncoder", "setError",
                  "detachFailed"} => ~shout
  /\ connect \in {"beginCapture", "initBuf", "spawnSend", "endCapture", "closeShout"} =>
       shout /\ state = "CONNECTED"
  /\ main = "created" => state = "DISCONNECTED"
  /\ connect = "opening" => state = "CONNECTING" \/ job.canceled
  /\ connect = "publish" => state = "CONNECTING"
  /\ connect \in {"lockEncoder", "dropEncoder", "setError"} =>
       state \in {"CONNECTING", "CONNECTED"}
  /\ state = "CONNECTING" => ~shout /\ send = "none"

LinkInv == OneLink /\ LinkOfConnect

\* Before the user's Stop or release.
Unstopped == main \in {"created", "running"}

\* No thread will leave ERROR, or bring a link back.
ErrorIsFinal ==
  /\ state = "ERROR"
  /\ ~shout
  /\ connect \notin {"opening", "publish", "beginCapture", "initBuf", "spawnSend",
                     "endCapture", "closeShout"}
  /\ send \notin Restarting
  /\ \A t \in ReconnectThreads : ~Seeking(t) /\ reconnect[t] # "setConnected"

\* One reconnect thread, which the next reconnect_start will find and join.
OneReconnectThread ==
  /\ \A t \in ReconnectThreads : Alive(t) =>
       /\ t = "current"
       /\ reconnectActive \/ send = "setActive"
       /\ send \notin {"clearActive", "setReconnecting", "setRunning", "spawn",
                       "setError", "signal"}
  /\ \A t \in ReconnectThreads : Seeking(t) => reconnectRunning
  /\ send = "spawn" => reconnectRunning

StateCorrected ==
  /\ \A t \in ReconnectThreads :
       /\ reconnect[t] = "setConnected" =>
            shout \/ send \in {"checkActive", "stopOld", "join"}
       /\ reconnect[t] = "signal" => state = "ERROR"
  /\ send = "setError" => ~shout
  /\ state = "ERROR" => ErrorIsFinal
  /\ state = "CONNECTED" /\ ~shout =>
         \/ send \in {"setError", "checkActive", "stopOld", "join", "clearActive",
                     "setReconnecting"}
         \/ connect \in {"lockEncoder", "dropEncoder", "setError"}
  /\ state = "RECONNECTING" => ReconnectAlive \/ send \in {"setRunning", "spawn", "setError"}

AttemptsCounted ==
  /\ state # "ERROR" /\ ~ReconnectAlive => attempts = 0
  /\ MaxRetries > 0 => attempts <= MaxRetries
  /\ \A t \in ReconnectThreads :
       /\ reconnect[t] = "sleep" /\ MaxRetries > 0 => attempts < MaxRetries
       /\ reconnect[t] \in {"setError", "signal"} => attempts = MaxRetries

\* The encoder is there for the header pages of a link that comes back.
HeadersCanBeSent ==
  /\ send # "none" \/ connect \in {"opening", "publish", "beginCapture", "initBuf",
                                   "spawnSend"} => encoder
  /\ bare => \E t \in ReconnectThreads :
               reconnect[t] \in {"checkEncoder", "lockEncoder", "reinit"}

UnstoppedInv ==
  Unstopped => OneReconnectThread /\ StateCorrected /\ AttemptsCounted /\ HeadersCanBeSent

\* Without a reconnect a lost or closed handle stays so.
PlainInv ==
  ReconnectEnabled \/
    /\ shout => state = "CONNECTED"
    /\ send = "setError" => ~shout /\ state = "CONNECTED"
    /\ main \in {"setDisconnected", "free", "freed"} \/ state = "DISCONNECTED" => ~shout

IInv == /\ TypeOK /\ ControlInv /\ BufferInv /\ LinkInv /\ UnstoppedInv /\ PlainInv
        /\ EncoderExclusive /\ NoLostWakeup

-----------------------------------------------------------------------------
\* The type invariant is its four parts.
LEMMA TypeParts == TypeOK <=> ThreadsTyped /\ FlagsTyped /\ CountsTyped /\ JobTyped
BY DEF TypeOK, ThreadsTyped, FlagsTyped, CountsTyped, JobTyped

\* Every thread stays in its program.
LEMMA ThreadsTypedNext ==
  ASSUME ThreadsTyped, Next
  PROVE  ThreadsTyped'
<1> USE DEF mainLocals, mainVars, connectVars, linkVars, bufVars, retryVars,
    ThreadsTyped, MainPC, ConnectPC, SendPC, ReconnectPC, ReconnectThreads, NoThread,
    AudioPC, States, AfterTeardown, Woken, Ended, InUse, Alive
<1>1. CASE Start \/ StartFails \/ StartSpawnFails \/ Stop \/ Destroy \/ TeardownStep
  BY <1>1 DEF TeardownStep, Start, StartFails, StartSpawnFails, Stop, Destroy,
      TeardownEntry, TakeJob, CancelJob, ReleaseJob, EndCapture, CancelReconnect,
      StopReconnect, ReadThread, JoinReconnect, ClearActive, StopSend, WakeSend,
      JoinSend, FreeBuf, LockEncoder, FlushEncoder, CloseShout, SetDisconnected, Free,
      ReconnectTo, MainOnly
<1>2. CASE OpenSucceeds \/ OpenFails \/ ConnectStep
  BY <1>2 DEF ConnectStep, OpenSucceeds, OpenFails, Publish, BeginCapture, InitBuf,
      SpawnSend, SpawnSendFails, PushStartup, ConnectEndCapture, ConnectCloseShout,
      ConnectLockEncoder, ConnectDropEncoder, ConnectSetError, DetachJob,
      SignalConnectFailed, CompleteJob, ReleaseConnect
<1>3. CASE SendStep \/ SpuriousWakeup
  BY <1>3 DEF SendStep, SendLock, SpuriousWakeup, SendBegin, SendSucceeds, SendFails,
      SendSetError, SendSignal, StartCheckActive, StartStopOld, StartJoin,
      StartClearActive, StartSetReconnecting, StartSetRunning, StartSpawn,
      StartReconnectSpawnFails, StartSetActive, SendAt, ReconnectTo
<1>4. ASSUME NEW t \in ReconnectThreads, ReconnectStep(t)
      PROVE  ThreadsTyped'
  BY <1>4 DEF ReconnectStep, ReconnectWakes, ReopenSucceeds, ReopenFails,
      ReconnectCheckEncoder, ReconnectLockEncoder, ReconnectReinit, ReconnectPublish,
      ReconnectSetConnected, ReconnectSetError, ReconnectSignal, ReconnectAt,
      ReconnectTo, ReconnectOnly
<1>5. CASE AudioCallback \/ AudioReturns
  BY <1>5 DEF AudioReturns, AudioCallback, AudioTry, AudioEncode, 
      AudioPush, AudioPushLocked, AudioAt, AudioOnly
<1>6. CASE Gone
  BY <1>6 DEF Gone, vars
<1>7. QED
  BY <1>1, <1>2, <1>3, <1>4, <1>5, <1>6 DEF Next

\* The flags stay flags.
LEMMA FlagsTypedNext ==
  ASSUME FlagsTyped, Next
  PROVE  FlagsTyped'
<1> USE SettingsAssumption DEF mainLocals, mainVars, connectVars, linkVars, bufVars,
    retryVars, FlagsTyped
<1>1. CASE Start
  BY <1>1 DEF Start
<1>2. CASE Stop
  BY <1>2 DEF Stop
<1>3. CASE TeardownEntry
  BY <1>3 DEF TeardownEntry
<1>4. CASE StopReconnect
  BY <1>4 DEF StopReconnect
<1>5. CASE ClearActive
  BY <1>5 DEF ClearActive
<1>6. CASE StopSend
  BY <1>6 DEF StopSend
<1>7. CASE FreeBuf
  BY <1>7 DEF FreeBuf
<1>8. CASE FlushEncoder
  BY <1>8 DEF FlushEncoder
<1>9. CASE CloseShout
  BY <1>9 DEF CloseShout
<1>10. CASE SetDisconnected
  BY <1>10 DEF SetDisconnected
<1>11. CASE StartFails \/ StartSpawnFails \/ Destroy \/ TakeJob \/ CancelJob \/
    ReleaseJob \/ EndCapture \/ CancelReconnect \/ ReadThread \/ JoinReconnect \/
    WakeSend \/ JoinSend \/ LockEncoder \/ Free
  BY <1>11 DEF StartFails, StartSpawnFails, Destroy, TakeJob, CancelJob, ReleaseJob,
      EndCapture, CancelReconnect, ReadThread, JoinReconnect, WakeSend, JoinSend,
      LockEncoder, Free, ReconnectTo,
      MainOnly
<1>12. CASE Publish
  BY <1>12 DEF Publish
<1>13. CASE InitBuf
  BY <1>13 DEF InitBuf
<1>14. CASE SpawnSendFails
  BY <1>14 DEF SpawnSendFails
<1>15. CASE ConnectCloseShout
  BY <1>15 DEF ConnectCloseShout
<1>16. CASE ConnectDropEncoder
  BY <1>16 DEF ConnectDropEncoder
<1>17. CASE OpenSucceeds \/ OpenFails \/ BeginCapture \/ SpawnSend \/ PushStartup \/
    ConnectEndCapture \/ ConnectLockEncoder \/ ConnectSetError \/ DetachJob \/
    SignalConnectFailed \/ CompleteJob \/ ReleaseConnect
  BY <1>17 DEF OpenSucceeds, OpenFails, BeginCapture, SpawnSend, PushStartup,
      ConnectEndCapture, ConnectLockEncoder, ConnectSetError, DetachJob,
      SignalConnectFailed, CompleteJob, ReleaseConnect
<1>18. CASE SendFails
  BY <1>18 DEF SendFails, SendAt
<1>19. CASE StartStopOld
  BY <1>19 DEF StartStopOld, SendAt
<1>20. CASE StartClearActive
  BY <1>20 DEF StartClearActive, SendAt
<1>21. CASE StartSetRunning
  BY <1>21 DEF StartSetRunning, SendAt
<1>22. CASE StartReconnectSpawnFails
  BY <1>22 DEF StartReconnectSpawnFails, SendAt
<1>23. CASE StartSetActive
  BY <1>23 DEF StartSetActive, SendAt
<1>24. CASE SendLock \/ SpuriousWakeup \/ SendBegin \/ SendSucceeds \/ SendSetError \/
    SendSignal \/ StartCheckActive \/ StartJoin \/ StartSetReconnecting \/ StartSpawn
  BY <1>24 DEF SendLock, SpuriousWakeup, SendBegin, SendSucceeds, SendSetError,
      SendSignal, StartCheckActive, StartStopOld, StartJoin, StartSetReconnecting,
      StartSpawn, SendAt, ReconnectTo
<1>25. ASSUME NEW t \in ReconnectThreads, ReopenSucceeds(t)
      PROVE  FlagsTyped'
  BY <1>25 DEF ReopenSucceeds, ReconnectAt, ReconnectTo
<1>26. ASSUME NEW t \in ReconnectThreads, ReconnectReinit(t)
      PROVE  FlagsTyped'
  BY <1>26 DEF ReconnectReinit, ReconnectAt, ReconnectTo
<1>27. ASSUME NEW t \in ReconnectThreads, ReconnectPublish(t)
      PROVE  FlagsTyped'
  BY <1>27 DEF ReconnectPublish, ReconnectAt, ReconnectTo
<1>28. ASSUME NEW t \in ReconnectThreads, ReconnectWakes(t) \/ ReopenFails(t) \/
    ReconnectCheckEncoder(t) \/ ReconnectLockEncoder(t) \/ ReconnectSetConnected(t) \/
    ReconnectSetError(t) \/ ReconnectSignal(t)
      PROVE  FlagsTyped'
  BY <1>28 DEF ReconnectWakes, ReopenFails, ReconnectCheckEncoder, ReconnectLockEncoder,
      ReconnectSetConnected, ReconnectSetError, ReconnectSignal, ReconnectAt,
      ReconnectTo, ReconnectOnly
<1>29. CASE AudioCallback \/ AudioReturns
  BY <1>29 DEF AudioReturns, AudioCallback, AudioTry, AudioEncode, 
      AudioPush, AudioPushLocked, AudioAt, AudioOnly
<1>30. CASE Gone
  BY <1>30 DEF Gone, vars
<1>31. QED
  BY <1>1, <1>2, <1>3, <1>4, <1>5, <1>6, <1>7, <1>8, <1>9, <1>10, <1>11, <1>12, <1>13,
      <1>14, <1>15, <1>16, <1>17, <1>18, <1>19, <1>20, <1>21, <1>22, <1>23, <1>24,
      <1>25, <1>26, <1>27, <1>28, <1>29, <1>30 DEF Next, TeardownStep, ConnectStep,
      SendStep, ReconnectStep

\* The counters stay within their bounds: LinkInv keeps a connection from being closed
\* twice.
LEMMA CountsTypedNext ==
  ASSUME CountsTyped, LinkInv', Next
  PROVE  CountsTyped'
<1> USE SettingsAssumption DEF mainLocals, mainVars, connectVars, linkVars, bufVars,
    retryVars, CountsTyped, LinkInv, OneLink, Pushed
<1>1. CASE FreeBuf
  BY <1>1 DEF FreeBuf
<1>2. CASE CloseShout
  BY <1>2 DEF CloseShout
<1>3. CASE Start \/ StartFails \/ StartSpawnFails \/ Stop \/ Destroy \/ TeardownEntry
    \/ TakeJob \/ CancelJob \/ ReleaseJob \/ EndCapture \/ CancelReconnect \/
    StopReconnect \/ ReadThread \/ JoinReconnect \/ ClearActive \/ StopSend \/
    WakeSend \/ JoinSend \/ LockEncoder \/ FlushEncoder \/ SetDisconnected \/ Free
  BY <1>3 DEF Start, StartFails, StartSpawnFails, Stop, Destroy, TeardownEntry, TakeJob,
      CancelJob, ReleaseJob, EndCapture, CancelReconnect, StopReconnect, ReadThread,
      JoinReconnect, ClearActive, StopSend, WakeSend, JoinSend, LockEncoder,
      FlushEncoder, SetDisconnected, Free, ReconnectTo, MainOnly
<1>4. CASE OpenSucceeds
  BY <1>4 DEF OpenSucceeds
<1>5. CASE Publish
  BY <1>5 DEF Publish
<1>6. CASE SpawnSendFails
  BY <1>6 DEF SpawnSendFails
<1>7. CASE PushStartup
  BY <1>7 DEF PushStartup
<1>8. CASE ConnectCloseShout
  BY <1>8 DEF ConnectCloseShout
<1>9. CASE OpenFails \/ BeginCapture \/ InitBuf \/ SpawnSend \/ ConnectEndCapture \/
    ConnectLockEncoder \/ ConnectDropEncoder \/ ConnectSetError \/ DetachJob \/
    SignalConnectFailed \/ CompleteJob \/ ReleaseConnect
  BY <1>9 DEF OpenFails, BeginCapture, InitBuf, SpawnSend, ConnectEndCapture,
      ConnectLockEncoder, ConnectDropEncoder, ConnectSetError, DetachJob,
      SignalConnectFailed, CompleteJob, ReleaseConnect
<1>10. CASE SendStep \/ SpuriousWakeup
  BY <1>10 DEF SendStep, SendLock, SpuriousWakeup, SendBegin, SendSucceeds, SendFails,
      SendSetError, SendSignal, StartCheckActive, StartStopOld, StartJoin,
      StartClearActive, StartSetReconnecting, StartSetRunning, StartSpawn,
      StartReconnectSpawnFails, StartSetActive, SendAt, ReconnectTo
<1>11. ASSUME NEW t \in ReconnectThreads, ReconnectStep(t)
      PROVE  CountsTyped'
  BY <1>11 DEF ReconnectStep, ReconnectWakes, ReopenSucceeds, ReopenFails,
      ReconnectCheckEncoder, ReconnectLockEncoder, ReconnectReinit, ReconnectPublish,
      ReconnectSetConnected, ReconnectSetError, ReconnectSignal, ReconnectAt,
      ReconnectTo, ReconnectOnly
<1>12. CASE AudioCallback \/ AudioReturns
  BY <1>12 DEF AudioReturns, AudioCallback, AudioTry, AudioEncode, 
      AudioPush, AudioPushLocked, AudioAt, AudioOnly
<1>13. CASE Gone
  BY <1>13 DEF Gone, vars
<1>14. QED
  BY <1>1, <1>2, <1>3, <1>4, <1>5, <1>6, <1>7, <1>8, <1>9, <1>10, <1>11, <1>12, <1>13
      DEF Next, TeardownStep, ConnectStep

\* The job keeps its shape: RefsCounted keeps its count of references at two at most.
LEMMA JobTypedNext ==
  ASSUME JobTyped, ControlInv', Next
  PROVE  JobTyped'
<1> USE DEF mainLocals, mainVars, connectVars, linkVars, bufVars, retryVars, JobTyped
<1>0. job'.refs \in 0..2
  BY DEF ControlInv, RefsCounted
<1>1. CASE Start
  <2>1. job' = [mem |-> "live", field |-> TRUE, canceled |-> FALSE, completed |-> FALSE,
                refs |-> 2, dropField |-> FALSE]
    BY <1>1 DEF Start, NoJob
  <2>2. QED BY <2>1
<1>2. CASE StartSpawnFails
  <2>1. job' = [mem |-> "freed", field |-> FALSE, canceled |-> FALSE, completed |-> FALSE,
                refs |-> 0, dropField |-> FALSE]
    BY <1>2 DEF StartSpawnFails, NoJob
  <2>2. QED BY <2>1
<1>3. CASE TakeJob
  BY <1>3 DEF TakeJob
<1>4. CASE CancelJob
  BY <1>4 DEF CancelJob
<1>5. CASE ReleaseJob
  BY <1>5, <1>0 DEF ReleaseJob, Released
<1>6. CASE StartFails \/ Stop \/ Destroy \/ TeardownEntry \/ EndCapture \/
    CancelReconnect \/ StopReconnect \/ ReadThread \/ JoinReconnect \/ ClearActive \/
    StopSend \/ WakeSend \/ JoinSend \/ FreeBuf \/ LockEncoder \/ FlushEncoder \/
    CloseShout \/ SetDisconnected \/ Free
  BY <1>6 DEF StartFails, Stop, Destroy, TeardownEntry, EndCapture, CancelReconnect,
      StopReconnect, ReadThread, JoinReconnect, ClearActive, StopSend, WakeSend,
      JoinSend, FreeBuf, LockEncoder, FlushEncoder, CloseShout, SetDisconnected, Free,
      ReconnectTo, MainOnly
<1>7. CASE DetachJob
  BY <1>7 DEF DetachJob
<1>8. CASE CompleteJob
  BY <1>8 DEF CompleteJob
<1>9. CASE ReleaseConnect
  BY <1>9, <1>0 DEF ReleaseConnect, Released
<1>10. CASE OpenSucceeds \/ OpenFails \/ Publish \/ BeginCapture \/ InitBuf \/ SpawnSend
    \/ SpawnSendFails \/ PushStartup \/ ConnectEndCapture \/ ConnectCloseShout \/
    ConnectLockEncoder \/ ConnectDropEncoder \/ ConnectSetError \/ SignalConnectFailed
  BY <1>10 DEF OpenSucceeds, OpenFails, Publish, BeginCapture, InitBuf, SpawnSend,
      SpawnSendFails, PushStartup, ConnectEndCapture, ConnectCloseShout,
      ConnectLockEncoder, ConnectDropEncoder, ConnectSetError, SignalConnectFailed
<1>11. CASE SendStep \/ SpuriousWakeup
  BY <1>11 DEF SendStep, SendLock, SpuriousWakeup, SendBegin, SendSucceeds, SendFails,
      SendSetError, SendSignal, StartCheckActive, StartStopOld, StartJoin,
      StartClearActive, StartSetReconnecting, StartSetRunning, StartSpawn,
      StartReconnectSpawnFails, StartSetActive, SendAt, ReconnectTo
<1>12. ASSUME NEW t \in ReconnectThreads, ReconnectStep(t)
      PROVE  JobTyped'
  BY <1>12 DEF ReconnectStep, ReconnectWakes, ReopenSucceeds, ReopenFails,
      ReconnectCheckEncoder, ReconnectLockEncoder, ReconnectReinit, ReconnectPublish,
      ReconnectSetConnected, ReconnectSetError, ReconnectSignal, ReconnectAt,
      ReconnectTo, ReconnectOnly
<1>13. CASE AudioCallback \/ AudioReturns
  BY <1>13 DEF AudioReturns, AudioCallback, AudioTry, AudioEncode, 
      AudioPush, AudioPushLocked, AudioAt, AudioOnly
<1>14. CASE Gone
  BY <1>14 DEF Gone, vars
<1>15. QED
  BY <1>1, <1>2, <1>3, <1>4, <1>5, <1>6, <1>7, <1>8, <1>9, <1>10, <1>11, <1>12, <1>13,
      <1>14 DEF Next, TeardownStep, ConnectStep

\* Who holds the job: only main and the connect thread matter.
LEMMA ControlNext ==
  ASSUME TypeOK, ControlInv, Next
  PROVE  ControlInv'
<1> USE DEF mainLocals, mainVars, connectVars, linkVars, bufVars, retryVars, TypeOK,
    MainPC, ConnectPC, SendPC, ReconnectPC, ReconnectThreads, AudioPC, States,
    ControlInv, RefsCounted, OneHolder, NotStarted, NothingToCancel, Cancellable,
    FieldRef, OwnRef, Completing, HoldsJobMutex, NoJob, Released, AfterTeardown
<1>1. CASE Start
  BY <1>1 DEF Start
<1>2. CASE StartFails
  BY <1>2 DEF StartFails
<1>3. CASE StartSpawnFails
  BY <1>3 DEF StartSpawnFails
<1>4. CASE Stop
  BY <1>4 DEF Stop
<1>5. CASE Destroy
  BY <1>5 DEF Destroy
<1>6. CASE TeardownEntry
  BY <1>6 DEF TeardownEntry
<1>7. CASE TakeJob
  BY <1>7 DEF TakeJob
<1>8. CASE CancelJob
  BY <1>8 DEF CancelJob
<1>9. CASE ReleaseJob
  BY <1>9 DEF ReleaseJob
<1>10. CASE EndCapture
  BY <1>10 DEF EndCapture
<1>11. CASE CancelReconnect \/ StopReconnect \/ ReadThread
  BY <1>11 DEF CancelReconnect, StopReconnect, ReadThread, MainOnly
<1>12. CASE JoinReconnect
  BY <1>12 DEF JoinReconnect, ReconnectTo
<1>13. CASE ClearActive
  BY <1>13 DEF ClearActive
<1>14. CASE StopSend
  BY <1>14 DEF StopSend
<1>15. CASE WakeSend
  BY <1>15 DEF WakeSend
<1>16. CASE JoinSend
  BY <1>16 DEF JoinSend
<1>17. CASE FreeBuf
  BY <1>17 DEF FreeBuf
<1>18. CASE LockEncoder
  BY <1>18 DEF LockEncoder, MainOnly
<1>19. CASE FlushEncoder
  BY <1>19 DEF FlushEncoder
<1>20. CASE CloseShout
  BY <1>20 DEF CloseShout
<1>21. CASE SetDisconnected
  BY <1>21 DEF SetDisconnected
<1>22. CASE Free
  BY <1>22 DEF Free, MainOnly
<1>23. CASE OpenSucceeds
  BY <1>23 DEF OpenSucceeds
<1>24. CASE OpenFails
  BY <1>24 DEF OpenFails
<1>25. CASE Publish
  BY <1>25 DEF Publish
<1>26. CASE BeginCapture
  BY <1>26 DEF BeginCapture
<1>27. CASE InitBuf
  BY <1>27 DEF InitBuf
<1>28. CASE SpawnSend
  BY <1>28 DEF SpawnSend
<1>29. CASE SpawnSendFails
  BY <1>29 DEF SpawnSendFails
<1>30. CASE PushStartup
  BY <1>30 DEF PushStartup
<1>31. CASE ConnectEndCapture
  BY <1>31 DEF ConnectEndCapture
<1>32. CASE ConnectCloseShout
  BY <1>32 DEF ConnectCloseShout
<1>33. CASE ConnectLockEncoder
  BY <1>33 DEF ConnectLockEncoder
<1>34. CASE ConnectDropEncoder
  BY <1>34 DEF ConnectDropEncoder
<1>35. CASE ConnectSetError
  BY <1>35 DEF ConnectSetError
<1>36. CASE DetachJob
  BY <1>36 DEF DetachJob
<1>37. CASE SignalConnectFailed
  BY <1>37 DEF SignalConnectFailed
<1>38. CASE CompleteJob
  BY <1>38 DEF CompleteJob
<1>39. CASE ReleaseConnect
  BY <1>39 DEF ReleaseConnect
<1>40. CASE SendStep \/ SpuriousWakeup
  BY <1>40 DEF SendStep, SendLock, SpuriousWakeup, SendBegin, SendSucceeds, SendFails,
      SendSetError, SendSignal, StartCheckActive, StartStopOld, StartJoin,
      StartClearActive, StartSetReconnecting, StartSetRunning, StartSpawn,
      StartReconnectSpawnFails, StartSetActive, SendAt, ReconnectTo
<1>41. ASSUME NEW t \in ReconnectThreads, ReconnectStep(t)
      PROVE  ControlInv'
  BY <1>41 DEF ReconnectStep, ReconnectWakes, ReopenSucceeds, ReopenFails,
      ReconnectCheckEncoder, ReconnectLockEncoder, ReconnectReinit, ReconnectPublish,
      ReconnectSetConnected, ReconnectSetError, ReconnectSignal, ReconnectAt,
      ReconnectTo, ReconnectOnly
<1>42. CASE AudioCallback \/ AudioReturns
  BY <1>42 DEF AudioReturns, AudioCallback, AudioTry, AudioEncode, 
      AudioPush, AudioPushLocked, AudioAt, AudioOnly
<1>43. CASE Gone
  BY <1>43 DEF Gone, vars
<1>44. QED
  BY <1>1, <1>2, <1>3, <1>4, <1>5, <1>6, <1>7, <1>8, <1>9, <1>10, <1>11, <1>12, <1>13,
      <1>14, <1>15, <1>16, <1>17, <1>18, <1>19, <1>20, <1>21, <1>22, <1>23, <1>24,
      <1>25, <1>26, <1>27, <1>28, <1>29, <1>30, <1>31, <1>32, <1>33, <1>34, <1>35,
      <1>36, <1>37, <1>38, <1>39, <1>40, <1>41, <1>42, <1>43 DEF Next, TeardownStep,
      ConnectStep

\* What the connect thread builds outlives the threads that use it.
LEMMA BufferNext ==
  ASSUME TypeOK, ControlInv, BufferInv, Next
  PROVE  BufferInv'
<1> USE DEF mainLocals, mainVars, connectVars, linkVars, bufVars, retryVars, TypeOK,
    MainPC, ConnectPC, SendPC, ReconnectPC, ReconnectThreads, AudioPC, States,
    ControlInv, RefsCounted, OneHolder, NotStarted, NothingToCancel, Cancellable,
    FieldRef, OwnRef, Completing, HoldsJobMutex, NoJob, BufferInv, BuiltByConnect,
    DismantledByMain, ReconnectBySender, Dismantled, Restarting, Cancelling, SendAlive,
    Woken, Released, AfterTeardown, Allocated
<1>1. CASE Start
  BY <1>1 DEF Start
<1>2. CASE StartFails
  BY <1>2 DEF StartFails
<1>3. CASE StartSpawnFails
  BY <1>3 DEF StartSpawnFails
<1>4. CASE Stop
  BY <1>4 DEF Stop
<1>5. CASE Destroy
  BY <1>5 DEF Destroy
<1>6. CASE TeardownEntry
  BY <1>6 DEF TeardownEntry
<1>7. CASE TakeJob
  BY <1>7 DEF TakeJob
<1>8. CASE CancelJob
  BY <1>8 DEF CancelJob
<1>9. CASE ReleaseJob
  BY <1>9 DEF ReleaseJob
<1>10. CASE EndCapture
  BY <1>10 DEF EndCapture
<1>11. CASE CancelReconnect \/ StopReconnect \/ ReadThread
  BY <1>11 DEF CancelReconnect, StopReconnect, ReadThread, MainOnly
<1>12. CASE JoinReconnect
  BY <1>12 DEF JoinReconnect, ReconnectTo
<1>13. CASE ClearActive
  BY <1>13 DEF ClearActive
<1>14. CASE StopSend
  BY <1>14 DEF StopSend
<1>15. CASE WakeSend
  BY <1>15 DEF WakeSend
<1>16. CASE JoinSend
  BY <1>16 DEF JoinSend
<1>17. CASE FreeBuf
  BY <1>17 DEF FreeBuf
<1>18. CASE LockEncoder
  BY <1>18 DEF LockEncoder, MainOnly
<1>19. CASE FlushEncoder
  BY <1>19 DEF FlushEncoder
<1>20. CASE CloseShout
  BY <1>20 DEF CloseShout
<1>21. CASE SetDisconnected
  BY <1>21 DEF SetDisconnected
<1>22. CASE Free
  BY <1>22 DEF Free, MainOnly
<1>23. CASE OpenSucceeds
  BY <1>23 DEF OpenSucceeds
<1>24. CASE OpenFails
  BY <1>24 DEF OpenFails
<1>25. CASE Publish
  BY <1>25 DEF Publish
<1>26. CASE BeginCapture
  BY <1>26 DEF BeginCapture
<1>27. CASE InitBuf
  BY <1>27 DEF InitBuf
<1>28. CASE SpawnSend
  BY <1>28 DEF SpawnSend
<1>29. CASE SpawnSendFails
  BY <1>29 DEF SpawnSendFails
<1>30. CASE PushStartup
  BY <1>30 DEF PushStartup
<1>31. CASE ConnectEndCapture
  BY <1>31 DEF ConnectEndCapture
<1>32. CASE ConnectCloseShout
  BY <1>32 DEF ConnectCloseShout
<1>33. CASE ConnectLockEncoder
  BY <1>33 DEF ConnectLockEncoder
<1>34. CASE ConnectDropEncoder
  BY <1>34 DEF ConnectDropEncoder
<1>35. CASE ConnectSetError
  BY <1>35 DEF ConnectSetError
<1>36. CASE DetachJob
  BY <1>36 DEF DetachJob
<1>37. CASE SignalConnectFailed
  BY <1>37 DEF SignalConnectFailed
<1>38. CASE CompleteJob
  BY <1>38 DEF CompleteJob
<1>39. CASE ReleaseConnect
  BY <1>39 DEF ReleaseConnect
<1>40. CASE SendLock
  BY <1>40 DEF SendLock, SendAt
<1>41. CASE SpuriousWakeup
  BY <1>41 DEF SpuriousWakeup, SendAt
<1>42. CASE SendBegin
  BY <1>42 DEF SendBegin, SendAt
<1>43. CASE SendSucceeds
  BY <1>43 DEF SendSucceeds, SendAt
<1>44. CASE SendFails
  BY <1>44 DEF SendFails, SendAt
<1>45. CASE SendSetError
  BY <1>45 DEF SendSetError, SendAt
<1>46. CASE SendSignal
  BY <1>46 DEF SendSignal, SendAt
<1>47. CASE StartCheckActive \/ StartStopOld
  BY <1>47 DEF StartCheckActive, StartStopOld, SendAt
<1>48. CASE StartJoin
  BY <1>48 DEF StartJoin, SendAt, ReconnectTo
<1>49. CASE StartClearActive
  BY <1>49 DEF StartClearActive, SendAt
<1>50. CASE StartSetReconnecting
  BY <1>50 DEF StartSetReconnecting, SendAt
<1>51. CASE StartSetRunning
  BY <1>51 DEF StartSetRunning, SendAt
<1>52. CASE StartSpawn
  BY <1>52 DEF StartSpawn, SendAt
<1>53. CASE StartReconnectSpawnFails
  BY <1>53 DEF StartReconnectSpawnFails, SendAt
<1>54. CASE StartSetActive
  BY <1>54 DEF StartSetActive, SendAt
<1>55. ASSUME NEW t \in ReconnectThreads, ReconnectStep(t)
      PROVE  BufferInv'
  BY <1>55 DEF ReconnectStep, ReconnectWakes, ReopenSucceeds, ReopenFails,
      ReconnectCheckEncoder, ReconnectLockEncoder, ReconnectReinit, ReconnectPublish,
      ReconnectSetConnected, ReconnectSetError, ReconnectSignal, ReconnectAt,
      ReconnectTo, ReconnectOnly
<1>56. CASE AudioCallback \/ AudioReturns
  BY <1>56 DEF AudioReturns, AudioCallback, AudioTry, AudioEncode, 
      AudioPush, AudioPushLocked, AudioAt, AudioOnly
<1>57. CASE Gone
  BY <1>57 DEF Gone, vars
<1>58. QED
  BY <1>1, <1>2, <1>3, <1>4, <1>5, <1>6, <1>7, <1>8, <1>9, <1>10, <1>11, <1>12, <1>13,
      <1>14, <1>15, <1>16, <1>17, <1>18, <1>19, <1>20, <1>21, <1>22, <1>23, <1>24,
      <1>25, <1>26, <1>27, <1>28, <1>29, <1>30, <1>31, <1>32, <1>33, <1>34, <1>35,
      <1>36, <1>37, <1>38, <1>39, <1>40, <1>41, <1>42, <1>43, <1>44, <1>45, <1>46,
      <1>47, <1>48, <1>49, <1>50, <1>51, <1>52, <1>53, <1>54, <1>55, <1>56, <1>57 DEF
      Next, TeardownStep, ConnectStep, SendStep

\* The link stays a token.
LEMMA LinkNext ==
  ASSUME TypeOK, ControlInv, BufferInv, LinkInv, Next
  PROVE  LinkInv'
<1> USE DEF mainLocals, mainVars, connectVars, linkVars, bufVars, retryVars, TypeOK,
    MainPC, ConnectPC, SendPC, ReconnectPC, ReconnectThreads, AudioPC, States,
    ControlInv, RefsCounted, OneHolder, NotStarted, NothingToCancel, Cancellable,
    FieldRef, OwnRef, Completing, HoldsJobMutex, NoJob, BufferInv, BuiltByConnect,
    DismantledByMain, ReconnectBySender, Dismantled, Restarting, Cancelling, SendAlive,
    LinkInv, OneLink, LinkOfConnect, Seeking, Opened, Alive, Woken, Released,
    AfterTeardown, InUse
<1>1. CASE Start
  BY <1>1 DEF Start
<1>2. CASE StartSpawnFails
  BY <1>2 DEF StartSpawnFails
<1>3. CASE TakeJob
  BY <1>3 DEF TakeJob
<1>4. CASE CancelJob
  BY <1>4 DEF CancelJob
<1>5. CASE ReleaseJob
  BY <1>5 DEF ReleaseJob
<1>6. CASE JoinReconnect
  BY <1>6 DEF JoinReconnect, ReconnectTo
<1>7. CASE WakeSend
  BY <1>7 DEF WakeSend
<1>8. CASE JoinSend
  BY <1>8 DEF JoinSend
<1>9. CASE CloseShout
  BY <1>9 DEF CloseShout
<1>10. CASE SetDisconnected
  BY <1>10 DEF SetDisconnected
<1>11. CASE StartFails \/ Stop \/ Destroy \/ TeardownEntry \/ EndCapture \/
    CancelReconnect \/ StopReconnect \/ ReadThread \/ ClearActive \/ StopSend \/
    FreeBuf \/ LockEncoder \/ FlushEncoder \/ Free
  BY <1>11 DEF StartFails, Stop, Destroy, TeardownEntry, EndCapture, CancelReconnect,
      StopReconnect, ReadThread, ClearActive, StopSend, FreeBuf, LockEncoder,
      FlushEncoder, Free, MainOnly
<1>12. CASE OpenSucceeds
  BY <1>12 DEF OpenSucceeds
<1>13. CASE OpenFails
  BY <1>13 DEF OpenFails
<1>14. CASE Publish
  BY <1>14 DEF Publish
<1>15. CASE BeginCapture
  BY <1>15 DEF BeginCapture
<1>16. CASE InitBuf
  BY <1>16 DEF InitBuf
<1>17. CASE SpawnSend
  BY <1>17 DEF SpawnSend
<1>18. CASE SpawnSendFails
  BY <1>18 DEF SpawnSendFails
<1>19. CASE PushStartup
  BY <1>19 DEF PushStartup
<1>20. CASE ConnectEndCapture
  BY <1>20 DEF ConnectEndCapture
<1>21. CASE ConnectCloseShout
  BY <1>21 DEF ConnectCloseShout
<1>22. CASE ConnectLockEncoder
  BY <1>22 DEF ConnectLockEncoder
<1>23. CASE ConnectDropEncoder
  BY <1>23 DEF ConnectDropEncoder
<1>24. CASE ConnectSetError
  BY <1>24 DEF ConnectSetError
<1>25. CASE DetachJob
  BY <1>25 DEF DetachJob
<1>26. CASE SignalConnectFailed
  BY <1>26 DEF SignalConnectFailed
<1>27. CASE CompleteJob
  BY <1>27 DEF CompleteJob
<1>28. CASE ReleaseConnect
  BY <1>28 DEF ReleaseConnect
<1>29. CASE SendLock
  BY <1>29 DEF SendLock, SendAt
<1>30. CASE SpuriousWakeup
  BY <1>30 DEF SpuriousWakeup, SendAt
<1>31. CASE SendBegin
  BY <1>31 DEF SendBegin, SendAt
<1>32. CASE SendSucceeds
  BY <1>32 DEF SendSucceeds, SendAt
<1>33. CASE SendFails
  BY <1>33 DEF SendFails, SendAt
<1>34. CASE SendSetError
  BY <1>34 DEF SendSetError, SendAt
<1>35. CASE SendSignal
  BY <1>35 DEF SendSignal, SendAt
<1>36. CASE StartCheckActive \/ StartStopOld
  BY <1>36 DEF StartCheckActive, StartStopOld, SendAt
<1>37. CASE StartJoin
  BY <1>37 DEF StartJoin, SendAt, ReconnectTo
<1>38. CASE StartClearActive
  BY <1>38 DEF StartClearActive, SendAt
<1>39. CASE StartSetReconnecting
  BY <1>39 DEF StartSetReconnecting, SendAt
<1>40. CASE StartSetRunning
  BY <1>40 DEF StartSetRunning, SendAt
<1>41. CASE StartSpawn
  BY <1>41 DEF StartSpawn, SendAt
<1>42. CASE StartReconnectSpawnFails
  BY <1>42 DEF StartReconnectSpawnFails, SendAt
<1>43. CASE StartSetActive
  BY <1>43 DEF StartSetActive, SendAt
<1>44. ASSUME NEW t \in ReconnectThreads, ReconnectWakes(t)
      PROVE  LinkInv'
  BY <1>44 DEF ReconnectWakes, ReconnectAt, ReconnectTo
<1>45. ASSUME NEW t \in ReconnectThreads, ReopenSucceeds(t)
      PROVE  LinkInv'
  BY <1>45 DEF ReopenSucceeds, ReconnectAt, ReconnectTo
<1>46. ASSUME NEW t \in ReconnectThreads, ReopenFails(t)
      PROVE  LinkInv'
  BY <1>46 DEF ReopenFails, ReconnectAt, ReconnectTo, ReconnectOnly
<1>47. ASSUME NEW t \in ReconnectThreads, ReconnectCheckEncoder(t)
      PROVE  LinkInv'
  BY <1>47 DEF ReconnectCheckEncoder, ReconnectAt, ReconnectTo, ReconnectOnly
<1>48. ASSUME NEW t \in ReconnectThreads, ReconnectLockEncoder(t)
      PROVE  LinkInv'
  BY <1>48 DEF ReconnectLockEncoder, ReconnectAt, ReconnectTo, ReconnectOnly
<1>49. ASSUME NEW t \in ReconnectThreads, ReconnectReinit(t)
      PROVE  LinkInv'
  BY <1>49 DEF ReconnectReinit, ReconnectAt, ReconnectTo
<1>50. ASSUME NEW t \in ReconnectThreads, ReconnectPublish(t)
      PROVE  LinkInv'
  BY <1>50 DEF ReconnectPublish, ReconnectAt, ReconnectTo
<1>51. ASSUME NEW t \in ReconnectThreads, ReconnectSetConnected(t)
      PROVE  LinkInv'
  BY <1>51 DEF ReconnectSetConnected, ReconnectAt, ReconnectTo
<1>52. ASSUME NEW t \in ReconnectThreads, ReconnectSetError(t)
      PROVE  LinkInv'
  BY <1>52 DEF ReconnectSetError, ReconnectAt, ReconnectTo
<1>53. ASSUME NEW t \in ReconnectThreads, ReconnectSignal(t)
      PROVE  LinkInv'
  BY <1>53 DEF ReconnectSignal, ReconnectAt, ReconnectTo
<1>54. CASE AudioCallback \/ AudioReturns
  BY <1>54 DEF AudioReturns, AudioCallback, AudioTry, AudioEncode, 
      AudioPush, AudioPushLocked, AudioAt, AudioOnly
<1>55. CASE Gone
  BY <1>55 DEF Gone, vars
<1>56. QED
  BY <1>1, <1>2, <1>3, <1>4, <1>5, <1>6, <1>7, <1>8, <1>9, <1>10, <1>11, <1>12, <1>13,
      <1>14, <1>15, <1>16, <1>17, <1>18, <1>19, <1>20, <1>21, <1>22, <1>23, <1>24,
      <1>25, <1>26, <1>27, <1>28, <1>29, <1>30, <1>31, <1>32, <1>33, <1>34, <1>35,
      <1>36, <1>37, <1>38, <1>39, <1>40, <1>41, <1>42, <1>43, <1>44, <1>45, <1>46,
      <1>47, <1>48, <1>49, <1>50, <1>51, <1>52, <1>53, <1>54, <1>55 DEF Next,
      TeardownStep, ConnectStep, SendStep, ReconnectStep

\* encoder_mutex excludes.
LEMMA ExclusiveNext ==
  ASSUME TypeOK, EncoderExclusive, Next
  PROVE  EncoderExclusive'
<1> USE DEF mainLocals, mainVars, connectVars, linkVars, bufVars, retryVars, TypeOK,
    MainPC, ConnectPC, SendPC, ReconnectPC, ReconnectThreads, AudioPC, States,
    EncoderExclusive, EncoderHolders, EncoderMutexFree, AfterTeardown, InUse, Alive
<1>0. CASE JoinReconnect
  BY <1>0 DEF JoinReconnect, ReconnectTo, NoThread
<1>1. CASE Start \/ StartFails \/ StartSpawnFails \/ Stop \/ Destroy \/
    (TeardownStep /\ ~JoinReconnect)
  BY <1>1 DEF TeardownStep, Start, StartFails, StartSpawnFails, Stop, Destroy,
      TeardownEntry, TakeJob, CancelJob, ReleaseJob, EndCapture, CancelReconnect,
      StopReconnect, ReadThread, ClearActive, StopSend, WakeSend, JoinSend, FreeBuf,
      LockEncoder, FlushEncoder, CloseShout, SetDisconnected, Free, MainOnly
<1>2. CASE OpenSucceeds
  BY <1>2 DEF OpenSucceeds
<1>3. CASE OpenFails
  BY <1>3 DEF OpenFails
<1>4. CASE BeginCapture
  BY <1>4 DEF BeginCapture
<1>5. CASE InitBuf
  BY <1>5 DEF InitBuf
<1>6. CASE ConnectLockEncoder
  BY <1>6 DEF ConnectLockEncoder
<1>7. CASE ConnectDropEncoder
  BY <1>7 DEF ConnectDropEncoder
<1>8. CASE DetachJob
  BY <1>8 DEF DetachJob
<1>9. CASE CompleteJob
  BY <1>9 DEF CompleteJob
<1>10. CASE ReleaseConnect
  BY <1>10 DEF ReleaseConnect
<1>11. CASE Publish \/ SpawnSend \/ SpawnSendFails \/ PushStartup \/ ConnectEndCapture
    \/ ConnectCloseShout \/ ConnectSetError \/ SignalConnectFailed
  BY <1>11 DEF Publish, SpawnSend, SpawnSendFails, PushStartup, ConnectEndCapture,
      ConnectCloseShout, ConnectSetError, SignalConnectFailed
<1>12. CASE SendStep \/ SpuriousWakeup
  BY <1>12 DEF SendStep, SendLock, SpuriousWakeup, SendBegin, SendSucceeds, SendFails,
      SendSetError, SendSignal, StartCheckActive, StartStopOld, StartJoin,
      StartClearActive, StartSetReconnecting, StartSetRunning, StartSpawn,
      StartReconnectSpawnFails, StartSetActive, SendAt, ReconnectTo
<1>13. ASSUME NEW t \in ReconnectThreads, ReconnectStep(t)
      PROVE  EncoderExclusive'
  BY <1>13 DEF ReconnectStep, ReconnectWakes, ReopenSucceeds, ReopenFails,
      ReconnectCheckEncoder, ReconnectLockEncoder, ReconnectReinit, ReconnectPublish,
      ReconnectSetConnected, ReconnectSetError, ReconnectSignal, ReconnectAt,
      ReconnectTo, ReconnectOnly
<1>14. CASE AudioCallback \/ AudioReturns
  BY <1>14 DEF AudioReturns, AudioCallback, AudioTry, AudioEncode, 
      AudioPush, AudioPushLocked, AudioAt, AudioOnly
<1>15. CASE Gone
  BY <1>15 DEF Gone, vars
<1>16. QED
  BY <1>0, <1>1, <1>2, <1>3, <1>4, <1>5, <1>6, <1>7, <1>8, <1>9, <1>10, <1>11, <1>12, <1>13,
      <1>14, <1>15 DEF Next, ConnectStep

\* A signal follows every push and the end of the loop.
LEMMA WakeNext ==
  ASSUME TypeOK, ControlInv, BufferInv, NoLostWakeup, Next
  PROVE  NoLostWakeup'
<1> USE SettingsAssumption DEF mainLocals, mainVars, connectVars, linkVars, bufVars,
    retryVars, TypeOK, MainPC, ConnectPC, SendPC, ReconnectPC, ReconnectThreads,
    AudioPC, States, ControlInv, RefsCounted, OneHolder, NotStarted, NothingToCancel,
    Cancellable, FieldRef, OwnRef, Completing, HoldsJobMutex, NoJob, BufferInv,
    BuiltByConnect, DismantledByMain, ReconnectBySender, Dismantled, Restarting,
    Cancelling, SendAlive, NoLostWakeup, Woken, Pushed, AfterTeardown
<1>1. CASE Start \/ StartFails \/ StartSpawnFails \/ Stop \/ Destroy \/ TeardownStep
  BY <1>1 DEF TeardownStep, Start, StartFails, StartSpawnFails, Stop, Destroy,
      TeardownEntry, TakeJob, CancelJob, ReleaseJob, EndCapture, CancelReconnect,
      StopReconnect, ReadThread, JoinReconnect, ClearActive, StopSend, WakeSend,
      JoinSend, FreeBuf, LockEncoder, FlushEncoder, CloseShout, SetDisconnected, Free,
      ReconnectTo, MainOnly
<1>2. CASE OpenSucceeds \/ OpenFails \/ ConnectStep
  BY <1>2 DEF ConnectStep, OpenSucceeds, OpenFails, Publish, BeginCapture, InitBuf,
      SpawnSend, SpawnSendFails, PushStartup, ConnectEndCapture, ConnectCloseShout,
      ConnectLockEncoder, ConnectDropEncoder, ConnectSetError, DetachJob,
      SignalConnectFailed, CompleteJob, ReleaseConnect
<1>3. CASE SendStep \/ SpuriousWakeup
  BY <1>3 DEF SendStep, SendLock, SpuriousWakeup, SendBegin, SendSucceeds, SendFails,
      SendSetError, SendSignal, StartCheckActive, StartStopOld, StartJoin,
      StartClearActive, StartSetReconnecting, StartSetRunning, StartSpawn,
      StartReconnectSpawnFails, StartSetActive, SendAt, ReconnectTo
<1>4. ASSUME NEW t \in ReconnectThreads, ReconnectStep(t)
      PROVE  NoLostWakeup'
  BY <1>4 DEF ReconnectStep, ReconnectWakes, ReopenSucceeds, ReopenFails,
      ReconnectCheckEncoder, ReconnectLockEncoder, ReconnectReinit, ReconnectPublish,
      ReconnectSetConnected, ReconnectSetError, ReconnectSignal, ReconnectAt,
      ReconnectTo, ReconnectOnly
<1>5. CASE AudioCallback \/ AudioReturns
  BY <1>5 DEF AudioReturns, AudioCallback, AudioTry, AudioEncode, 
      AudioPush, AudioPushLocked, AudioAt, AudioOnly
<1>6. CASE Gone
  BY <1>6 DEF Gone, vars
<1>7. QED
  BY <1>1, <1>2, <1>3, <1>4, <1>5, <1>6 DEF Next

\* The user's stop ends the life that UnstoppedInv is about.
LEMMA StopIsFinal == Stop \/ Destroy \/ TeardownStep => ~Unstopped'
BY DEF Stop, Destroy, TeardownStep, TeardownEntry, TakeJob, CancelJob, ReleaseJob,
       EndCapture, CancelReconnect, StopReconnect, ReadThread, JoinReconnect,
       ClearActive, StopSend, WakeSend, JoinSend, FreeBuf, LockEncoder, FlushEncoder,
       CloseShout, SetDisconnected, Free, Unstopped, AfterTeardown

\* reconnect_start finds the thread before it.
LEMMA OneThreadNext ==
  ASSUME TypeOK, ControlInv, BufferInv, LinkInv, UnstoppedInv, Next
  PROVE  (Unstopped => OneReconnectThread)'
<1> USE DEF mainLocals, mainVars, connectVars, linkVars, bufVars, retryVars, TypeOK,
    MainPC, ConnectPC, SendPC, ReconnectPC, ReconnectThreads, AudioPC, States,
    ControlInv, RefsCounted, OneHolder, NotStarted, NothingToCancel, Cancellable,
    FieldRef, OwnRef, Completing, HoldsJobMutex, NoJob, BufferInv, BuiltByConnect,
    DismantledByMain, ReconnectBySender, Dismantled, Restarting, Cancelling, SendAlive,
    LinkInv, OneLink, LinkOfConnect, Seeking, Opened, Alive, UnstoppedInv, Unstopped,
    OneReconnectThread, StateCorrected, ErrorIsFinal, ReconnectAlive, InUse, Woken,
    Released
<1>1. CASE Start
  BY <1>1 DEF Start
<1>2. CASE StartFails
  BY <1>2 DEF StartFails
<1>3. CASE StartSpawnFails
  BY <1>3 DEF StartSpawnFails
<1>4. CASE OpenSucceeds
  BY <1>4 DEF OpenSucceeds
<1>5. CASE OpenFails
  BY <1>5 DEF OpenFails
<1>6. CASE Publish
  BY <1>6 DEF Publish
<1>7. CASE BeginCapture
  BY <1>7 DEF BeginCapture
<1>8. CASE InitBuf
  BY <1>8 DEF InitBuf
<1>9. CASE SpawnSend
  BY <1>9 DEF SpawnSend
<1>10. CASE SpawnSendFails
  BY <1>10 DEF SpawnSendFails
<1>11. CASE PushStartup
  BY <1>11 DEF PushStartup
<1>12. CASE ConnectEndCapture
  BY <1>12 DEF ConnectEndCapture
<1>13. CASE ConnectCloseShout
  BY <1>13 DEF ConnectCloseShout
<1>14. CASE ConnectLockEncoder
  BY <1>14 DEF ConnectLockEncoder
<1>15. CASE ConnectDropEncoder
  BY <1>15 DEF ConnectDropEncoder
<1>16. CASE ConnectSetError
  BY <1>16 DEF ConnectSetError
<1>17. CASE DetachJob
  BY <1>17 DEF DetachJob
<1>18. CASE SignalConnectFailed
  BY <1>18 DEF SignalConnectFailed
<1>19. CASE CompleteJob
  BY <1>19 DEF CompleteJob
<1>20. CASE ReleaseConnect
  BY <1>20 DEF ReleaseConnect
<1>21. CASE SendLock
  BY <1>21 DEF SendLock, SendAt
<1>22. CASE SpuriousWakeup
  BY <1>22 DEF SpuriousWakeup, SendAt
<1>23. CASE SendBegin
  BY <1>23 DEF SendBegin, SendAt
<1>24. CASE SendSucceeds
  BY <1>24 DEF SendSucceeds, SendAt
<1>25. CASE SendFails
  BY <1>25 DEF SendFails, SendAt
<1>26. CASE SendSetError
  BY <1>26 DEF SendSetError, SendAt
<1>27. CASE SendSignal
  BY <1>27 DEF SendSignal, SendAt
<1>28. CASE StartCheckActive \/ StartStopOld
  BY <1>28 DEF StartCheckActive, StartStopOld, SendAt
<1>29. CASE StartJoin
  BY <1>29 DEF StartJoin, SendAt, ReconnectTo
<1>30. CASE StartClearActive
  BY <1>30 DEF StartClearActive, SendAt
<1>31. CASE StartSetReconnecting
  BY <1>31 DEF StartSetReconnecting, SendAt
<1>32. CASE StartSetRunning
  BY <1>32 DEF StartSetRunning, SendAt
<1>33. CASE StartSpawn
  BY <1>33 DEF StartSpawn, SendAt
<1>34. CASE StartReconnectSpawnFails
  BY <1>34 DEF StartReconnectSpawnFails, SendAt
<1>35. CASE StartSetActive
  BY <1>35 DEF StartSetActive, SendAt
<1>36. ASSUME NEW t \in ReconnectThreads, ReconnectWakes(t)
      PROVE  (Unstopped => OneReconnectThread)'
  BY <1>36 DEF ReconnectWakes, ReconnectAt, ReconnectTo
<1>37. ASSUME NEW t \in ReconnectThreads, ReopenSucceeds(t)
      PROVE  (Unstopped => OneReconnectThread)'
  BY <1>37 DEF ReopenSucceeds, ReconnectAt, ReconnectTo
<1>38. ASSUME NEW t \in ReconnectThreads, ReopenFails(t)
      PROVE  (Unstopped => OneReconnectThread)'
  BY <1>38 DEF ReopenFails, ReconnectAt, ReconnectTo, ReconnectOnly
<1>39. ASSUME NEW t \in ReconnectThreads, ReconnectCheckEncoder(t)
      PROVE  (Unstopped => OneReconnectThread)'
  BY <1>39 DEF ReconnectCheckEncoder, ReconnectAt, ReconnectTo, ReconnectOnly
<1>40. ASSUME NEW t \in ReconnectThreads, ReconnectLockEncoder(t)
      PROVE  (Unstopped => OneReconnectThread)'
  BY <1>40 DEF ReconnectLockEncoder, ReconnectAt, ReconnectTo, ReconnectOnly
<1>41. ASSUME NEW t \in ReconnectThreads, ReconnectReinit(t)
      PROVE  (Unstopped => OneReconnectThread)'
  BY <1>41 DEF ReconnectReinit, ReconnectAt, ReconnectTo
<1>42. ASSUME NEW t \in ReconnectThreads, ReconnectPublish(t)
      PROVE  (Unstopped => OneReconnectThread)'
  BY <1>42 DEF ReconnectPublish, ReconnectAt, ReconnectTo
<1>43. ASSUME NEW t \in ReconnectThreads, ReconnectSetConnected(t)
      PROVE  (Unstopped => OneReconnectThread)'
  BY <1>43 DEF ReconnectSetConnected, ReconnectAt, ReconnectTo
<1>44. ASSUME NEW t \in ReconnectThreads, ReconnectSetError(t)
      PROVE  (Unstopped => OneReconnectThread)'
  BY <1>44 DEF ReconnectSetError, ReconnectAt, ReconnectTo
<1>45. ASSUME NEW t \in ReconnectThreads, ReconnectSignal(t)
      PROVE  (Unstopped => OneReconnectThread)'
  BY <1>45 DEF ReconnectSignal, ReconnectAt, ReconnectTo
<1>46. CASE AudioCallback \/ AudioReturns
  BY <1>46 DEF AudioReturns, AudioCallback, AudioTry, AudioEncode, 
      AudioPush, AudioPushLocked, AudioAt, AudioOnly
<1>47. CASE Stop \/ Destroy \/ TeardownStep
  BY <1>47, StopIsFinal
<1>48. CASE Gone
  BY <1>48 DEF Gone, vars
<1>49. QED
  BY <1>1, <1>2, <1>3, <1>4, <1>5, <1>6, <1>7, <1>8, <1>9, <1>10, <1>11, <1>12, <1>13,
      <1>14, <1>15, <1>16, <1>17, <1>18, <1>19, <1>20, <1>21, <1>22, <1>23, <1>24,
      <1>25, <1>26, <1>27, <1>28, <1>29, <1>30, <1>31, <1>32, <1>33, <1>34, <1>35,
      <1>36, <1>37, <1>38, <1>39, <1>40, <1>41, <1>42, <1>43, <1>44, <1>45, <1>46,
      <1>47, <1>48 DEF Next, ConnectStep, SendStep, ReconnectStep

\* Every state is on its way to be corrected.
LEMMA StateCorrectedNext ==
  ASSUME TypeOK, ControlInv, BufferInv, LinkInv, UnstoppedInv, Next
  PROVE  (Unstopped => StateCorrected)'
<1> USE DEF mainLocals, mainVars, connectVars, linkVars, bufVars, retryVars, TypeOK,
    MainPC, ConnectPC, SendPC, ReconnectPC, ReconnectThreads, AudioPC, States,
    ControlInv, RefsCounted, OneHolder, NotStarted, NothingToCancel, Cancellable,
    FieldRef, OwnRef, Completing, HoldsJobMutex, NoJob, BufferInv, BuiltByConnect,
    DismantledByMain, ReconnectBySender, Dismantled, Restarting, Cancelling, SendAlive,
    LinkInv, OneLink, LinkOfConnect, Seeking, Opened, Alive, UnstoppedInv, Unstopped,
    OneReconnectThread, StateCorrected, ErrorIsFinal, ReconnectAlive, InUse, Woken,
    Released
<1>1. CASE Start
  BY <1>1 DEF Start
<1>2. CASE StartFails
  BY <1>2 DEF StartFails
<1>3. CASE StartSpawnFails
  BY <1>3 DEF StartSpawnFails
<1>4. CASE OpenSucceeds
  BY <1>4 DEF OpenSucceeds
<1>5. CASE OpenFails
  BY <1>5 DEF OpenFails
<1>6. CASE Publish
  BY <1>6 DEF Publish
<1>7. CASE BeginCapture
  BY <1>7 DEF BeginCapture
<1>8. CASE InitBuf
  BY <1>8 DEF InitBuf
<1>9. CASE SpawnSend
  BY <1>9 DEF SpawnSend
<1>10. CASE SpawnSendFails
  BY <1>10 DEF SpawnSendFails
<1>11. CASE PushStartup
  BY <1>11 DEF PushStartup
<1>12. CASE ConnectEndCapture
  BY <1>12 DEF ConnectEndCapture
<1>13. CASE ConnectCloseShout
  BY <1>13 DEF ConnectCloseShout
<1>14. CASE ConnectLockEncoder
  BY <1>14 DEF ConnectLockEncoder
<1>15. CASE ConnectDropEncoder
  BY <1>15 DEF ConnectDropEncoder
<1>16. CASE ConnectSetError
  BY <1>16 DEF ConnectSetError
<1>17. CASE DetachJob
  BY <1>17 DEF DetachJob
<1>18. CASE SignalConnectFailed
  BY <1>18 DEF SignalConnectFailed
<1>19. CASE CompleteJob
  BY <1>19 DEF CompleteJob
<1>20. CASE ReleaseConnect
  BY <1>20 DEF ReleaseConnect
<1>21. CASE SendLock
  BY <1>21 DEF SendLock, SendAt
<1>22. CASE SpuriousWakeup
  BY <1>22 DEF SpuriousWakeup, SendAt
<1>23. CASE SendBegin
  BY <1>23 DEF SendBegin, SendAt
<1>24. CASE SendSucceeds
  BY <1>24 DEF SendSucceeds, SendAt
<1>25. CASE SendFails
  BY <1>25 DEF SendFails, SendAt
<1>26. CASE SendSetError
  BY <1>26 DEF SendSetError, SendAt
<1>27. CASE SendSignal
  BY <1>27 DEF SendSignal, SendAt
<1>28. CASE StartCheckActive \/ StartStopOld
  BY <1>28 DEF StartCheckActive, StartStopOld, SendAt
<1>29. CASE StartJoin
  BY <1>29 DEF StartJoin, SendAt, ReconnectTo
<1>30. CASE StartClearActive
  BY <1>30 DEF StartClearActive, SendAt
<1>31. CASE StartSetReconnecting
  BY <1>31 DEF StartSetReconnecting, SendAt
<1>32. CASE StartSetRunning
  BY <1>32 DEF StartSetRunning, SendAt
<1>33. CASE StartSpawn
  BY <1>33 DEF StartSpawn, SendAt
<1>34. CASE StartReconnectSpawnFails
  BY <1>34 DEF StartReconnectSpawnFails, SendAt
<1>35. CASE StartSetActive
  BY <1>35 DEF StartSetActive, SendAt
<1>36. ASSUME NEW t \in ReconnectThreads, ReconnectWakes(t)
      PROVE  (Unstopped => StateCorrected)'
  BY <1>36 DEF ReconnectWakes, ReconnectAt, ReconnectTo
<1>37. ASSUME NEW t \in ReconnectThreads, ReopenSucceeds(t)
      PROVE  (Unstopped => StateCorrected)'
  BY <1>37 DEF ReopenSucceeds, ReconnectAt, ReconnectTo
<1>38. ASSUME NEW t \in ReconnectThreads, ReopenFails(t)
      PROVE  (Unstopped => StateCorrected)'
  BY <1>38 DEF ReopenFails, ReconnectAt, ReconnectTo, ReconnectOnly
<1>39. ASSUME NEW t \in ReconnectThreads, ReconnectCheckEncoder(t)
      PROVE  (Unstopped => StateCorrected)'
  BY <1>39 DEF ReconnectCheckEncoder, ReconnectAt, ReconnectTo, ReconnectOnly
<1>40. ASSUME NEW t \in ReconnectThreads, ReconnectLockEncoder(t)
      PROVE  (Unstopped => StateCorrected)'
  BY <1>40 DEF ReconnectLockEncoder, ReconnectAt, ReconnectTo, ReconnectOnly
<1>41. ASSUME NEW t \in ReconnectThreads, ReconnectReinit(t)
      PROVE  (Unstopped => StateCorrected)'
  BY <1>41 DEF ReconnectReinit, ReconnectAt, ReconnectTo
<1>42. ASSUME NEW t \in ReconnectThreads, ReconnectPublish(t)
      PROVE  (Unstopped => StateCorrected)'
  BY <1>42 DEF ReconnectPublish, ReconnectAt, ReconnectTo
<1>43. ASSUME NEW t \in ReconnectThreads, ReconnectSetConnected(t)
      PROVE  (Unstopped => StateCorrected)'
  BY <1>43 DEF ReconnectSetConnected, ReconnectAt, ReconnectTo
<1>44. ASSUME NEW t \in ReconnectThreads, ReconnectSetError(t)
      PROVE  (Unstopped => StateCorrected)'
  BY <1>44 DEF ReconnectSetError, ReconnectAt, ReconnectTo
<1>45. ASSUME NEW t \in ReconnectThreads, ReconnectSignal(t)
      PROVE  (Unstopped => StateCorrected)'
  BY <1>45 DEF ReconnectSignal, ReconnectAt, ReconnectTo
<1>46. CASE AudioCallback \/ AudioReturns
  BY <1>46 DEF AudioReturns, AudioCallback, AudioTry, AudioEncode, 
      AudioPush, AudioPushLocked, AudioAt, AudioOnly
<1>47. CASE Stop \/ Destroy \/ TeardownStep
  BY <1>47, StopIsFinal
<1>48. CASE Gone
  BY <1>48 DEF Gone, vars
<1>49. QED
  BY <1>1, <1>2, <1>3, <1>4, <1>5, <1>6, <1>7, <1>8, <1>9, <1>10, <1>11, <1>12, <1>13,
      <1>14, <1>15, <1>16, <1>17, <1>18, <1>19, <1>20, <1>21, <1>22, <1>23, <1>24,
      <1>25, <1>26, <1>27, <1>28, <1>29, <1>30, <1>31, <1>32, <1>33, <1>34, <1>35,
      <1>36, <1>37, <1>38, <1>39, <1>40, <1>41, <1>42, <1>43, <1>44, <1>45, <1>46,
      <1>47, <1>48 DEF Next, ConnectStep, SendStep, ReconnectStep

\* The attempts are counted by one thread, which starts with none.
LEMMA AttemptsNext ==
  ASSUME TypeOK, ControlInv, BufferInv, LinkInv, UnstoppedInv, Next
  PROVE  (Unstopped => AttemptsCounted)'
<1> USE SettingsAssumption DEF mainLocals, mainVars, connectVars, linkVars, bufVars,
    retryVars, TypeOK, MainPC, ConnectPC, SendPC, ReconnectPC, ReconnectThreads,
    AudioPC, States, ControlInv, RefsCounted, OneHolder, NotStarted, NothingToCancel,
    Cancellable, FieldRef, OwnRef, Completing, HoldsJobMutex, NoJob, BufferInv,
    BuiltByConnect, DismantledByMain, ReconnectBySender, Dismantled, Restarting,
    Cancelling, SendAlive, LinkInv, OneLink, LinkOfConnect, Seeking, Opened, Alive,
    UnstoppedInv, Unstopped, OneReconnectThread, StateCorrected, ErrorIsFinal,
    ReconnectAlive, InUse, Woken, Released, AttemptsCounted
<1>1. CASE Start
  BY <1>1 DEF Start
<1>2. CASE StartFails
  BY <1>2 DEF StartFails
<1>3. CASE StartSpawnFails
  BY <1>3 DEF StartSpawnFails
<1>4. CASE OpenSucceeds \/ OpenFails \/ ConnectStep
  BY <1>4 DEF ConnectStep, OpenSucceeds, OpenFails, Publish, BeginCapture, InitBuf,
      SpawnSend, SpawnSendFails, PushStartup, ConnectEndCapture, ConnectCloseShout,
      ConnectLockEncoder, ConnectDropEncoder, ConnectSetError, DetachJob,
      SignalConnectFailed, CompleteJob, ReleaseConnect
<1>5. CASE SendStep \/ SpuriousWakeup
  BY <1>5 DEF SendStep, SendLock, SpuriousWakeup, SendBegin, SendSucceeds, SendFails,
      SendSetError, SendSignal, StartCheckActive, StartStopOld, StartJoin,
      StartClearActive, StartSetReconnecting, StartSetRunning, StartSpawn,
      StartReconnectSpawnFails, StartSetActive, SendAt, ReconnectTo
<1>6. ASSUME NEW t \in ReconnectThreads, ReconnectWakes(t)
      PROVE  (Unstopped => AttemptsCounted)'
  BY <1>6 DEF ReconnectWakes, ReconnectAt, ReconnectTo
<1>7. ASSUME NEW t \in ReconnectThreads, ReopenSucceeds(t)
      PROVE  (Unstopped => AttemptsCounted)'
  BY <1>7 DEF ReopenSucceeds, ReconnectAt, ReconnectTo
<1>8. ASSUME NEW t \in ReconnectThreads, ReopenFails(t)
      PROVE  (Unstopped => AttemptsCounted)'
  BY <1>8 DEF ReopenFails, ReconnectAt, ReconnectTo, ReconnectOnly
<1>9. ASSUME NEW t \in ReconnectThreads, ReconnectCheckEncoder(t)
      PROVE  (Unstopped => AttemptsCounted)'
  BY <1>9 DEF ReconnectCheckEncoder, ReconnectAt, ReconnectTo, ReconnectOnly
<1>10. ASSUME NEW t \in ReconnectThreads, ReconnectLockEncoder(t)
      PROVE  (Unstopped => AttemptsCounted)'
  BY <1>10 DEF ReconnectLockEncoder, ReconnectAt, ReconnectTo, ReconnectOnly
<1>11. ASSUME NEW t \in ReconnectThreads, ReconnectReinit(t)
      PROVE  (Unstopped => AttemptsCounted)'
  BY <1>11 DEF ReconnectReinit, ReconnectAt, ReconnectTo
<1>12. ASSUME NEW t \in ReconnectThreads, ReconnectPublish(t)
      PROVE  (Unstopped => AttemptsCounted)'
  BY <1>12 DEF ReconnectPublish, ReconnectAt, ReconnectTo
<1>13. ASSUME NEW t \in ReconnectThreads, ReconnectSetConnected(t)
      PROVE  (Unstopped => AttemptsCounted)'
  BY <1>13 DEF ReconnectSetConnected, ReconnectAt, ReconnectTo
<1>14. ASSUME NEW t \in ReconnectThreads, ReconnectSetError(t)
      PROVE  (Unstopped => AttemptsCounted)'
  BY <1>14 DEF ReconnectSetError, ReconnectAt, ReconnectTo
<1>15. ASSUME NEW t \in ReconnectThreads, ReconnectSignal(t)
      PROVE  (Unstopped => AttemptsCounted)'
  BY <1>15 DEF ReconnectSignal, ReconnectAt, ReconnectTo
<1>16. CASE AudioCallback \/ AudioReturns
  BY <1>16 DEF AudioReturns, AudioCallback, AudioTry, AudioEncode, 
      AudioPush, AudioPushLocked, AudioAt, AudioOnly
<1>17. CASE Stop \/ Destroy \/ TeardownStep
  BY <1>17, StopIsFinal
<1>18. CASE Gone
  BY <1>18 DEF Gone, vars
<1>19. QED
  BY <1>1, <1>2, <1>3, <1>4, <1>5, <1>6, <1>7, <1>8, <1>9, <1>10, <1>11, <1>12, <1>13,
      <1>14, <1>15, <1>16, <1>17, <1>18 DEF Next, ReconnectStep

\* Nobody takes the encoder from a running output that has its sender.
LEMMA HeadersNext ==
  ASSUME TypeOK, ControlInv, BufferInv, LinkInv, UnstoppedInv, Next
  PROVE  (Unstopped => HeadersCanBeSent)'
<1> USE DEF mainLocals, mainVars, connectVars, linkVars, bufVars, retryVars, TypeOK,
    MainPC, ConnectPC, SendPC, ReconnectPC, ReconnectThreads, AudioPC, States,
    ControlInv, RefsCounted, OneHolder, NotStarted, NothingToCancel, Cancellable,
    FieldRef, OwnRef, Completing, HoldsJobMutex, NoJob, BufferInv, BuiltByConnect,
    DismantledByMain, ReconnectBySender, Dismantled, Restarting, Cancelling, SendAlive,
    LinkInv, OneLink, LinkOfConnect, Seeking, Opened, Alive, UnstoppedInv, Unstopped,
    OneReconnectThread, StateCorrected, ErrorIsFinal, ReconnectAlive, InUse, Woken,
    Released, HeadersCanBeSent
<1>1. CASE Start
  BY <1>1 DEF Start
<1>2. CASE StartFails
  BY <1>2 DEF StartFails
<1>3. CASE StartSpawnFails
  BY <1>3 DEF StartSpawnFails
<1>4. CASE OpenSucceeds
  BY <1>4 DEF OpenSucceeds
<1>5. CASE OpenFails
  BY <1>5 DEF OpenFails
<1>6. CASE Publish
  BY <1>6 DEF Publish
<1>7. CASE BeginCapture
  BY <1>7 DEF BeginCapture
<1>8. CASE InitBuf
  BY <1>8 DEF InitBuf
<1>9. CASE SpawnSend
  BY <1>9 DEF SpawnSend
<1>10. CASE SpawnSendFails
  BY <1>10 DEF SpawnSendFails
<1>11. CASE PushStartup
  BY <1>11 DEF PushStartup
<1>12. CASE ConnectEndCapture
  BY <1>12 DEF ConnectEndCapture
<1>13. CASE ConnectCloseShout
  BY <1>13 DEF ConnectCloseShout
<1>14. CASE ConnectLockEncoder
  BY <1>14 DEF ConnectLockEncoder
<1>15. CASE ConnectDropEncoder
  BY <1>15 DEF ConnectDropEncoder
<1>16. CASE ConnectSetError
  BY <1>16 DEF ConnectSetError
<1>17. CASE DetachJob
  BY <1>17 DEF DetachJob
<1>18. CASE SignalConnectFailed
  BY <1>18 DEF SignalConnectFailed
<1>19. CASE CompleteJob
  BY <1>19 DEF CompleteJob
<1>20. CASE ReleaseConnect
  BY <1>20 DEF ReleaseConnect
<1>21. CASE SendStep \/ SpuriousWakeup
  BY <1>21 DEF SendStep, SendLock, SpuriousWakeup, SendBegin, SendSucceeds, SendFails,
      SendSetError, SendSignal, StartCheckActive, StartStopOld, StartJoin,
      StartClearActive, StartSetReconnecting, StartSetRunning, StartSpawn,
      StartReconnectSpawnFails, StartSetActive, SendAt, ReconnectTo
<1>22. ASSUME NEW t \in ReconnectThreads, ReconnectWakes(t)
      PROVE  (Unstopped => HeadersCanBeSent)'
  BY <1>22 DEF ReconnectWakes, ReconnectAt, ReconnectTo
<1>23. ASSUME NEW t \in ReconnectThreads, ReopenSucceeds(t)
      PROVE  (Unstopped => HeadersCanBeSent)'
  BY <1>23 DEF ReopenSucceeds, ReconnectAt, ReconnectTo
<1>24. ASSUME NEW t \in ReconnectThreads, ReopenFails(t)
      PROVE  (Unstopped => HeadersCanBeSent)'
  BY <1>24 DEF ReopenFails, ReconnectAt, ReconnectTo, ReconnectOnly
<1>25. ASSUME NEW t \in ReconnectThreads, ReconnectCheckEncoder(t)
      PROVE  (Unstopped => HeadersCanBeSent)'
  BY <1>25 DEF ReconnectCheckEncoder, ReconnectAt, ReconnectTo, ReconnectOnly
<1>26. ASSUME NEW t \in ReconnectThreads, ReconnectLockEncoder(t)
      PROVE  (Unstopped => HeadersCanBeSent)'
  BY <1>26 DEF ReconnectLockEncoder, ReconnectAt, ReconnectTo, ReconnectOnly
<1>27. ASSUME NEW t \in ReconnectThreads, ReconnectReinit(t)
      PROVE  (Unstopped => HeadersCanBeSent)'
  BY <1>27 DEF ReconnectReinit, ReconnectAt, ReconnectTo
<1>28. ASSUME NEW t \in ReconnectThreads, ReconnectPublish(t)
      PROVE  (Unstopped => HeadersCanBeSent)'
  BY <1>28 DEF ReconnectPublish, ReconnectAt, ReconnectTo
<1>29. ASSUME NEW t \in ReconnectThreads, ReconnectSetConnected(t)
      PROVE  (Unstopped => HeadersCanBeSent)'
  BY <1>29 DEF ReconnectSetConnected, ReconnectAt, ReconnectTo
<1>30. ASSUME NEW t \in ReconnectThreads, ReconnectSetError(t)
      PROVE  (Unstopped => HeadersCanBeSent)'
  BY <1>30 DEF ReconnectSetError, ReconnectAt, ReconnectTo
<1>31. ASSUME NEW t \in ReconnectThreads, ReconnectSignal(t)
      PROVE  (Unstopped => HeadersCanBeSent)'
  BY <1>31 DEF ReconnectSignal, ReconnectAt, ReconnectTo
<1>32. CASE AudioCallback \/ AudioReturns
  BY <1>32 DEF AudioReturns, AudioCallback, AudioTry, AudioEncode, 
      AudioPush, AudioPushLocked, AudioAt, AudioOnly
<1>33. CASE Stop \/ Destroy \/ TeardownStep
  BY <1>33, StopIsFinal
<1>34. CASE Gone
  BY <1>34 DEF Gone, vars
<1>35. QED
  BY <1>1, <1>2, <1>3, <1>4, <1>5, <1>6, <1>7, <1>8, <1>9, <1>10, <1>11, <1>12, <1>13,
      <1>14, <1>15, <1>16, <1>17, <1>18, <1>19, <1>20, <1>21, <1>22, <1>23, <1>24,
      <1>25, <1>26, <1>27, <1>28, <1>29, <1>30, <1>31, <1>32, <1>33, <1>34 DEF Next,
      ConnectStep, ReconnectStep

\* Without a reconnect only the first connect publishes a handle.
LEMMA PlainNext ==
  ASSUME TypeOK, ControlInv, BufferInv, LinkInv, PlainInv, Next
  PROVE  PlainInv'
<1> USE DEF mainLocals, mainVars, connectVars, linkVars, bufVars, retryVars, TypeOK,
    MainPC, ConnectPC, SendPC, ReconnectPC, ReconnectThreads, AudioPC, States,
    ControlInv, RefsCounted, OneHolder, NotStarted, NothingToCancel, Cancellable,
    FieldRef, OwnRef, Completing, HoldsJobMutex, NoJob, BufferInv, BuiltByConnect,
    DismantledByMain, ReconnectBySender, Dismantled, Restarting, Cancelling, SendAlive,
    LinkInv, OneLink, LinkOfConnect, Seeking, Opened, Alive, PlainInv, AfterTeardown,
    Woken
<1>1. CASE Start
  BY <1>1 DEF Start
<1>2. CASE StartFails
  BY <1>2 DEF StartFails
<1>3. CASE StartSpawnFails
  BY <1>3 DEF StartSpawnFails
<1>4. CASE Stop
  BY <1>4 DEF Stop
<1>5. CASE Destroy
  BY <1>5 DEF Destroy
<1>6. CASE TeardownEntry
  BY <1>6 DEF TeardownEntry
<1>7. CASE TakeJob
  BY <1>7 DEF TakeJob
<1>8. CASE CancelJob
  BY <1>8 DEF CancelJob
<1>9. CASE ReleaseJob
  BY <1>9 DEF ReleaseJob
<1>10. CASE EndCapture
  BY <1>10 DEF EndCapture
<1>11. CASE CancelReconnect \/ StopReconnect \/ ReadThread
  BY <1>11 DEF CancelReconnect, StopReconnect, ReadThread, MainOnly
<1>12. CASE JoinReconnect
  BY <1>12 DEF JoinReconnect, ReconnectTo
<1>13. CASE ClearActive
  BY <1>13 DEF ClearActive
<1>14. CASE StopSend
  BY <1>14 DEF StopSend
<1>15. CASE WakeSend
  BY <1>15 DEF WakeSend
<1>16. CASE JoinSend
  BY <1>16 DEF JoinSend
<1>17. CASE FreeBuf
  BY <1>17 DEF FreeBuf
<1>18. CASE LockEncoder
  BY <1>18 DEF LockEncoder, MainOnly
<1>19. CASE FlushEncoder
  BY <1>19 DEF FlushEncoder
<1>20. CASE CloseShout
  BY <1>20 DEF CloseShout
<1>21. CASE SetDisconnected
  BY <1>21 DEF SetDisconnected
<1>22. CASE Free
  BY <1>22 DEF Free, MainOnly
<1>23. CASE Publish
  BY <1>23 DEF Publish
<1>24. CASE SpawnSend
  BY <1>24 DEF SpawnSend
<1>25. CASE PushStartup
  BY <1>25 DEF PushStartup
<1>26. CASE ConnectCloseShout
  BY <1>26 DEF ConnectCloseShout
<1>27. CASE ConnectSetError
  BY <1>27 DEF ConnectSetError
<1>28. CASE OpenSucceeds \/ OpenFails \/ BeginCapture \/ InitBuf \/ SpawnSendFails \/
    ConnectEndCapture \/ ConnectLockEncoder \/ ConnectDropEncoder \/ DetachJob \/
    SignalConnectFailed \/ CompleteJob \/ ReleaseConnect
  BY <1>28 DEF OpenSucceeds, OpenFails, BeginCapture, InitBuf, SpawnSendFails,
      ConnectEndCapture, ConnectLockEncoder, ConnectDropEncoder, DetachJob,
      SignalConnectFailed, CompleteJob, ReleaseConnect
<1>29. CASE SendLock
  BY <1>29 DEF SendLock, SendAt
<1>30. CASE SpuriousWakeup
  BY <1>30 DEF SpuriousWakeup, SendAt
<1>31. CASE SendBegin
  BY <1>31 DEF SendBegin, SendAt
<1>32. CASE SendSucceeds
  BY <1>32 DEF SendSucceeds, SendAt
<1>33. CASE SendFails
  BY <1>33 DEF SendFails, SendAt
<1>34. CASE SendSetError
  BY <1>34 DEF SendSetError, SendAt
<1>35. CASE SendSignal
  BY <1>35 DEF SendSignal, SendAt
<1>36. CASE StartCheckActive \/ StartStopOld
  BY <1>36 DEF StartCheckActive, StartStopOld, SendAt
<1>37. CASE StartJoin
  BY <1>37 DEF StartJoin, SendAt, ReconnectTo
<1>38. CASE StartClearActive
  BY <1>38 DEF StartClearActive, SendAt
<1>39. CASE StartSetReconnecting
  BY <1>39 DEF StartSetReconnecting, SendAt
<1>40. CASE StartSetRunning
  BY <1>40 DEF StartSetRunning, SendAt
<1>41. CASE StartSpawn
  BY <1>41 DEF StartSpawn, SendAt
<1>42. CASE StartReconnectSpawnFails
  BY <1>42 DEF StartReconnectSpawnFails, SendAt
<1>43. CASE StartSetActive
  BY <1>43 DEF StartSetActive, SendAt
<1>44. ASSUME NEW t \in ReconnectThreads, ReconnectStep(t)
      PROVE  PlainInv'
  BY <1>44 DEF ReconnectStep, ReconnectWakes, ReopenSucceeds, ReopenFails,
      ReconnectCheckEncoder, ReconnectLockEncoder, ReconnectReinit, ReconnectPublish,
      ReconnectSetConnected, ReconnectSetError, ReconnectSignal, ReconnectAt,
      ReconnectTo, ReconnectOnly
<1>45. CASE AudioCallback \/ AudioReturns
  BY <1>45 DEF AudioReturns, AudioCallback, AudioTry, AudioEncode, 
      AudioPush, AudioPushLocked, AudioAt, AudioOnly
<1>46. CASE Gone
  BY <1>46 DEF Gone, vars
<1>47. QED
  BY <1>1, <1>2, <1>3, <1>4, <1>5, <1>6, <1>7, <1>8, <1>9, <1>10, <1>11, <1>12, <1>13,
      <1>14, <1>15, <1>16, <1>17, <1>18, <1>19, <1>20, <1>21, <1>22, <1>23, <1>24,
      <1>25, <1>26, <1>27, <1>28, <1>29, <1>30, <1>31, <1>32, <1>33, <1>34, <1>35,
      <1>36, <1>37, <1>38, <1>39, <1>40, <1>41, <1>42, <1>43, <1>44, <1>45, <1>46 DEF
      Next, TeardownStep, ConnectStep, SendStep

-----------------------------------------------------------------------------
\* radio_output_create establishes the invariant ...
LEMMA InvInit == Init => IInv
<1> SUFFICES ASSUME Init PROVE IInv
  OBVIOUS
<1> USE SettingsAssumption DEF Init, NoJob, ReconnectThreads
<1>1. TypeOK
  <2>1. ThreadsTyped
    BY DEF ThreadsTyped, MainPC, ConnectPC, SendPC, ReconnectPC, AudioPC, States
  <2>2. FlagsTyped
    BY DEF FlagsTyped
  <2>3. CountsTyped
    BY DEF CountsTyped
  <2>4. JobTyped
    BY DEF JobTyped
  <2>5. QED BY <2>1, <2>2, <2>3, <2>4, TypeParts
<1>2. ControlInv
  BY DEF ControlInv, RefsCounted, FieldRef, OwnRef, OneHolder, NotStarted,
         NothingToCancel, Cancellable, Completing, HoldsJobMutex
<1>3. BufferInv
  BY DEF BufferInv, BuiltByConnect, DismantledByMain, Dismantled, SendAlive,
         ReconnectBySender, Restarting, Cancelling
<1>4. LinkInv
  BY DEF LinkInv, OneLink, LinkOfConnect, Seeking, Opened, Restarting
<1>5. UnstoppedInv
  BY DEF UnstoppedInv, OneReconnectThread, StateCorrected, AttemptsCounted,
         HeadersCanBeSent, Seeking, Alive, ReconnectAlive
<1>6. PlainInv /\ EncoderExclusive /\ NoLostWakeup
  BY DEF PlainInv, EncoderExclusive, EncoderHolders, NoLostWakeup
<1>7. QED BY <1>1, <1>2, <1>3, <1>4, <1>5, <1>6 DEF IInv

\* ... and every step of every thread keeps it.
LEMMA InvNext == IInv /\ [Next]_vars => IInv'
<1> SUFFICES ASSUME IInv, [Next]_vars PROVE IInv'
  OBVIOUS
<1>1. CASE Next
  <2> USE <1>1 DEF IInv
  <2>1. ControlInv'
    BY ControlNext
  <2>2. BufferInv'
    BY BufferNext
  <2>3. LinkInv'
    BY LinkNext
  <2>4. TypeOK'
    <3>1. ThreadsTyped /\ FlagsTyped /\ CountsTyped /\ JobTyped
      BY TypeParts
    <3>2. ThreadsTyped' /\ FlagsTyped' /\ CountsTyped' /\ JobTyped'
      BY <3>1, <2>1, <2>3, ThreadsTypedNext, FlagsTypedNext, CountsTypedNext, JobTypedNext
    <3>3. QED
      BY <3>2 DEF TypeOK, ThreadsTyped, FlagsTyped, CountsTyped, JobTyped
  <2>5. UnstoppedInv'
    BY OneThreadNext, StateCorrectedNext, AttemptsNext, HeadersNext DEF UnstoppedInv
  <2>6. PlainInv' /\ EncoderExclusive' /\ NoLostWakeup'
    BY PlainNext, ExclusiveNext, WakeNext
  <2>7. QED BY <2>1, <2>2, <2>3, <2>4, <2>5, <2>6
<1>2. CASE UNCHANGED vars
  <2> USE <1>2 DEF IInv, vars, mainLocals, mainVars, connectVars, linkVars, bufVars,
                   retryVars
  <2>1. TypeOK'
    BY DEF TypeOK
  <2>2. ControlInv'
    BY DEF ControlInv, RefsCounted, FieldRef, OwnRef, OneHolder, NotStarted,
           NothingToCancel, Cancellable, HoldsJobMutex
  <2>3. BufferInv' /\ LinkInv'
    BY DEF BufferInv, BuiltByConnect, DismantledByMain, SendAlive, ReconnectBySender,
           LinkInv, OneLink, LinkOfConnect, Seeking, Opened
  <2>4. UnstoppedInv'
    BY DEF UnstoppedInv, Unstopped, OneReconnectThread, StateCorrected, ErrorIsFinal,
           AttemptsCounted, HeadersCanBeSent, Seeking, Alive, ReconnectAlive
  <2>5. PlainInv' /\ EncoderExclusive' /\ NoLostWakeup'
    BY DEF PlainInv, EncoderExclusive, EncoderHolders, NoLostWakeup
  <2>6. QED BY <2>1, <2>2, <2>3, <2>4, <2>5
<1>3. QED BY <1>1, <1>2

\* The invariant holds in every behaviour.
THEOREM Invariant == Spec => []IInv
BY InvInit, InvNext, PTL DEF Spec

-----------------------------------------------------------------------------
(***************************************************************************)
(* What follows for every setting.                                         *)
(***************************************************************************)
\* Every variable keeps its type: the references of a job stay between 0 and 2,
\* the ring buffer within its capacity, and no handle is closed that is not open.
THEOREM TypeCorrect == Spec => []TypeOK
<1>1. IInv => TypeOK
  BY DEF IInv
<1>2. QED BY <1>1, Invariant, PTL

\* While the send thread (encoder_send_thread) lives, so do the buffer with its
\* mutex and condition, and the context.
THEOREM SendThreadSafe == Spec => []SendThreadHasItsResources
<1>1. IInv => SendThreadHasItsResources
  BY DEF IInv, BufferInv, DismantledByMain, Dismantled, SendThreadHasItsResources,
      Allocated
<1>2. QED BY <1>1, Invariant, PTL

\* encoder_mutex: one thread at a time works with the encoder, and the audio
\* callback encodes with one that exists.
THEOREM EncoderSafe == Spec => []EncoderExclusive
<1>1. IInv => EncoderExclusive
  BY DEF IInv
<1>2. QED BY <1>1, Invariant, PTL

\* The send thread never sleeps on a queue that has something in it, nor past the
\* end of its loop.
THEOREM WakeupsAreKept == Spec => []NoLostWakeup
<1>1. IInv => NoLostWakeup
  BY DEF IInv
<1>2. QED BY <1>1, Invariant, PTL

\* One source connection to the mount at a time, whatever the reconnect threads and
\* the teardown do to one another, and somebody who will close it.
THEOREM OneConnection == Spec => []OneOwnedConnection
<1>1. IInv => OneOwnedConnection
  <2> SUFFICES ASSUME IInv PROVE OneOwnedConnection
    OBVIOUS
  <2> DEFINE Seekers == {t \in ReconnectThreads : Opened(t)}
  <2>1. Owners = {t \in {"context", "connect"} :
                    \/ t = "context" /\ shout
                    \/ t = "connect" /\ connect = "publish"} \union Seekers
    BY DEF Owners, Opened
  <2>2. \A t \in Seekers : Seeking(t) /\ ~shout /\ connect # "publish"
    BY DEF IInv, BufferInv, BuiltByConnect, ReconnectBySender, LinkInv, OneLink, Opened,
           Seeking
  <2>3. shout => connect # "publish"
    BY DEF IInv, LinkInv, LinkOfConnect
  <2>4. \A t, u \in Seekers : t = u
    BY <2>2 DEF IInv, LinkInv, OneLink
  <2>5. \A t, u \in Owners : t = u
    BY <2>1, <2>2, <2>3, <2>4
  <2>6. connections = IF Owners = {} THEN 0 ELSE 1
    <3>1. Owners = {} <=> ~shout /\ connect # "publish" /\ Seekers = {}
      BY <2>1
    <3>2. QED BY <3>1 DEF IInv, LinkInv, OneLink
  <2>7. QED BY <2>5, <2>6 DEF OneOwnedConnection
<1>2. QED BY <1>1, Invariant, PTL

\* Without automatic reconnect, a destroyed output has closed all its handles.  (With
\* it, a reconnect thread that reconnect_cancel missed may open one later.)
THEOREM NothingLeaks ==
  ASSUME ~ReconnectEnabled
  PROVE  Spec => []NoConnectionLeaked
<1>1. IInv => NoConnectionLeaked
  <2> SUFFICES ASSUME IInv, main = "freed" PROVE connections = 0
    BY DEF NoConnectionLeaked
  <2>1. ~shout
    BY DEF IInv, PlainInv
  <2>2. connect # "publish"
    BY DEF IInv, ControlInv, Cancellable, OneHolder, Completing
  <2>3. \A t \in ReconnectThreads : ~Opened(t)
    BY DEF IInv, BufferInv, ReconnectBySender, Opened
  <2>4. QED BY <2>1, <2>2, <2>3 DEF IInv, LinkInv, OneLink
<1>2. QED BY <1>1, Invariant, PTL

\* Until somebody stops the output its state does not lie for good.
THEOREM StateTrue == Spec => []StateTellsTheTruth
<1>1. IInv => StateTellsTheTruth
  <2> SUFFICES ASSUME IInv, main = "running" PROVE StateTellsTheTruth
    BY DEF StateTellsTheTruth
  <2>1. StateCorrected
    BY DEF IInv, UnstoppedInv, Unstopped
  <2>2. ASSUME state = "ERROR" PROVE ~shout /\ connections = 0
    <3>1. ErrorIsFinal
      BY <2>1, <2>2 DEF StateCorrected
    <3>2. \A t \in ReconnectThreads : ~Opened(t)
      BY <3>1 DEF ErrorIsFinal, Seeking, Opened
    <3>3. QED BY <3>1, <3>2 DEF ErrorIsFinal, IInv, LinkInv, OneLink
  <2>3. QED BY <2>1, <2>2 DEF StateCorrected, StateTellsTheTruth
<1>2. QED BY <1>1, Invariant, PTL

\* Each reconnect has the whole budget of attempts, and no more than that.
THEOREM RetriesBounded == Spec => []RetryBudget
<1>1. IInv => RetryBudget
  <2> SUFFICES ASSUME IInv, main = "running" PROVE RetryBudget
    BY DEF RetryBudget
  <2>1. OneReconnectThread /\ StateCorrected /\ AttemptsCounted
    BY DEF IInv, UnstoppedInv, Unstopped
  <2>2. ASSUME send = "spawn" PROVE attempts = 0 /\ ~ReconnectAlive
    <3>1. ~ReconnectAlive
      BY <2>1, <2>2 DEF OneReconnectThread, ReconnectAlive
    <3>2. state # "ERROR"
      BY <2>1, <2>2 DEF StateCorrected, ErrorIsFinal, Restarting
    <3>3. QED BY <3>1, <3>2, <2>1 DEF AttemptsCounted
  <2>3. QED BY <2>1, <2>2 DEF AttemptsCounted, RetryBudget
<1>2. QED BY <1>1, Invariant, PTL

\* No audio on a new connection before the attempt to send its header pages.
THEOREM HeadersFirst == Spec => []HeadersFirstAfterReconnect
<1>1. IInv => HeadersFirstAfterReconnect
  <2> SUFFICES ASSUME IInv, main = "running", send = "sending", bare PROVE FALSE
    BY DEF HeadersFirstAfterReconnect
  <2>1. PICK t \in ReconnectThreads : reconnect[t] \in {"checkEncoder", "lockEncoder", "reinit"}
    BY DEF IInv, UnstoppedInv, Unstopped, HeadersCanBeSent
  <2>2. Seeking(t) /\ shout
    BY <2>1 DEF Seeking, IInv, LinkInv, OneLink
  <2>3. QED BY <2>2 DEF IInv, LinkInv, OneLink
<1>2. QED BY <1>1, Invariant, PTL

-----------------------------------------------------------------------------
(***************************************************************************)
(* An ERROR that was shown.                                                *)
(***************************************************************************)
\* It is final, and a teardown that is under way has seen it.
ErrorShown ==
  ErrorIsFinal /\ (main \in {"running", "entry", "drain", "free", "freed"} \/ wasError)

\* No thread leaves it: what could needs a link, or a seeker of one.
LEMMA ErrorStays ==
  ASSUME IInv, ErrorShown, Next
  PROVE  ErrorShown'
<1> USE DEF mainLocals, mainVars, connectVars, linkVars, bufVars, retryVars, IInv,
    ErrorShown, ErrorIsFinal, TypeOK, ReconnectThreads, LinkInv, OneLink, LinkOfConnect,
    Seeking, Restarting, Woken, AfterTeardown, InUse, Alive
<1>1. CASE Start
  BY <1>1 DEF Start
<1>2. CASE StartSpawnFails
  BY <1>2 DEF StartSpawnFails
<1>3. CASE TeardownEntry
  BY <1>3 DEF TeardownEntry
<1>4. CASE SetDisconnected
  BY <1>4 DEF SetDisconnected
<1>5. CASE StartFails \/ Stop \/ Destroy \/ TakeJob \/ CancelJob \/ ReleaseJob \/
    EndCapture \/ CancelReconnect \/ StopReconnect \/ ReadThread \/ JoinReconnect \/
    ClearActive \/ StopSend \/ WakeSend \/ JoinSend \/ FreeBuf \/ LockEncoder \/
    FlushEncoder \/ CloseShout \/ Free
  BY <1>5 DEF StartFails, Stop, Destroy, TakeJob, CancelJob, ReleaseJob, EndCapture,
      CancelReconnect, StopReconnect, ReadThread, JoinReconnect, ClearActive, StopSend,
      WakeSend, JoinSend, FreeBuf, LockEncoder, FlushEncoder, CloseShout, Free,
      ReconnectTo, MainOnly
<1>6. CASE OpenSucceeds \/ OpenFails \/ ConnectStep
  BY <1>6 DEF ConnectStep, OpenSucceeds, OpenFails, Publish, BeginCapture, InitBuf,
      SpawnSend, SpawnSendFails, PushStartup, ConnectEndCapture, ConnectCloseShout,
      ConnectLockEncoder, ConnectDropEncoder, ConnectSetError, DetachJob,
      SignalConnectFailed, CompleteJob, ReleaseConnect
<1>7. CASE SendStep \/ SpuriousWakeup
  BY <1>7 DEF SendStep, SendLock, SpuriousWakeup, SendBegin, SendSucceeds, SendFails,
      SendSetError, SendSignal, StartCheckActive, StartStopOld, StartJoin,
      StartClearActive, StartSetReconnecting, StartSetRunning, StartSpawn,
      StartReconnectSpawnFails, StartSetActive, SendAt, ReconnectTo
<1>8. ASSUME NEW t \in ReconnectThreads, ReconnectStep(t)
      PROVE  ErrorShown'
  BY <1>8 DEF ReconnectStep, ReconnectWakes, ReopenSucceeds, ReopenFails,
      ReconnectCheckEncoder, ReconnectLockEncoder, ReconnectReinit, ReconnectPublish,
      ReconnectSetConnected, ReconnectSetError, ReconnectSignal, ReconnectAt,
      ReconnectTo, ReconnectOnly
<1>9. CASE AudioCallback \/ AudioReturns
  BY <1>9 DEF AudioReturns, AudioCallback, AudioTry, AudioEncode, 
      AudioPush, AudioPushLocked, AudioAt, AudioOnly
<1>10. CASE Gone
  BY <1>10 DEF Gone, vars
<1>11. QED
  BY <1>1, <1>2, <1>3, <1>4, <1>5, <1>6, <1>7, <1>8, <1>9, <1>10 DEF Next, TeardownStep

\* An ERROR that the user has been shown stays until the context is freed, through
\* the stop that acknowledges it (radio-output.c 202-205).
THEOREM ErrorKept == Spec => ErrorIsKept
<1>1. IInv /\ main = "running" /\ state = "ERROR" => ErrorShown
  BY DEF IInv, UnstoppedInv, Unstopped, StateCorrected, ErrorShown
<1>2. IInv /\ ErrorShown /\ [Next]_vars => ErrorShown'
  <2>1. ASSUME IInv, ErrorShown, UNCHANGED vars PROVE ErrorShown'
    BY <2>1 DEF ErrorShown, ErrorIsFinal, Seeking, vars, mainLocals, mainVars,
                connectVars, linkVars
  <2>2. QED BY <2>1, ErrorStays
<1>3. ErrorShown => state = "ERROR"
  BY DEF ErrorShown, ErrorIsFinal
<1>4. QED BY <1>1, <1>2, <1>3, Invariant, PTL DEF Spec, ErrorIsKept

-----------------------------------------------------------------------------
(***************************************************************************)
(* RadioOutput implements ConnectJob, for the one output that it has.      *)
(***************************************************************************)
\* A function on the only output has, at it, the value it is made of.
LEMMA OnlyAt == \A v : Only(v)["output"] = v
BY DEF Only, Single

\* An update at the only output replaces the whole function.
LEMMA OnlyUpdate == \A v, w : [Only(v) EXCEPT !["output"] = w] = Only(w)
BY DEF Only, Single

\* A step that moves neither thread within the protocol, nor the job, is a stutter.
LEMMA JobStutter ==
  ASSUME MainOfJob' = MainOfJob, ThreadOfJob' = ThreadOfJob, job' = job
  PROVE  UNCHANGED Job!vars
BY DEF Job!vars, Only

\* An output that radio_output_create has made is one that ConnectJob starts from.
LEMMA JobInit == Init => Job!Init
BY DEF Init, Job!Init, MainOfJob, ThreadOfJob, NoJob, Only

\* The calls of the main thread.
LEMMA MainFollowsJob ==
  ASSUME IInv, Start \/ StartFails \/ StartSpawnFails \/ Stop \/ Destroy \/ TeardownStep
  PROVE  [Job!Next]_(Job!vars)
<1> USE DEF mainLocals, mainVars, connectVars, linkVars, bufVars, retryVars
<1>1. CASE Start
  <2>1. Job!Start("output")
    BY <1>1, OnlyAt, OnlyUpdate
    DEF Start, Job!Start, Job!MainFree, IInv, ControlInv, NotStarted, NoJob, MainOfJob,
        ThreadOfJob, Single
  <2>2. QED BY <2>1 DEF Job!Next, Single
<1>2. CASE StartFails
  <2>1. Job!StartFails("output")
    BY <1>2, OnlyAt, OnlyUpdate
    DEF StartFails, Job!StartFails, Job!MainFree, IInv, LinkInv, LinkOfConnect,
        MainOfJob, ThreadOfJob, Single
  <2>2. QED BY <2>1 DEF Job!Next, Single
<1>3. CASE StartSpawnFails
  <2>1. Job!SpawnFails("output")
    BY <1>3, OnlyAt, OnlyUpdate
    DEF StartSpawnFails, Job!SpawnFails, Job!MainFree, IInv, ControlInv, NotStarted,
        NoJob, MainOfJob, ThreadOfJob, Single
  <2>2. QED BY <2>1 DEF Job!Next, Single
<1>4. CASE Stop \/ Destroy
  <2>1. MainOfJob' = MainOfJob /\ ThreadOfJob' = ThreadOfJob /\ job' = job
    BY <1>4
    DEF Stop, Destroy, MainOfJob, ThreadOfJob
  <2>2. QED BY <2>1, JobStutter
<1>5. CASE TeardownEntry /\ state = "DISCONNECTED" /\ ~inStop
  <2>1. Job!DestroyDisconnected("output")
    BY <1>5, OnlyAt, OnlyUpdate
    DEF TeardownEntry, Job!DestroyDisconnected, Job!MainFree, AfterTeardown, MainOfJob,
        ThreadOfJob, Single
  <2>2. QED BY <2>1 DEF Job!Next, Single
<1>6. CASE TeardownEntry /\ (state # "DISCONNECTED" \/ inStop)
  <2>1. MainOfJob' = MainOfJob /\ ThreadOfJob' = ThreadOfJob /\ job' = job
    BY <1>6
    DEF TeardownEntry, AfterTeardown, MainOfJob, ThreadOfJob
  <2>2. QED BY <2>1, JobStutter
<1>7. CASE TakeJob
  <2>1. /\ job'.field = FALSE /\ job'.mem = job.mem /\ job'.canceled = job.canceled
        /\ job'.completed = job.completed /\ job'.refs = job.refs
        /\ job'.dropField = job.dropField
    BY <1>7 DEF TakeJob, IInv, TypeOK
  <2>2. MainOfJob = "idle" /\ MainOfJob' = IF job.field THEN "cancel" ELSE "teardown"
    BY <1>7 DEF TakeJob, MainOfJob
  <2>3. ThreadOfJob' = ThreadOfJob
    BY <1>7 DEF TakeJob, ThreadOfJob
  <2>4. Job!MainFree
    BY <2>2, OnlyAt DEF Job!MainFree, Single
  <2>5. Only(job'.field) = [Only(job.field) EXCEPT !["output"] = FALSE]
    BY <2>1, OnlyUpdate, Zenon
  <2>6. Only(MainOfJob') = [Only(MainOfJob) EXCEPT !["output"] =
                              IF Only(job.field)["output"] THEN "cancel" ELSE "teardown"]
    BY <2>2, OnlyAt, OnlyUpdate, Zenon
  <2>7. Job!TakeJob("output")
    BY <2>1, <2>2, <2>3, <2>4, <2>5, <2>6, OnlyAt, Zenon DEF Job!TakeJob
  <2>8. QED BY <2>7 DEF Job!Next, Single
<1>8. CASE CancelJob
  <2>1. Job!Cancel("output")
    BY <1>8, OnlyAt, OnlyUpdate
    DEF CancelJob, Job!Cancel, HoldsJobMutex, Job!HoldsJobMutex, IInv, TypeOK,
        ConnectPC, MainOfJob, ThreadOfJob, Single
  <2>2. QED BY <2>1 DEF Job!Next, Job!MainStep, Single
<1>9. CASE ReleaseJob
  <2>1. Job!ReleaseTaken("output")
    BY <1>9, OnlyAt, OnlyUpdate
    DEF ReleaseJob, Job!ReleaseTaken, Released, Job!Release, IInv, TypeOK, MainOfJob,
        ThreadOfJob, Single
  <2>2. QED BY <2>1 DEF Job!Next, Job!MainStep, Single
<1>10. CASE EndCapture \/ CancelReconnect \/ StopReconnect \/ ReadThread \/
    JoinReconnect \/ ClearActive \/ StopSend \/ WakeSend \/ JoinSend \/ FreeBuf \/
    LockEncoder \/ FlushEncoder \/ CloseShout
  <2>1. MainOfJob' = MainOfJob /\ ThreadOfJob' = ThreadOfJob /\ job' = job
    BY <1>10
    DEF EndCapture, CancelReconnect, StopReconnect, ReadThread, JoinReconnect,
        ClearActive, StopSend, WakeSend, JoinSend, FreeBuf, LockEncoder, FlushEncoder,
        CloseShout, ReconnectTo, MainOnly, MainOfJob, ThreadOfJob
  <2>2. QED BY <2>1, JobStutter
<1>11. CASE SetDisconnected /\ inStop
  <2>1. Job!StopReturns("output")
    BY <1>11, OnlyAt, OnlyUpdate
    DEF SetDisconnected, Job!StopReturns, MainOfJob, ThreadOfJob, Single
  <2>2. QED BY <2>1 DEF Job!Next, Job!MainStep, Single
<1>12. CASE SetDisconnected /\ ~inStop
  <2>1. MainOfJob' = MainOfJob /\ ThreadOfJob' = ThreadOfJob /\ job' = job
    BY <1>12
    DEF SetDisconnected, MainOfJob, ThreadOfJob
  <2>2. QED BY <2>1, JobStutter
<1>13. CASE Free
  <2>1. Job!DestroyFrees("output")
    BY <1>13, OnlyAt, OnlyUpdate
    DEF Free, MainOnly, Job!DestroyFrees, MainOfJob, ThreadOfJob, Single
  <2>2. QED BY <2>1 DEF Job!Next, Job!MainStep, Single
<1>14. QED
  BY <1>1, <1>2, <1>3, <1>4, <1>5, <1>6, <1>7, <1>8, <1>9, <1>10, <1>11, <1>12, <1>13
      DEF TeardownStep

\* The connect thread.
LEMMA ConnectFollowsJob ==
  ASSUME IInv, OpenSucceeds \/ OpenFails \/ ConnectStep
  PROVE  [Job!Next]_(Job!vars)
<1> USE DEF mainLocals, mainVars, connectVars, linkVars, bufVars, retryVars
<1>1. CASE OpenSucceeds \/ OpenFails
  <2>1. Job!OpenReturns("output")
    BY <1>1, OnlyAt, OnlyUpdate
    DEF OpenSucceeds, OpenFails, Job!OpenReturns, MainOfJob, ThreadOfJob, Single
  <2>2. QED BY <2>1 DEF Job!Next, Single
<1>2. CASE Publish \/ ConnectSetError
  <2>1. MainOfJob' = MainOfJob /\ ThreadOfJob' = ThreadOfJob /\ job' = job
    BY <1>2
    DEF Publish, ConnectSetError, IInv, LinkInv, LinkOfConnect, MainOfJob, ThreadOfJob
  <2>2. QED BY <2>1, JobStutter
<1>3. CASE \/ BeginCapture \/ InitBuf \/ SpawnSend \/ SpawnSendFails \/ PushStartup
           \/ ConnectEndCapture
           \/ ConnectCloseShout \/ ConnectLockEncoder \/ ConnectDropEncoder
  <2>1. MainOfJob' = MainOfJob /\ ThreadOfJob' = ThreadOfJob /\ job' = job
    BY <1>3
    DEF BeginCapture, InitBuf, SpawnSend, SpawnSendFails, PushStartup,
        ConnectEndCapture, ConnectCloseShout, ConnectLockEncoder, ConnectDropEncoder,
        MainOfJob, ThreadOfJob
  <2>2. QED BY <2>1, JobStutter
<1>4. CASE DetachJob
  <2>1. /\ job'.field = FALSE /\ job'.dropField = job.field /\ job'.mem = job.mem
        /\ job'.canceled = job.canceled /\ job'.completed = job.completed
        /\ job'.refs = job.refs
    BY <1>4 DEF DetachJob, IInv, TypeOK
  <2>2. ThreadOfJob = "completing" /\ ThreadOfJob' \in {"signalling", "unlocking"}
    BY <1>4 DEF DetachJob, ThreadOfJob
  <2>3. MainOfJob' = MainOfJob
    BY <1>4 DEF DetachJob, MainOfJob
  <2>4. Only(ThreadOfJob') \in {[Only(ThreadOfJob) EXCEPT !["output"] = pc] :
                                  pc \in {"signalling", "unlocking"}}
    BY <2>2, OnlyUpdate
  <2>5. Only(job'.field) = [Only(job.field) EXCEPT !["output"] = FALSE]
    BY <2>1, OnlyUpdate, Zenon
  <2>6. Only(job'.dropField) = [Only(job.dropField) EXCEPT !["output"] =
                                  Only(job.field)["output"]]
    BY <2>1, OnlyAt, OnlyUpdate, Zenon
  <2>7. Job!Detach("output")
    BY <2>1, <2>2, <2>3, <2>4, <2>5, <2>6, OnlyAt, Zenon DEF Job!Detach
  <2>8. QED BY <2>7 DEF Job!Next, Job!AfterOpen, Single
<1>5. CASE SignalConnectFailed
  <2>1. Job!SignalFailure("output")
    BY <1>5, OnlyAt, OnlyUpdate
    DEF SignalConnectFailed, Job!SignalFailure, MainOfJob, ThreadOfJob, Single
  <2>2. QED BY <2>1 DEF Job!Next, Job!AfterOpen, Single
<1>6. CASE CompleteJob
  <2>1. Job!Complete("output")
    BY <1>6, OnlyAt, OnlyUpdate
    DEF CompleteJob, Job!Complete, IInv, TypeOK, MainOfJob, ThreadOfJob, Single
  <2>2. QED BY <2>1 DEF Job!Next, Job!AfterOpen, Single
<1>7. CASE ReleaseConnect /\ connect = "releaseField"
  <2>1. /\ job'.refs = job.refs - 1
        /\ job'.mem = IF job.refs > 1 THEN job.mem ELSE "freed"
        /\ job'.field = job.field /\ job'.canceled = job.canceled
        /\ job'.completed = job.completed /\ job'.dropField = FALSE
    BY <1>7 DEF ReleaseConnect, Released, IInv, TypeOK
  <2>2. ThreadOfJob = "releaseField" /\ ThreadOfJob' = "releaseOwn"
    BY <1>7 DEF ReleaseConnect, ThreadOfJob
  <2>3. MainOfJob' = MainOfJob
    BY <1>7 DEF ReleaseConnect, MainOfJob
  <2>4. Only(job'.mem) = IF job.refs > 1 THEN Only(job.mem)
                         ELSE [Only(job.mem) EXCEPT !["output"] = "freed"]
    BY <2>1, OnlyUpdate
  <2>5. Only(job'.dropField) = [Only(job.dropField) EXCEPT !["output"] = FALSE]
    BY <2>1, OnlyUpdate, Zenon
  <2>6. Job!Release("output")
    BY <2>1, <2>4, OnlyAt, OnlyUpdate DEF Job!Release
  <2>7. Only(ThreadOfJob') = [Only(ThreadOfJob) EXCEPT !["output"] = "releaseOwn"]
    BY <2>2, OnlyUpdate, Zenon
  <2>8. Job!ReleaseField("output")
    BY <2>1, <2>2, <2>3, <2>5, <2>6, <2>7, OnlyAt, Zenon DEF Job!ReleaseField
  <2>9. QED BY <2>8 DEF Job!Next, Job!AfterOpen, Single
<1>8. CASE ReleaseConnect /\ connect = "releaseOwn"
  <2>1. /\ job'.refs = job.refs - 1
        /\ job'.mem = IF job.refs > 1 THEN job.mem ELSE "freed"
        /\ job'.field = job.field /\ job'.canceled = job.canceled
        /\ job'.completed = job.completed /\ job'.dropField = job.dropField
    BY <1>8 DEF ReleaseConnect, Released, IInv, TypeOK, ControlInv, OneHolder
  <2>2. ThreadOfJob = "releaseOwn" /\ ThreadOfJob' = "done"
    BY <1>8 DEF ReleaseConnect, ThreadOfJob
  <2>3. MainOfJob' = MainOfJob
    BY <1>8 DEF ReleaseConnect, MainOfJob
  <2>4. Only(job'.mem) = IF job.refs > 1 THEN Only(job.mem)
                         ELSE [Only(job.mem) EXCEPT !["output"] = "freed"]
    BY <2>1, OnlyUpdate
  <2>5. Job!ReleaseOwn("output")
    BY <2>1, <2>2, <2>3, <2>4, OnlyAt, OnlyUpdate DEF Job!ReleaseOwn, Job!Release
  <2>6. QED BY <2>5 DEF Job!Next, Job!AfterOpen, Single
<1>9. QED
  BY <1>1, <1>2, <1>3, <1>4, <1>5, <1>6, <1>7, <1>8 DEF ConnectStep, ReleaseConnect

\* The send thread, which is not in the protocol: an output that has one is not
\* DISCONNECTED.
LEMMA SendFollowsJob ==
  ASSUME IInv, SendStep \/ SpuriousWakeup
  PROVE  [Job!Next]_(Job!vars)
<1> USE DEF mainLocals, mainVars, connectVars, linkVars, bufVars, retryVars
<1>1. CASE SendSetError \/ StartSetReconnecting
  <2>1. MainOfJob' = MainOfJob /\ ThreadOfJob' = ThreadOfJob /\ job' = job
    BY <1>1
    DEF SendSetError, StartSetReconnecting, SendAt, IInv, BufferInv, DismantledByMain,
        SendAlive, MainOfJob, ThreadOfJob
  <2>2. QED BY <2>1, JobStutter
<1>2. CASE ~(SendSetError \/ StartSetReconnecting)
  <2>1. MainOfJob' = MainOfJob /\ ThreadOfJob' = ThreadOfJob /\ job' = job
    BY <1>2
    DEF SendLock, SpuriousWakeup, SendBegin, SendSucceeds, SendFails, SendSignal,
        StartCheckActive, StartStopOld, StartJoin, StartClearActive, StartSetRunning,
        StartSpawn, StartReconnectSpawnFails, StartSetActive, SendAt, ReconnectTo,
        SendStep, SpuriousWakeup, MainOfJob, ThreadOfJob
  <2>2. QED BY <2>1, JobStutter
<1>3. QED
  BY <1>1, <1>2

\* A reconnect thread, which shows in the protocol only when it outlives a stop.
LEMMA ReconnectFollowsJob ==
  ASSUME IInv, NEW t \in ReconnectThreads, ReconnectStep(t)
  PROVE  [Job!Next]_(Job!vars)
<1> USE DEF mainLocals, mainVars, connectVars, linkVars, bufVars, retryVars
<1>1. CASE /\ ReconnectSetConnected(t) \/ ReconnectSetError(t)
          /\ state = "DISCONNECTED" /\ main \in {"running", "entry", "drain"}
  <2>1. Job!StateSetAgain("output")
    BY <1>1, OnlyAt, OnlyUpdate
    DEF ReconnectSetConnected, ReconnectSetError, ReconnectAt, ReconnectTo,
        Job!StateSetAgain, IInv, BufferInv, ReconnectBySender, BuiltByConnect,
        DismantledByMain, MainOfJob, ThreadOfJob, Single
  <2>2. QED BY <2>1 DEF Job!Next, Single
<1>2. CASE /\ ReconnectSetConnected(t) \/ ReconnectSetError(t)
          /\ ~(state = "DISCONNECTED" /\ main \in {"running", "entry", "drain"})
  <2>1. MainOfJob' = MainOfJob /\ ThreadOfJob' = ThreadOfJob /\ job' = job
    BY <1>2
    DEF ReconnectSetConnected, ReconnectSetError, ReconnectAt, ReconnectTo, MainOfJob,
        ThreadOfJob
  <2>2. QED BY <2>1, JobStutter
<1>3. CASE ~(ReconnectSetConnected(t) \/ ReconnectSetError(t))
  <2>1. MainOfJob' = MainOfJob /\ ThreadOfJob' = ThreadOfJob /\ job' = job
    BY <1>3
    DEF ReconnectWakes, ReopenSucceeds, ReopenFails, ReconnectCheckEncoder,
        ReconnectLockEncoder, ReconnectReinit, ReconnectPublish, ReconnectSignal,
        ReconnectAt, ReconnectTo, ReconnectOnly, ReconnectStep, MainOfJob, ThreadOfJob
  <2>2. QED BY <2>1, JobStutter
<1>4. QED
  BY <1>1, <1>2, <1>3

\* Hence every step of the output is one of the protocol, or none.
LEMMA JobNext == IInv /\ [Next]_vars => [Job!Next]_(Job!vars)
<1> SUFFICES ASSUME IInv, [Next]_vars PROVE [Job!Next]_(Job!vars)
  OBVIOUS
<1>1. CASE AudioCallback \/ AudioReturns
  <2>1. MainOfJob' = MainOfJob /\ ThreadOfJob' = ThreadOfJob /\ job' = job
    BY <1>1
    DEF AudioCallback, AudioTry, AudioEncode, AudioPush, AudioPushLocked, AudioAt,
        AudioOnly, AudioReturns, mainLocals, mainVars, connectVars, MainOfJob,
        ThreadOfJob
  <2>2. QED BY <2>1, JobStutter
<1>2. CASE UNCHANGED vars
  <2>1. MainOfJob' = MainOfJob /\ ThreadOfJob' = ThreadOfJob /\ job' = job
    BY <1>2 DEF vars, mainLocals, mainVars, connectVars, MainOfJob, ThreadOfJob
  <2>2. QED BY <2>1, JobStutter
<1>3. QED
  BY <1>1, <1>2, MainFollowsJob, ConnectFollowsJob, SendFollowsJob, ReconnectFollowsJob
  DEF Next, Gone

\* The threads of one output follow the connect protocol whatever else they do, so
\* what ConnectJobProofs proves of the job and of the context holds of them: no
\* teardown is past its cancel step while a start is completed, and the job lives
\* as long as it is used and no longer.
THEOREM FollowsConnectJob == Spec => ImplementsConnectJob
BY JobInit, JobNext, Invariant, PTL DEF Spec, ImplementsConnectJob, Job!Spec

-----------------------------------------------------------------------------
(***************************************************************************)
(* Without automatic reconnect RadioOutput implements OutputStates.  (With *)
(* it, a reconnect thread that outlives a Stop takes the state from        *)
(* DISCONNECTED to CONNECTED.)                                             *)
(***************************************************************************)
LEMMA ShownInit == Init => Shown!Init
BY DEF Init, Shown!Init

\* Every step of an output without reconnect is one the dock can explain.
LEMMA ShownNext ==
  ASSUME ~ReconnectEnabled, IInv, [Next]_vars
  PROVE  [Shown!Next]_(Shown!vars)
<1> USE DEF Shown!Next, Shown!vars, mainLocals, mainVars, connectVars, linkVars, bufVars,
            retryVars
<1>1. CASE Start
  BY <1>1
  DEF Start, Shown!Connecting, Shown!Becomes, IInv, LinkInv, LinkOfConnect
<1>2. CASE StartSpawnFails
  BY <1>2
  DEF StartSpawnFails, Shown!NoAttempt, Shown!Becomes, IInv, LinkInv, LinkOfConnect
<1>3. CASE Stop
  BY <1>3
  DEF Stop, Shown!AskStop
<1>4. CASE SetDisconnected
  BY <1>4
  DEF SetDisconnected, Shown!Disconnected, IInv, ControlInv, NothingToCancel
<1>5. CASE Publish
  BY <1>5
  DEF Publish, Shown!Connected, IInv, LinkInv, LinkOfConnect
<1>6. CASE ConnectSetError
  BY <1>6
  DEF ConnectSetError, Shown!ConnectFailed, IInv, LinkInv, LinkOfConnect
<1>7. CASE SendSetError
  BY <1>7
  DEF SendSetError, SendAt, Shown!LinkLost, IInv, PlainInv
<1>8. CASE StartSetReconnecting \/ \E t \in ReconnectThreads : ReconnectStep(t)
  BY <1>8
  DEF StartSetReconnecting, ReconnectWakes, ReopenSucceeds, ReopenFails,
      ReconnectCheckEncoder, ReconnectLockEncoder, ReconnectReinit, ReconnectPublish,
      ReconnectSetConnected, ReconnectSetError, ReconnectSignal, SendAt, ReconnectAt,
      ReconnectTo, ReconnectOnly, ReconnectStep, IInv, BufferInv, ReconnectBySender,
      Restarting
<1>9. CASE (TeardownStep /\ ~SetDisconnected) \/ StartFails \/ Destroy
  BY <1>9
  DEF StartFails, Destroy, TeardownEntry, TakeJob, CancelJob, ReleaseJob, EndCapture,
      CancelReconnect, StopReconnect, ReadThread, JoinReconnect, ClearActive, StopSend,
      WakeSend, JoinSend, FreeBuf, LockEncoder, FlushEncoder, CloseShout, Free,
      ReconnectTo, MainOnly, TeardownStep, AfterTeardown
<1>10. CASE OpenSucceeds \/ OpenFails \/ (ConnectStep /\ ~Publish /\ ~ConnectSetError)
  BY <1>10
  DEF OpenSucceeds, OpenFails, BeginCapture, InitBuf, SpawnSend, SpawnSendFails,
      PushStartup, ConnectEndCapture, ConnectCloseShout, ConnectLockEncoder,
      ConnectDropEncoder, DetachJob, SignalConnectFailed, CompleteJob, ReleaseConnect,
      ConnectStep
<1>11. CASE SpuriousWakeup \/ (SendStep /\ ~SendSetError /\ ~StartSetReconnecting)
  BY <1>11
  DEF SendLock, SpuriousWakeup, SendBegin, SendSucceeds, SendFails, SendSignal,
      StartCheckActive, StartStopOld, StartJoin, StartClearActive, StartSetRunning,
      StartSpawn, StartReconnectSpawnFails, StartSetActive, SendAt, ReconnectTo,
      SendStep
<1>12. CASE AudioCallback \/ AudioReturns \/ UNCHANGED vars
  BY <1>12
  DEF AudioCallback, AudioTry, AudioEncode, AudioPush, AudioPushLocked,
      AudioAt, AudioOnly, AudioReturns, vars
<1>13. QED
  BY <1>1, <1>2, <1>3, <1>4, <1>5, <1>6, <1>7, <1>8, <1>9, <1>10, <1>11, <1>12 DEF Next,
      Gone

\* Without automatic reconnect every change of the state, whichever thread makes it,
\* is one that OutputStates has: ERROR stays until a Stop, nothing follows DISCONNECTED.
THEOREM ShowsItsStates ==
  ASSUME ~ReconnectEnabled
  PROVE  Spec => ImplementsOutputStates
<1>1. IInv /\ [Next]_vars => [Shown!Next]_(Shown!vars)
  BY ShownNext
<1>2. QED BY <1>1, ShownInit, Invariant, PTL DEF Spec, ImplementsOutputStates, Shown!Spec
=============================================================================
