--------------------------- MODULE FrontendProofs ----------------------------
(***************************************************************************)
(* Ownership of the outputs, for any number of them: between two tasks the *)
(* active pointer is of a live output, each live output has one owner,     *)
(* unless the script has dropped it, and the unload leaves none of the     *)
(* frontend's.  The three invariants are inductive with the types.         *)
(* That a start request spares the broadcast that runs follows from them:  *)
(* with the frontend as the only owner the active output, if any, is the   *)
(* one of its handle.                                                      *)
(***************************************************************************)
EXTENDS Frontend, TLAPS

IInv == TypeOK /\ ActiveIsAlive /\ EveryOutputHasItsOwner /\ NothingSurvivesUnload

\* The part of the state that the operators of libobs work on.
Worlds == [life : [Outputs -> {"none", "live", "destroyed"}],
           state : [Outputs -> States],
           active : Outputs \union {None}]

-----------------------------------------------------------------------------
\* obs_output_stop touches one state and no life.
LEMMA StoppedWorld ==
  ASSUME TypeOK, NEW o \in Outputs \union {None}
  PROVE  /\ Stopped(World, o) \in Worlds
         /\ Stopped(World, o).life = life
         /\ Stopped(World, o).active = active
BY DEF TypeOK, Stopped, World, Worlds, States, Capturing

\* The last reference destroys one output, and nobody points to it afterwards.
LEMMA ReleasedWorld ==
  ASSUME NEW w \in Worlds, NEW o \in Outputs \union {None},
         w.active # None => w.life[w.active] = "live"
  PROVE  LET r == Released(w, o)
         IN /\ r \in Worlds
            /\ r.active # None => r.life[r.active] = "live"
            /\ \A p \in Outputs : r.life[p] = "live" <=> p # o /\ w.life[p] = "live"
BY OutputsAssumption DEF Released, Worlds, States

\* A new output is alive and active; the others live on.
LEMMA CreatedWorld ==
  ASSUME NEW w \in Worlds, NEW o \in Fresh(w), NEW s \in StartResults
  PROVE  LET c == Created(w, o, s)
         IN /\ c \in Worlds
            /\ c.active = o
            /\ \A p \in Outputs : c.life[p] = "live" <=> p = o \/ w.life[p] = "live"
BY DEF Created, Worlds, States, Fresh, StartResults

-----------------------------------------------------------------------------
\* What each task does to the world and to the handles keeps IInv.  In the lemmas
\* below w, r and c are the worlds between the calls of a task.
LEMMA WorldTyped == TypeOK => World \in Worlds
BY DEF TypeOK, World, Worlds

\* A start of the frontend keeps the owners apart.
LEMMA StartKeeps == ASSUME IInv, StartOutput, Others, loaded PROVE IInv'
<1>1. World \in Worlds
  BY WorldTyped DEF IInv
<1>2. CASE handle # None /\ ~Errored /\ UNCHANGED <<life, state, active, handle>>
  BY <1>2 DEF IInv, TypeOK, ActiveIsAlive, EveryOutputHasItsOwner,
              NothingSurvivesUnload, Others
<1>3. CASE handle = None \/ Errored
  <2> DEFINE w == Released(World, handle)
  <2>1. /\ w \in Worlds
        /\ w.active # None => w.life[w.active] = "live"
        /\ \A p \in Outputs : w.life[p] = "live" <=> p # handle /\ life[p] = "live"
    BY <1>1, ReleasedWorld DEF IInv, TypeOK, ActiveIsAlive, World
  <2> HIDE DEF w
  <2>2. CASE Becomes(w) /\ handle' = None
    BY <2>1, <2>2, OutputsAssumption
    DEF IInv, TypeOK, ActiveIsAlive, EveryOutputHasItsOwner, NothingSurvivesUnload,
        Others, Becomes, Worlds
  <2>3. ASSUME NEW o \in Fresh(w), NEW s \in StartResults,
               Becomes(Created(w, o, s)), handle' = o
        PROVE  IInv'
    <3> DEFINE c == Created(w, o, s)
    <3>1. /\ c \in Worlds /\ c.active = o
          /\ \A p \in Outputs : c.life[p] = "live" <=> p = o \/ w.life[p] = "live"
      BY <2>1, CreatedWorld
    <3>2. o \in Outputs /\ w.life[o] = "none"
      BY DEF Fresh
    <3>3. o # lua
      BY <2>1, <3>2, OutputsAssumption DEF IInv, EveryOutputHasItsOwner, TypeOK
    <3> HIDE DEF c
    <3>4. life' = c.life /\ state' = c.state /\ active' = c.active
      BY <2>3 DEF Becomes, c
    <3>5. QED
      BY <2>1, <2>3, <3>1, <3>2, <3>3, <3>4, OutputsAssumption
      DEF IInv, TypeOK, ActiveIsAlive, EveryOutputHasItsOwner, NothingSurvivesUnload,
          Others, Worlds
  <2>4. QED
    BY <1>2, <1>3, <2>2, <2>3 DEF StartOutput, w
<1>4. QED BY <1>2, <1>3 DEF StartOutput

\* A stop, whatever is active, releases what the frontend owns and nothing else.
LEMMA StopKeeps ==
  ASSUME IInv, StopOutput, UNCHANGED <<lua, dropped, stopEnabled, withStreaming>>,
         loaded' \in BOOLEAN
  PROVE  IInv'
<1> DEFINE w == Stopped(World, active)
           r == Released(w, handle)
<1>1. w \in Worlds /\ w.life = life /\ w.active = active
  BY StoppedWorld DEF IInv, TypeOK
<1> HIDE DEF w
<1>2. /\ r \in Worlds
      /\ r.active # None => r.life[r.active] = "live"
      /\ \A p \in Outputs : r.life[p] = "live" <=> p # handle /\ life[p] = "live"
  <2>1. handle \in Outputs \union {None} /\ (w.active # None => w.life[w.active] = "live")
    BY <1>1 DEF IInv, TypeOK, ActiveIsAlive
  <2>2. QED BY <1>1, <2>1, ReleasedWorld
<1>3. Becomes(r) /\ handle' = None
  BY DEF StopOutput, w
<1> HIDE DEF r
<1>4. life' = r.life /\ state' = r.state /\ active' = r.active
  BY <1>3 DEF Becomes
<1>5. EveryOutputHasItsOwner'
  BY <1>2, <1>3, <1>4, OutputsAssumption DEF IInv, TypeOK, EveryOutputHasItsOwner
<1>6. TypeOK' /\ ActiveIsAlive'
  BY <1>2, <1>3, <1>4 DEF IInv, TypeOK, ActiveIsAlive, Worlds
<1>7. QED
  BY <1>3, <1>5, <1>6, OutputsAssumption
  DEF IInv, TypeOK, EveryOutputHasItsOwner, NothingSurvivesUnload

\* The script releases its own output only.
LEMMA LuaStopKeeps == ASSUME IInv, LuaStop PROVE IInv'
<1> DEFINE w == Stopped(World, lua)
           r == Released(w, lua)
<1>1. w \in Worlds /\ w.life = life /\ w.active = active
  BY StoppedWorld DEF IInv, TypeOK
<1> HIDE DEF w
<1>2. /\ r \in Worlds
      /\ r.active # None => r.life[r.active] = "live"
      /\ \A p \in Outputs : r.life[p] = "live" <=> p # lua /\ life[p] = "live"
  BY <1>1, ReleasedWorld DEF IInv, TypeOK, ActiveIsAlive
<1>3. /\ Becomes(r) /\ lua' = None
      /\ UNCHANGED <<handle, dropped, stopEnabled, withStreaming, loaded>>
  BY DEF LuaStop, w
<1> HIDE DEF r
<1>4. life' = r.life /\ state' = r.state /\ active' = r.active
  BY <1>3 DEF Becomes
<1>5. EveryOutputHasItsOwner'
  BY <1>2, <1>3, <1>4, OutputsAssumption DEF IInv, TypeOK, EveryOutputHasItsOwner
<1>6. TypeOK' /\ ActiveIsAlive'
  BY <1>2, <1>3, <1>4 DEF IInv, TypeOK, ActiveIsAlive, Worlds
<1>7. QED
  BY <1>3, <1>5, <1>6, OutputsAssumption
  DEF IInv, TypeOK, EveryOutputHasItsOwner, NothingSurvivesUnload

\* The script replaces its output by a new one.
LEMMA LuaStartKeeps == ASSUME IInv, LuaStart PROVE IInv'
<1> DEFINE w == Stopped(World, lua)
           r == Released(w, lua)
<1>1. w \in Worlds /\ w.life = life /\ w.active = active
  BY StoppedWorld DEF IInv, TypeOK
<1> HIDE DEF w
<1>2. /\ r \in Worlds
      /\ r.active # None => r.life[r.active] = "live"
      /\ \A p \in Outputs : r.life[p] = "live" <=> p # lua /\ life[p] = "live"
  BY <1>1, ReleasedWorld DEF IInv, TypeOK, ActiveIsAlive
<1>3. PICK o \in Fresh(r), s \in StartResults :
        Becomes(Created(r, o, s)) /\ lua' = o
  BY DEF LuaStart, w
<1> HIDE DEF r
<1> DEFINE c == Created(r, o, s)
<1>4. /\ c \in Worlds /\ c.active = o
      /\ \A p \in Outputs : c.life[p] = "live" <=> p = o \/ r.life[p] = "live"
  BY <1>2, CreatedWorld
<1>5. o \in Outputs /\ r.life[o] = "none"
  BY DEF Fresh
<1>6. o # handle
  BY <1>2, <1>5, OutputsAssumption DEF IInv, EveryOutputHasItsOwner, TypeOK
<1>7. /\ life' = c.life /\ state' = c.state /\ active' = c.active
      /\ loaded /\ UNCHANGED <<handle, dropped, stopEnabled, withStreaming, loaded>>
  BY <1>3 DEF Becomes, LuaStart
<1> HIDE DEF c
<1> HIDE DEF r
<1>8. o \notin dropped
  BY <1>2, <1>5 DEF IInv, EveryOutputHasItsOwner
<1>9. EveryOutputHasItsOwner'
  BY <1>2, <1>3, <1>4, <1>5, <1>6, <1>7, <1>8, OutputsAssumption
  DEF IInv, TypeOK, EveryOutputHasItsOwner
<1>10. TypeOK' /\ ActiveIsAlive'
  BY <1>3, <1>4, <1>5, <1>7 DEF IInv, TypeOK, ActiveIsAlive, Worlds
<1>11. QED
  BY <1>7, <1>9, <1>10 DEF IInv, NothingSurvivesUnload

\* A reload of the script turns its output into a dropped one.
LEMMA LuaReloadKeeps == ASSUME IInv, LuaReload PROVE IInv'
BY OutputsAssumption
DEF LuaReload, IInv, TypeOK, ActiveIsAlive, EveryOutputHasItsOwner,
    NothingSurvivesUnload, States

\* The threads of an output move its state and nothing else.
LEMMA MovesKeep ==
  ASSUME IInv, NEW o \in Outputs, OutputMoves(o)
  PROVE  IInv'
BY DEF OutputMoves, Moves, IInv, TypeOK, ActiveIsAlive, EveryOutputHasItsOwner,
       NothingSurvivesUnload, States

\* So do the poll and the config.
LEMMA PollKeeps == ASSUME IInv, ApplyConfig \/ PollState PROVE IInv'
BY OutputsAssumption
DEF ApplyConfig, PollState, IInv, TypeOK, ActiveIsAlive, EveryOutputHasItsOwner,
    NothingSurvivesUnload, States

\* A new process finds no output of the last one.
LEMMA LoadKeeps == ASSUME IInv, Load PROVE IInv'
BY DEF Load, IInv, TypeOK, ActiveIsAlive, EveryOutputHasItsOwner, NothingSurvivesUnload,
       States

\* Whatever lives goes with the process, and with it whoever pointed to it.
LEMMA EndKeeps == ASSUME IInv, ProcessEnds PROVE IInv'
BY OutputsAssumption
DEF ProcessEnds, IInv, TypeOK, ActiveIsAlive, EveryOutputHasItsOwner,
    NothingSurvivesUnload, States

-----------------------------------------------------------------------------
\* No output exists at the start.
LEMMA InvInit == Init => IInv
BY OutputsAssumption
DEF Init, IInv, TypeOK, ActiveIsAlive, EveryOutputHasItsOwner, NothingSurvivesUnload,
    States

\* Every task and every move of a thread keeps the invariant.
LEMMA InvNext == IInv /\ [Next]_vars => IInv'
<1> SUFFICES ASSUME IInv, [Next]_vars
             PROVE  IInv'
  OBVIOUS
<1>1. CASE UNCHANGED vars
  BY <1>1 DEF vars, IInv, TypeOK, ActiveIsAlive, EveryOutputHasItsOwner,
              NothingSurvivesUnload
<1>2. CASE OnStart \/ RemoteStart \/ StreamingStarting
  BY <1>2, StartKeeps DEF OnStart, RemoteStart, StreamingStarting
<1>3. CASE OnStop \/ RemoteStop \/ StreamingStopping \/ Unload
  BY <1>3, StopKeeps DEF OnStop, RemoteStop, StreamingStopping, Unload, Others, IInv, TypeOK
<1>4. QED
  BY <1>1, <1>2, <1>3, PollKeeps, LuaStartKeeps, LuaStopKeeps, LuaReloadKeeps, MovesKeep,
     LoadKeeps, EndKeeps
  DEF Next

\* The invariant holds in every behaviour.
THEOREM Invariant == Spec => []IInv
BY InvInit, InvNext, PTL DEF Spec

\* The pointers point to outputs, and a state is one of the five.
THEOREM TypeCorrect == Spec => []TypeOK
<1>1. IInv => TypeOK
  BY DEF IInv
<1>2. QED BY <1>1, Invariant, PTL

\* Between two tasks of the UI thread the active output is none or a live one.
THEOREM ActiveSafe == Spec => []ActiveIsAlive
<1>1. IInv => ActiveIsAlive
  BY DEF IInv
<1>2. QED BY <1>1, Invariant, PTL

\* Each live output that the script has not dropped has one owner, and each handle a
\* live output.
THEOREM Owned == Spec => []EveryOutputHasItsOwner
<1>1. IInv => EveryOutputHasItsOwner
  BY DEF IInv
<1>2. QED BY <1>1, Invariant, PTL

\* The unload leaves no output of the frontend.
THEOREM UnloadComplete == Spec => []NothingSurvivesUnload
<1>1. IInv => NothingSurvivesUnload
  BY DEF IInv
<1>2. QED BY <1>1, Invariant, PTL

\* Without a script, no start request ends a broadcast.
THEOREM StartSpares == Spec => StartSparesBroadcast
<1>1. ASSUME IInv, Next, handle # None, lua = None, dropped = {},
             state[handle] \in Running, handle' # handle
      PROVE  StopOutput \/ ProcessEnds
  <2>1. ~Errored
    BY <1>1 DEF Errored, IInv, TypeOK, ActiveIsAlive, EveryOutputHasItsOwner, Running
  <2>2. ~StartOutput
    BY <1>1, <2>1 DEF StartOutput
  <2>3. QED
    BY <1>1, <2>2
    DEF Next, OnStart, OnStop, RemoteStart, RemoteStop, StreamingStarting,
        StreamingStopping, ApplyConfig, PollState, Unload, Load, LuaStart, LuaStop,
        LuaReload, OutputMoves, Moves
<1>2. IInv /\ [Next]_vars
        => [handle # None /\ lua = None /\ dropped = {} /\ state[handle] \in Running
              /\ handle' # handle
              => StopOutput \/ ProcessEnds]_vars
  BY <1>1
<1>3. QED BY <1>2, Invariant, PTL DEF Spec, StartSparesBroadcast
=============================================================================
