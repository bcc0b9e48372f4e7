---------------------------- MODULE ConfigProofs -----------------------------
(***************************************************************************)
(* The settings, for any outputs and any entries of the combo box.  With   *)
(* them the frontend still is the one of Frontend, so that the theorems of *)
(* FrontendProofs hold of it; the last save that succeeded is always on    *)
(* the disk; the live settings are the saved ones unless a save has        *)
(* failed; and a dialog nobody touches changes nothing.                    *)
(***************************************************************************)
EXTENDS Config, TLAPS

\* An untouched dialog shows the settings as they are.
DialogShowsConfig ==
  dialog # None /\ untouched =>
    dialog = [withStreaming |-> withStreaming, bitrate |-> Shown(bitrate)]

\* No dialog outlives the module.
DialogIsOfLoaded == dialog # None => loaded

IInv ==
  /\ withStreaming \in BOOLEAN /\ loaded \in BOOLEAN
  /\ ConfigTypeOK
  /\ LastSaveIsOnDisk
  /\ LiveConfigIsOnDisk
  /\ DialogShowsConfig
  /\ DialogIsOfLoaded

-----------------------------------------------------------------------------
(***************************************************************************)
(* The frontend of Config is a frontend of Frontend.                       *)
(***************************************************************************)
\* What is clicked and what comes through the event loop is in Frontend's Next.
LEMMA RunsAreSteps == Clicks \/ Events => Next
BY DEF Clicks, Events, Next

\* Every step with the settings is one of the frontend or leaves it alone.
LEMMA StepSimulation == [ConfigNext]_allVars => [Next]_vars
<1> SUFFICES ASSUME [ConfigNext]_allVars
             PROVE  [Next]_vars
  OBVIOUS
<1>1. CASE UNCHANGED allVars
  BY <1>1 DEF allVars, vars
<1>2. CASE OpenDialog \/ EditDialog \/ RejectDialog
  BY <1>2 DEF OpenDialog, EditDialog, RejectDialog, vars
<1>3. CASE AcceptDialog \/ ApplyPatch
  BY <1>3 DEF AcceptDialog, ApplyPatch, Next
<1>4. CASE FrontendRuns
  BY <1>4, RunsAreSteps DEF FrontendRuns
<1>5. CASE UnloadAndSave \/ LoadFromDisk \/ ConfigGone
  BY <1>5 DEF UnloadAndSave, LoadFromDisk, ConfigGone, Next
<1>6. QED BY <1>1, <1>2, <1>3, <1>4, <1>5 DEF ConfigNext

\* The settings, the dialog and the files take nothing from the frontend and add
\* nothing to it: what is proved of Frontend holds of the whole.
THEOREM ImplementsFrontend == ConfigSpec => Spec
<1>1. ConfigInit => Init
  BY DEF ConfigInit
<1>2. QED BY <1>1, StepSimulation, PTL DEF ConfigSpec, Spec

-----------------------------------------------------------------------------
\* The dialog is no record of settings when it is closed, and a file no record when
\* it is missing.
LEMMA LoadedConfig ==
  ASSUME NEW f \in Configs \union {Missing}, NEW c \in Loaded(f)
  PROVE  c \in Configs
<1>1. Defaults \in Configs
  BY ConfigAssumption DEF Configs, Defaults, Bitrates
<1>2. c = Defaults \/ (c = f /\ f # Missing)
  BY DEF Loaded
<1>3. QED BY <1>1, <1>2

\* Settings are equal when their members are.
LEMMA CurrentIs ==
  ASSUME NEW c \in Configs
  PROVE  [withStreaming |-> c.withStreaming, bitrate |-> c.bitrate] = c
BY DEF Configs

\* However a save of c ends, the last one that succeeded is on the disk, and the
\* file is c or the save has failed.
LEMMA SaveKeeps ==
  ASSUME IInv, NEW c \in Configs, Save(c)
  PROVE  /\ file' \in Configs \union {Missing} /\ backup' \in Configs \union {Missing}
         /\ saved' \in Configs \union {Missing} /\ unsaved' \in BOOLEAN
         /\ LastSaveIsOnDisk'
         /\ unsaved' \/ file' = c
<1>1. CASE SaveSucceeds(c)
  BY <1>1, MissingAssumption DEF SaveSucceeds, IInv, ConfigTypeOK, LastSaveIsOnDisk
<1>2. CASE SaveFailsEarly
  BY <1>2 DEF SaveFailsEarly, IInv, ConfigTypeOK, LastSaveIsOnDisk
<1>3. CASE SaveFailsBetween
  BY <1>3 DEF SaveFailsBetween, IInv, ConfigTypeOK, LastSaveIsOnDisk
<1>4. QED BY <1>1, <1>2, <1>3 DEF Save

\* The widgets hold settings.
LEMMA DialogConfig ==
  ASSUME IInv, dialog # None
  PROVE  dialog \in Configs /\ dialog.bitrate \in Listed
BY DEF IInv, ConfigTypeOK, Configs, Bitrates

\* No task of the frontend sets start_with_streaming.
LEMMA RunsKeepConfig ==
  Clicks \/ Events => UNCHANGED <<withStreaming, loaded>>
BY DEF Clicks, Events, OnStart, OnStop, LuaStart, LuaStop, RemoteStart, RemoteStop,
       LuaReload, StreamingStarting, StreamingStopping, PollState, OutputMoves, Moves, Others

-----------------------------------------------------------------------------
\* The first process finds what an earlier one has saved, or nothing.
LEMMA InvInit == ConfigInit => IInv
<1> SUFFICES ASSUME ConfigInit
             PROVE  IInv
  OBVIOUS
<1>1. PICK c \in Loaded(file) :
        withStreaming = c.withStreaming /\ bitrate = c.bitrate /\ unsaved = (c # file)
  BY DEF ConfigInit
<1>2. c \in Configs
  BY LoadedConfig DEF ConfigInit
<1>3. withStreaming \in BOOLEAN /\ bitrate \in Bitrates /\ Current = c
  BY <1>1, <1>2, CurrentIs DEF Configs, Current
<1>4. QED
  BY <1>1, <1>3
  DEF ConfigInit, Init, IInv, ConfigTypeOK, LastSaveIsOnDisk, LiveConfigIsOnDisk,
      DialogShowsConfig, DialogIsOfLoaded

\* The dialog opens with what is set, and is edited or closed.
LEMMA DialogKeeps ==
  ASSUME IInv, OpenDialog \/ EditDialog \/ RejectDialog
  PROVE  IInv'
<1>1. UNCHANGED <<withStreaming, loaded, bitrate, file, backup, saved, unsaved>>
  BY DEF OpenDialog, EditDialog, RejectDialog, vars
<1>2. /\ dialog' \in [withStreaming : BOOLEAN, bitrate : Listed] \union {None}
      /\ untouched' \in BOOLEAN
      /\ dialog' # None => loaded
  <2>1. CASE OpenDialog
    <3>1. Shown(bitrate) \in Listed
      BY ConfigAssumption DEF Shown
    <3>2. QED BY <2>1, <3>1 DEF OpenDialog, IInv
  <2>2. CASE EditDialog
    BY <2>2 DEF EditDialog, IInv, DialogIsOfLoaded
  <2>3. CASE RejectDialog
    BY <2>3 DEF RejectDialog, CloseDialog
  <2>4. QED BY <2>1, <2>2, <2>3
<1>3. DialogShowsConfig'
  BY <1>1 DEF OpenDialog, EditDialog, RejectDialog, CloseDialog, Shown, DialogShowsConfig
<1>4. QED
  BY <1>1, <1>2, <1>3
  DEF IInv, ConfigTypeOK, LastSaveIsOnDisk, LiveConfigIsOnDisk, DialogIsOfLoaded, Current

\* Both ways to change the settings save them.
LEMMA ChangeKeeps ==
  ASSUME IInv, AcceptDialog \/ ApplyPatch
  PROVE  IInv'
<1>1. CASE AcceptDialog
  <2>1. dialog \in Configs
    BY <1>1, DialogConfig DEF AcceptDialog
  <2>2. Current' = dialog /\ withStreaming' \in BOOLEAN /\ bitrate' \in Bitrates
    BY <1>1, <2>1, CurrentIs DEF AcceptDialog, Current, Configs
  <2>3. QED
    BY <1>1, <2>1, <2>2, SaveKeeps
    DEF AcceptDialog, ApplyConfig, CloseDialog, IInv, ConfigTypeOK, LiveConfigIsOnDisk,
        DialogShowsConfig, DialogIsOfLoaded
<1>2. CASE ApplyPatch
  <2>1. Current' \in Configs /\ withStreaming' \in BOOLEAN /\ bitrate' \in Bitrates
    BY <1>2 DEF ApplyPatch, ApplyConfig, Current, Configs
  <2>2. Save(Current')
    BY <1>2 DEF ApplyPatch, Current
  <2>3. QED
    BY <1>2, <2>1, <2>2, SaveKeeps
    DEF ApplyPatch, ApplyConfig, IInv, ConfigTypeOK, LiveConfigIsOnDisk, DialogShowsConfig,
        DialogIsOfLoaded
<1>3. QED BY <1>1, <1>2

\* The life of the process, with its load and its last save.
LEMMA LifeKeeps ==
  ASSUME IInv, UnloadAndSave \/ LoadFromDisk \/ ConfigGone
  PROVE  IInv'
<1>1. CASE UnloadAndSave
  <2>1. Current \in Configs
    BY DEF IInv, ConfigTypeOK, Current, Configs
  <2>2. QED
    BY <1>1, <2>1, SaveKeeps
    DEF UnloadAndSave, Unload, IInv, ConfigTypeOK, LiveConfigIsOnDisk,
        DialogShowsConfig, DialogIsOfLoaded
<1>2. CASE LoadFromDisk
  <2>1. PICK c \in Loaded(file) :
          withStreaming' = c.withStreaming /\ bitrate' = c.bitrate /\ unsaved' = (c # file)
    BY <1>2 DEF LoadFromDisk
  <2>2. Current' = c /\ withStreaming' \in BOOLEAN /\ bitrate' \in Bitrates
    <3>1. c \in Configs
      BY LoadedConfig DEF IInv, ConfigTypeOK
    <3>2. QED BY <2>1, <3>1, CurrentIs DEF Current, Configs
  <2>3. dialog' # None /\ untouched' => FALSE
    BY <1>2 DEF LoadFromDisk, Load, IInv, DialogIsOfLoaded
  <2>4. QED
    BY <1>2, <2>1, <2>2, <2>3
    DEF LoadFromDisk, Load, IInv, ConfigTypeOK, LastSaveIsOnDisk,
        LiveConfigIsOnDisk, DialogShowsConfig, DialogIsOfLoaded
<1>3. CASE ConfigGone
  BY <1>3
  DEF ConfigGone, ProcessEnds, CloseDialog, IInv, ConfigTypeOK, LastSaveIsOnDisk,
      LiveConfigIsOnDisk, DialogShowsConfig, DialogIsOfLoaded
<1>4. QED BY <1>1, <1>2, <1>3

\* Every step keeps the invariant.
LEMMA InvNext == IInv /\ [ConfigNext]_allVars => IInv'
<1> SUFFICES ASSUME IInv, [ConfigNext]_allVars
             PROVE  IInv'
  OBVIOUS
<1>1. CASE UNCHANGED allVars
  BY <1>1
  DEF allVars, vars, configVars, IInv, ConfigTypeOK, LastSaveIsOnDisk,
      LiveConfigIsOnDisk, DialogShowsConfig, DialogIsOfLoaded, Current
<1>2. CASE FrontendRuns
  BY <1>2, RunsKeepConfig
  DEF FrontendRuns, configVars, IInv, ConfigTypeOK, LastSaveIsOnDisk,
      LiveConfigIsOnDisk, DialogShowsConfig, DialogIsOfLoaded, Current
<1>3. QED BY <1>1, <1>2, DialogKeeps, ChangeKeeps, LifeKeeps DEF ConfigNext

\* The invariant holds in every behaviour.
THEOREM Invariant == ConfigSpec => []IInv
BY InvInit, InvNext, PTL DEF ConfigSpec

\* The last save that succeeded is on the disk, whatever crashes and fails.
THEOREM SavesAreDurable == ConfigSpec => []LastSaveIsOnDisk
<1>1. IInv => LastSaveIsOnDisk
  BY DEF IInv
<1>2. QED BY <1>1, Invariant, PTL

\* What the events and the next start act on is what a new process would load.
THEOREM LiveIsSaved == ConfigSpec => []LiveConfigIsOnDisk
<1>1. IInv => LiveConfigIsOnDisk
  BY DEF IInv
<1>2. QED BY <1>1, Invariant, PTL

\* To look at the settings and to say OK changes none.
THEOREM ConfirmingIsHarmless == ConfigSpec => ConfirmingChangesNothing
<1>1. IInv /\ [ConfigNext]_allVars
        => [AcceptDialog /\ untouched /\ bitrate \in Listed
              => UNCHANGED <<withStreaming, bitrate>>]_allVars
  BY DEF IInv, DialogShowsConfig, AcceptDialog, Shown
<1>2. QED BY <1>1, Invariant, PTL DEF ConfigSpec, ConfirmingChangesNothing
=============================================================================
