------------------------------- MODULE Config --------------------------------
(***************************************************************************)
(* The settings: g_config of frontend-wire.cpp, which the streaming events *)
(* and every start read, the file config.json with its backup, and the      *)
(* dialog of radio-output-config-dialog.cpp.  The dialog is modal and runs *)
(* an event loop of its own: while it is open no button of another window  *)
(* can be clicked, but timers, streaming events and the obs-websocket      *)
(* verbs go on.  The frontend with its outputs is that of Frontend, whose  *)
(* withStreaming is here one of the settings.                              *)
(*                                                                         *)
(* Of the settings that a combo box shows one stands for all: bitrate.     *)
(* radio.applyConfig may set it to a value that the combo box has not got. *)
(* A spin box does with a value out of its range what the combo box does   *)
(* with that one, it shows another (lines 57, 191 and 196): bitrate stands *)
(* for those settings too, with Unlisted for what is out of range.         *)
(***************************************************************************)
EXTENDS Frontend

CONSTANTS
  Listed,         \* the values that the combo box has
  Unlisted,       \* and a value that it has not
  FirstListed,    \* its first entry, selected when no other is
  DefaultBitrate, \* the value of apply_defaults
  Missing         \* no such file

ASSUME ConfigAssumption ==
  /\ Unlisted \notin Listed /\ FirstListed \in Listed /\ DefaultBitrate \in Listed

Bitrates == Listed \union {Unlisted}
Configs == [withStreaming : BOOLEAN, bitrate : Bitrates]

ASSUME MissingAssumption == Missing \notin Configs

VARIABLES
  bitrate,    \* SETTING_BITRATE in g_config
  file,       \* config.json: Missing or what it holds
  backup,     \* config.json.bak
  dialog,     \* the widgets of the dialog, or None while there is none
  untouched,  \* history: nobody has edited the widgets, nor patched g_config meanwhile
  saved,      \* history: what the last save that succeeded has written
  unsaved     \* history: this process has only defaults, or its last save has failed

configVars == <<bitrate, file, backup, dialog, untouched, saved, unsaved>>
allVars == <<vars, configVars>>

Defaults == [withStreaming |-> FALSE, bitrate |-> DefaultBitrate]
Current == [withStreaming |-> withStreaming, bitrate |-> bitrate]

\* What load_config_from_disk may make of the file: a file that is missing or that is
\* not parsed gives the defaults, and the backup is never read.
Loaded(f) == {Defaults} \union ({f} \ {Missing})

\* The first load, with nothing on the disk or what an earlier process has saved.
ConfigInit ==
  /\ Init
  /\ file \in Configs \union {Missing}
  /\ \E c \in Loaded(file) :
       withStreaming = c.withStreaming /\ bitrate = c.bitrate /\ unsaved = (c # file)
  /\ backup = Missing
  /\ dialog = None /\ untouched = FALSE
  /\ saved = file

-----------------------------------------------------------------------------
(***************************************************************************)
(* save_config_to_disk, which is obs_data_save_json_safe of libobs: a      *)
(* temporary file is written, what is at the target becomes the backup,    *)
(* and the temporary file becomes the target.  A save that is cut off by   *)
(* the end of the process leaves what a failed one does.                   *)
(***************************************************************************)
SaveSucceeds(c) ==
  /\ file' = c
  /\ backup' = IF file = Missing THEN backup ELSE file
  /\ saved' = c /\ unsaved' = FALSE

\* The temporary file could not be written, or the target not be renamed.
SaveFailsEarly ==
  /\ unsaved' = TRUE
  /\ UNCHANGED <<file, backup, saved>>

\* Mutant: the target is removed first, and no backup is made.
SaveRemovesTarget ==
  /\ file # Missing
  /\ file' = Missing
  /\ unsaved' = TRUE
  /\ UNCHANGED <<backup, saved>>

\* Between the two renames there is a backup and no target.
SaveFailsBetween ==
  /\ file # Missing
  /\ backup' = file /\ file' = Missing
  /\ unsaved' = TRUE
  /\ UNCHANGED saved

Save(c) == SaveSucceeds(c) \/ SaveFailsEarly \/ SaveFailsBetween

-----------------------------------------------------------------------------
(***************************************************************************)
(* The dialog.                                                             *)
(***************************************************************************)
\* selectByData: a value that the combo box has not got selects nothing, and the
\* first entry stays selected.  A spin box takes the nearest value in its range.
Shown(b) == IF b \in Listed THEN b ELSE FirstListed

\* Mutant: the dialog is kept, with the widgets of the last time.
OpenLastDialog ==
  /\ loaded /\ dialog = None
  /\ dialog' \in [withStreaming : BOOLEAN, bitrate : Listed]
  /\ untouched' = TRUE
  /\ UNCHANGED <<vars, bitrate, file, backup, saved, unsaved>>

\* on_tools_menu_clicked, and the constructor of the dialog.
OpenDialog ==
  /\ loaded /\ dialog = None
  /\ dialog' = [withStreaming |-> withStreaming, bitrate |-> Shown(bitrate)]
  /\ untouched' = TRUE
  /\ UNCHANGED <<vars, bitrate, file, backup, saved, unsaved>>

EditDialog ==
  /\ dialog # None
  /\ dialog' \in [withStreaming : BOOLEAN, bitrate : Listed] \ {dialog}
  /\ untouched' = FALSE
  /\ UNCHANGED <<vars, bitrate, file, backup, saved, unsaved>>

CloseDialog == dialog' = None /\ untouched' = FALSE

\* Mutant: the result of exec is not looked at, and nothing is saved.
AcceptWithoutSave ==
  /\ dialog # None
  /\ ApplyConfig
  /\ withStreaming' = dialog.withStreaming /\ bitrate' = dialog.bitrate
  /\ CloseDialog
  /\ UNCHANGED <<file, backup, saved, unsaved>>

\* onAccept: every widget goes back, touched or not; then the save.
AcceptDialog ==
  /\ dialog # None
  /\ ApplyConfig
  /\ withStreaming' = dialog.withStreaming /\ bitrate' = dialog.bitrate
  /\ CloseDialog
  /\ Save(dialog)

RejectDialog ==
  /\ dialog # None
  /\ CloseDialog
  /\ UNCHANGED <<vars, bitrate, file, backup, saved, unsaved>>

(***************************************************************************)
(* The verb radio.applyConfig: frontend_wire_apply_config, which copies    *)
(* the keys that the patch has.                                            *)
(***************************************************************************)
ApplyPatch ==
  /\ ApplyConfig
  /\ bitrate' \in Bitrates
  /\ Save([withStreaming |-> withStreaming', bitrate |-> bitrate'])
  /\ untouched' = FALSE
  /\ UNCHANGED dialog

-----------------------------------------------------------------------------
(***************************************************************************)
(* The tasks of Frontend with the settings, and the life of the process.   *)
(***************************************************************************)
\* What is clicked in another window than the dialog.
Clicks == OnStart \/ OnStop \/ LuaStart \/ LuaStop \/ LuaReload

\* What comes through an event loop.
Events ==
  \/ RemoteStart \/ RemoteStop
  \/ StreamingStarting \/ StreamingStopping
  \/ PollState
  \/ \E o \in Outputs : OutputMoves(o)

FrontendRuns ==
  /\ (dialog = None /\ Clicks) \/ Events
  /\ UNCHANGED configVars

\* frontend_wire_unload stops the output, and saves.
UnloadAndSave ==
  /\ dialog = None
  /\ Unload
  /\ Save(Current)
  /\ UNCHANGED <<bitrate, dialog, untouched>>

LoadFromDisk ==
  /\ Load
  /\ \E c \in Loaded(file) :
       withStreaming' = c.withStreaming /\ bitrate' = c.bitrate /\ unsaved' = (c # file)
  /\ UNCHANGED <<file, backup, dialog, untouched, saved>>

\* The process ends, also in the middle of a save (see above).
ConfigGone ==
  /\ ProcessEnds
  /\ CloseDialog
  /\ UNCHANGED <<bitrate, file, backup, saved, unsaved>>

ConfigNext ==
  \/ OpenDialog \/ EditDialog \/ AcceptDialog \/ RejectDialog
  \/ ApplyPatch
  \/ FrontendRuns
  \/ UnloadAndSave \/ LoadFromDisk \/ ConfigGone

ConfigSpec == ConfigInit /\ [][ConfigNext]_allVars

-----------------------------------------------------------------------------
(***************************************************************************)
(* Properties.                                                             *)
(***************************************************************************)
ConfigTypeOK ==
  /\ bitrate \in Bitrates
  /\ file \in Configs \union {Missing} /\ backup \in Configs \union {Missing}
  /\ dialog \in [withStreaming : BOOLEAN, bitrate : Listed] \union {None}
  /\ untouched \in BOOLEAN
  /\ saved \in Configs \union {Missing} /\ unsaved \in BOOLEAN

\* Whenever the process ends, and however its saves have failed, the settings that
\* the last successful save has written are on the disk, in config.json or, when that
\* is missing, in the backup beside it (frontend-wire.cpp 120, the save is the safe one
\* of libobs).  No code of the plugin reads the backup: to put it back is up to the user.
LastSaveIsOnDisk ==
  saved # Missing => file = saved \/ (file = Missing /\ backup = saved)

\* What the streaming events and the next start act on is what a new process would
\* load, unless a save has failed or nothing was ever saved: no path that changes
\* g_config forgets to save it.
LiveConfigIsOnDisk == loaded /\ ~unsaved => file = Current

\* A dialog that is opened and confirmed without an edit changes no settings.  Not so
\* (the code overwrites them) for those that radio.applyConfig sets while it is open,
\* for a value that its combo box has not got, and for a number out of the range of its
\* spin box.
ConfirmingChangesNothing ==
  [][AcceptDialog /\ untouched /\ bitrate \in Listed
       => UNCHANGED <<withStreaming, bitrate>>]_allVars
=============================================================================
