------------------------------ MODULE Frontend -------------------------------
(***************************************************************************)
(* Who owns the outputs: frontend-wire.cpp with its handle on the output   *)
(* it has started, the Lua script scripts/radio-test.lua with a handle of  *)
(* its own, and the module-global g_active_output of radio-output.c, which *)
(* is the output created last, whoever did.                                *)
(*                                                                         *)
(* Everything here runs on the UI thread, one task after the other: the    *)
(* buttons and the poll timer of the dock, the streaming events, the verbs *)
(* radio.start, radio.stop and radio.applyConfig (which are marshalled     *)
(* there), the script's buttons, the load and the unload of the module.    *)
(* Between two tasks the threads of each output move its state, as         *)
(* OutputStates has it.  The process may end at any time, and be started   *)
(* again.  Not here: radio.status (obs-ws-vendor.c 110-134),               *)
(* radio.pushMetadata (223-236) and the dock's pool job                    *)
(* (radio-output-dock.cpp 156-157), which follow the active pointer on     *)
(* other threads and in the middle of a task.                              *)
(***************************************************************************)
CONSTANTS
  Outputs,   \* the outputs that can be created, each once: the bound of the model
  None       \* NULL

ASSUME OutputsAssumption == None \notin Outputs

VARIABLES
  life,           \* life[o]: "none", "live" or "destroyed"
  state,          \* state[o]: context->state
  active,         \* g_active_output
  handle,         \* g_active_output_handle of frontend-wire.cpp
  lua,            \* output of radio-test.lua
  dropped,        \* the outputs that the script has forgotten in a reload
  stopEnabled,    \* of the dock's two buttons Stop is enabled, and not Start
  withStreaming,  \* SETTING_START_WITH_STREAMING in g_config
  loaded          \* between frontend_wire_load and frontend_wire_unload

vars == <<life, state, active, handle, lua, dropped, stopEnabled, withStreaming, loaded>>

States == {"DISCONNECTED", "CONNECTING", "CONNECTED", "RECONNECTING", "ERROR"}
Running == {"CONNECTING", "CONNECTED", "RECONNECTING"}

\* libobs calls the stop callback of an output that captures.
Capturing(o) == state[o] \in {"CONNECTED", "RECONNECTING"}

Init ==
  /\ life = [o \in Outputs |-> "none"]
  /\ state = [o \in Outputs |-> "DISCONNECTED"]
  /\ active = None /\ handle = None /\ lua = None /\ dropped = {}
  /\ stopEnabled = FALSE
  /\ withStreaming \in BOOLEAN
  /\ loaded = TRUE

-----------------------------------------------------------------------------
(***************************************************************************)
(* libobs and radio-output.c.  The operators take and return the part      *)
(* [life, state, active] of the state, so that a task can do several.      *)
(***************************************************************************)
World == [life |-> life, state |-> state, active |-> active]
Becomes(w) == life' = w.life /\ state' = w.state /\ active' = w.active

Fresh(w) == {o \in Outputs : w.life[o] = "none"}

\* obs_output_create: radio_output_create makes the new context the active one.
\* obs_output_start: radio_output_start leaves s, which is not CONNECTING if it fails.
Created(w, o, s) ==
  [life |-> [w.life EXCEPT ![o] = "live"],
   state |-> [w.state EXCEPT ![o] = s],
   active |-> o]
StartResults == {"CONNECTING", "DISCONNECTED", "ERROR"}

\* obs_output_stop.
Stopped(w, o) ==
  IF o # None /\ Capturing(o) THEN [w EXCEPT !.state[o] = "DISCONNECTED"] ELSE w

\* Mutant: the pointer is cleared only after a normal stop.
ReleasedKeepsActive(w, o) ==
  IF o = None THEN w
  ELSE [life |-> [w.life EXCEPT ![o] = "destroyed"],
        state |-> [w.state EXCEPT ![o] = "DISCONNECTED"],
        active |-> IF w.active = o /\ w.state[o] # "ERROR" THEN None ELSE w.active]

\* obs_output_release of the only reference: the teardown, and radio_output_destroy,
\* which clears the active pointer only if it is its own.
Released(w, o) ==
  IF o = None THEN w
  ELSE [life |-> [w.life EXCEPT ![o] = "destroyed"],
        state |-> [w.state EXCEPT ![o] = "DISCONNECTED"],
        active |-> IF w.active = o THEN None ELSE w.active]

-----------------------------------------------------------------------------
(***************************************************************************)
(* frontend-wire.cpp.                                                      *)
(***************************************************************************)
\* Mutant: whatever is not connected has failed.
ErroredUnlessConnected == active # None /\ state[active] # "CONNECTED"

\* The state that decides is that of the active output.
Errored == active # None /\ state[active] = "ERROR"

\* frontend_wire_start_output: a start that fails keeps the handle, obs_output_create
\* returning NULL does not.
StartOutput ==
  \/ handle # None /\ ~Errored /\ UNCHANGED <<life, state, active, handle>>
  \/ /\ handle = None \/ Errored
     /\ LET w == Released(World, handle)
        IN \/ Becomes(w) /\ handle' = None
           \/ \E o \in Fresh(w), s \in StartResults :
                Becomes(Created(w, o, s)) /\ handle' = o

\* Mutant: what is stopped is released, whoever owns it.
StopReleasesActive ==
  /\ Becomes(Released(Stopped(World, active), active))
  /\ handle' = None

\* frontend_wire_stop_output: stop whatever is active, release what is ours.
StopOutput ==
  /\ Becomes(Released(Stopped(World, active), handle))
  /\ handle' = None

\* What no task but that of its owner changes.
Others == UNCHANGED <<lua, dropped, stopEnabled, withStreaming, loaded>>

\* The dock's Start button, enabled by the last poll.
OnStart == loaded /\ ~stopEnabled /\ StartOutput /\ Others

\* The dock's Stop button.
OnStop == loaded /\ stopEnabled /\ StopOutput /\ Others

\* The verbs radio.start and radio.stop; the buttons' state does not bind them.
RemoteStart == loaded /\ StartOutput /\ Others
RemoteStop == loaded /\ StopOutput /\ Others

\* OBS_FRONTEND_EVENT_STREAMING_STARTING and _STOPPING, with the setting read live.
StreamingStarting == loaded /\ withStreaming /\ StartOutput /\ Others
StreamingStopping == loaded /\ withStreaming /\ StopOutput /\ Others

\* The config dialog or radio.applyConfig.
ApplyConfig ==
  /\ loaded
  /\ withStreaming' \in BOOLEAN
  /\ UNCHANGED <<life, state, active, handle, lua, dropped, stopEnabled, loaded>>

\* pollState.
PollState ==
  /\ loaded
  /\ stopEnabled' = (active # None /\ state[active] \in Running \union {"ERROR"})
  /\ UNCHANGED <<life, state, active, handle, lua, dropped, withStreaming, loaded>>

\* Mutant: the unload forgets the output.
UnloadWithoutStop ==
  /\ loaded
  /\ loaded' = FALSE
  /\ UNCHANGED <<life, state, active, handle, lua, dropped, stopEnabled, withStreaming>>

\* frontend_wire_unload.
Unload ==
  /\ loaded
  /\ loaded' = FALSE
  /\ StopOutput
  /\ UNCHANGED <<lua, dropped, stopEnabled, withStreaming>>

\* frontend_wire_load in a new process: a new dock, and the config of config.json.
Load ==
  /\ ~loaded /\ lua = None /\ dropped = {}
  /\ loaded' = TRUE
  /\ stopEnabled' = FALSE
  /\ withStreaming' \in BOOLEAN
  /\ UNCHANGED <<life, state, active, handle, lua, dropped>>

\* OBS exits after the unload, or crashes at any time; nothing in memory is left.
ProcessEnds ==
  /\ life' = [o \in Outputs |-> IF life[o] = "live" THEN "destroyed" ELSE life[o]]
  /\ state' = [o \in Outputs |-> "DISCONNECTED"]
  /\ active' = None /\ handle' = None /\ lua' = None /\ dropped' = {}
  /\ loaded' = FALSE
  /\ UNCHANGED <<stopEnabled, withStreaming>>

-----------------------------------------------------------------------------
(***************************************************************************)
(* radio-test.lua.                                                         *)
(***************************************************************************)
LuaStop ==
  /\ lua # None
  /\ Becomes(Released(Stopped(World, lua), lua))
  /\ lua' = None
  /\ UNCHANGED <<handle, dropped, stopEnabled, withStreaming, loaded>>

\* With a handle left from the last start, that is stopped and released first.
LuaStart ==
  LET w == Released(Stopped(World, lua), lua)
  IN /\ loaded
     /\ \E o \in Fresh(w), s \in StartResults :
          Becomes(Created(w, o, s)) /\ lua' = o
     /\ UNCHANGED <<handle, dropped, stopEnabled, withStreaming, loaded>>

\* The script is reloaded or removed: it has no script_unload, so the output that its
\* variable held goes on without an owner.
LuaReload ==
  /\ lua # None
  /\ dropped' = dropped \union {lua}
  /\ lua' = None
  /\ UNCHANGED <<life, state, active, handle, stopEnabled, withStreaming, loaded>>

(***************************************************************************)
(* The threads of an output.                                               *)
(***************************************************************************)
Moves(o, from, to) ==
  /\ life[o] = "live"
  /\ state[o] = from
  /\ state' = [state EXCEPT ![o] = to]
  /\ UNCHANGED <<life, active, handle, lua, dropped, stopEnabled, withStreaming, loaded>>

OutputMoves(o) ==
  \/ Moves(o, "CONNECTING", "CONNECTED") \/ Moves(o, "CONNECTING", "ERROR")
  \/ Moves(o, "CONNECTED", "RECONNECTING") \/ Moves(o, "CONNECTED", "ERROR")
  \/ Moves(o, "RECONNECTING", "CONNECTED") \/ Moves(o, "RECONNECTING", "ERROR")

Next ==
  \/ OnStart \/ OnStop \/ RemoteStart \/ RemoteStop
  \/ StreamingStarting \/ StreamingStopping
  \/ ApplyConfig \/ PollState \/ Unload \/ Load \/ ProcessEnds
  \/ LuaStart \/ LuaStop \/ LuaReload
  \/ \E o \in Outputs : OutputMoves(o)

Spec == Init /\ [][Next]_vars

-----------------------------------------------------------------------------
(***************************************************************************)
(* Properties.                                                             *)
(***************************************************************************)
TypeOK ==
  /\ life \in [Outputs -> {"none", "live", "destroyed"}]
  /\ state \in [Outputs -> States]
  /\ active \in Outputs \union {None}
  /\ handle \in Outputs \union {None}
  /\ lua \in Outputs \union {None} /\ dropped \subseteq Outputs
  /\ stopEnabled \in BOOLEAN /\ withStreaming \in BOOLEAN /\ loaded \in BOOLEAN

\* Between two tasks of the UI thread the active pointer is none or a live context,
\* whichever of two outputs is created and released first (radio-output.c 218-223): the
\* dock's poll, which reads it in a task of its own, finds no destroyed one.  It says
\* nothing of those who follow the pointer on other threads (see above).
ActiveIsAlive == active # None => life[active] = "live"

\* Every live output has exactly one owner, who has not released it, unless a reload of
\* the script has dropped it: none else leaks and none is released twice, also when
\* the frontend stops an output of the script (frontend-wire.cpp 296-299).
EveryOutputHasItsOwner ==
  /\ \A o \in Outputs : life[o] = "live" <=> o \in {handle, lua} \union dropped
  /\ handle = lua => handle = None
  /\ handle \notin dropped /\ lua \notin dropped

\* After the unload no output of the frontend is left.
NothingSurvivesUnload ==
  ~loaded => /\ handle = None
             /\ \A o \in Outputs : life[o] = "live" => o \in {lua} \union dropped

\* While no script has or had an output, a start request never ends a broadcast that is
\* running or about to: the handle is only replaced after an error.
StartSparesBroadcast ==
  [][handle # None /\ lua = None /\ dropped = {} /\ state[handle] \in Running
       /\ handle' # handle
       => StopOutput \/ ProcessEnds]_vars
=============================================================================
