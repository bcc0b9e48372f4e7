---------------------------- MODULE OutputStates ----------------------------
(***************************************************************************)
(* What one output promises to those who look at its state: the dock,      *)
(* which polls it, and the obs-websocket verb radio.status.  RadioOutput   *)
(* implements it with the threads that set the state.                      *)
(***************************************************************************)
VARIABLES
  state,     \* context->state
  stopping   \* a Stop or a release has been asked for

vars == <<state, stopping>>

Init == state = "DISCONNECTED" /\ stopping = FALSE

\* From state a to state b, with nobody stopping the output.
Becomes(a, b) == state = a /\ ~stopping /\ state' = b /\ UNCHANGED stopping

Connecting == Becomes("DISCONNECTED", "CONNECTING")

\* Not even an attempt: no connect thread.
NoAttempt == Becomes("DISCONNECTED", "ERROR")

Connected == state = "CONNECTING" /\ state' = "CONNECTED" /\ UNCHANGED stopping

\* A connection that was refused, or that could not be put to use.
ConnectFailed == state \in {"CONNECTING", "CONNECTED"} /\ state' = "ERROR" /\ UNCHANGED stopping

LinkLost == state = "CONNECTED" /\ state' \in {"RECONNECTING", "ERROR"} /\ UNCHANGED stopping

Relinked == state = "RECONNECTING" /\ state' = "CONNECTED" /\ UNCHANGED stopping

GaveUp == state = "RECONNECTING" /\ state' = "ERROR" /\ UNCHANGED stopping

AskStop == ~stopping /\ stopping' = TRUE /\ UNCHANGED state

\* Only a stop disconnects, and nothing follows it.
Disconnected == stopping /\ state # "DISCONNECTED" /\ state' = "DISCONNECTED" /\ UNCHANGED stopping

Next == \/ Connecting \/ NoAttempt \/ Connected \/ ConnectFailed
        \/ LinkLost \/ Relinked \/ GaveUp \/ AskStop \/ Disconnected

Spec == Init /\ [][Next]_vars
=============================================================================
