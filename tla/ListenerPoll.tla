---------------------------- MODULE ListenerPoll -----------------------------
(***************************************************************************)
(* The listener count: radio-output-dock.cpp, which polls the state of the *)
(* active output, starts the poller of listener-poll.cpp when that becomes *)
(* CONNECTED and stops it when it ceases to be; and the count it publishes *)
(* for the verb radio.getListeners.  All of it runs on the UI thread; the  *)
(* replies of the server come when they come, or not before the state has  *)
(* changed.  A count is represented by the mount it was counted on.        *)
(***************************************************************************)
EXTENDS Integers

CONSTANTS
  Mounts,       \* the mounts an output may stream to
  Unknown,      \* the count -1
  MaxRequests   \* bound of this model on the requests in flight, per mount

ASSUME PollAssumption ==
  /\ Unknown \notin Mounts
  /\ \A text \in {"neutral", "amber"} : text \notin Mounts
  /\ MaxRequests \in Nat \ {0}

VARIABLES
  live,             \* the active output is CONNECTED
  mount,            \* and streams to this mount
  lastConnected,    \* lastState_ = RADIO_STATE_CONNECTED
  timer,            \* timer_ is active
  pollMount,        \* mount_ of the poller
  hadError,         \* had_error_
  pollsCompleted,   \* polls_completed_: 0, 1 or more
  requests,         \* requests[m]: how many that captured mount m are in flight
  label,            \* what the dock shows: "neutral", "amber" or a count
  listenerCount,    \* g_listener_count
  late              \* history: a reply has come since the poller was stopped

vars == <<live, mount, lastConnected, timer, pollMount, hadError, pollsCompleted,
          requests, label, listenerCount, late>>

Init ==
  /\ live = FALSE /\ mount \in Mounts
  /\ lastConnected = FALSE /\ timer = FALSE /\ pollMount = mount
  /\ hadError = FALSE /\ pollsCompleted = 0
  /\ requests = [m \in Mounts |-> 0]
  /\ label = "neutral" /\ listenerCount = Unknown
  /\ late = FALSE

-----------------------------------------------------------------------------
\* The output: an initial connect (radio-output.c 491-493) or a reconnect (reconnect.c
\* 121-127), and any end of the connection.
GoesLive ==
  /\ ~live
  /\ live' = TRUE /\ mount' \in Mounts
  /\ UNCHANGED <<lastConnected, timer, pollMount, hadError, pollsCompleted, requests,
                 label, listenerCount, late>>

GoesDown ==
  /\ live
  /\ live' = FALSE
  /\ UNCHANGED <<mount, lastConnected, timer, pollMount, hadError, pollsCompleted,
                 requests, label, listenerCount, late>>

(***************************************************************************)
(* pollState, every 500 ms.                                                *)
(***************************************************************************)
\* configure, and start with a request at once.
PollEntersConnected ==
  /\ live /\ ~lastConnected
  /\ requests[mount] < MaxRequests
  /\ lastConnected' = TRUE
  /\ pollMount' = mount /\ hadError' = FALSE /\ pollsCompleted' = 0
  /\ timer' = TRUE
  /\ requests' = [requests EXCEPT ![mount] = @ + 1]
  /\ late' = FALSE
  /\ UNCHANGED <<live, mount, label, listenerCount>>

\* Mutant: the published count is not invalidated.
PollLeavesCount ==
  /\ ~live /\ lastConnected
  /\ lastConnected' = FALSE
  /\ timer' = FALSE /\ hadError' = FALSE
  /\ label' = "neutral" /\ UNCHANGED listenerCount
  /\ UNCHANGED <<live, mount, pollMount, pollsCompleted, requests, late>>

\* stop, and forget the count.
PollLeavesConnected ==
  /\ ~live /\ lastConnected
  /\ lastConnected' = FALSE
  /\ timer' = FALSE /\ hadError' = FALSE
  /\ label' = "neutral" /\ listenerCount' = Unknown
  /\ UNCHANGED <<live, mount, pollMount, pollsCompleted, requests, late>>

(***************************************************************************)
(* listener-poll.cpp.                                                      *)
(***************************************************************************)
\* pollOnce, every 10 s.
PollOnce ==
  /\ timer
  /\ requests[pollMount] < MaxRequests
  /\ requests' = [requests EXCEPT ![pollMount] = @ + 1]
  /\ UNCHANGED <<live, mount, lastConnected, timer, pollMount, hadError, pollsCompleted,
                 label, listenerCount, late>>

\* A reply to a request that captured mount m is there.
Completes(m) ==
  /\ requests[m] > 0
  /\ requests' = [requests EXCEPT ![m] = @ - 1]
  /\ pollsCompleted' = IF pollsCompleted = 0 THEN 1 ELSE 2
  /\ late' = (late \/ ~timer)
  /\ UNCHANGED <<live, mount, lastConnected, timer, pollMount>>

\* onListenerCount.
Emit(count) ==
  /\ label' = IF count = Unknown THEN "amber" ELSE count
  /\ listenerCount' = count

\* Mutant: the count stays when the error has been seen before.
RepliesCountOnly(m) ==
  /\ Completes(m)
  /\ UNCHANGED hadError
  /\ Emit(m)

\* A count; the error state is over.
RepliesCount(m) ==
  /\ Completes(m)
  /\ hadError' = FALSE
  /\ Emit(m)

\* A network error, or a body without a count for m.  The first after configure is
\* swallowed, and of a row of others only one is told.
RepliesError(m) ==
  /\ Completes(m)
  /\ IF pollsCompleted = 0 \/ hadError
       THEN UNCHANGED <<hadError, label, listenerCount>>
       ELSE hadError' = TRUE /\ Emit(Unknown)

Next ==
  \/ GoesLive \/ GoesDown
  \/ PollEntersConnected \/ PollLeavesConnected
  \/ PollOnce
  \/ \E m \in Mounts : RepliesCount(m) \/ RepliesError(m)

Replies(m) == RepliesCount(m) \/ RepliesError(m)

\* The timer fires while it runs, and a request comes to an end: with an answer, or
\* when the connection is given up.
Fairness ==
  /\ WF_vars(PollOnce)
  /\ \A m \in Mounts : WF_vars(Replies(m))

Spec == Init /\ [][Next]_vars /\ Fairness

-----------------------------------------------------------------------------
(***************************************************************************)
(* Properties.                                                             *)
(***************************************************************************)
TypeOK ==
  /\ live \in BOOLEAN /\ mount \in Mounts
  /\ lastConnected \in BOOLEAN /\ timer \in BOOLEAN /\ pollMount \in Mounts
  /\ hadError \in BOOLEAN /\ pollsCompleted \in 0..2
  /\ requests \in [Mounts -> 0..MaxRequests]
  /\ label \in {"neutral", "amber"} \union Mounts
  /\ listenerCount \in Mounts \union {Unknown}
  /\ late \in BOOLEAN

\* The dock and the verb radio.getListeners say the same: a count in one is the
\* count of the other, and both forget it when the dock sees the stream go down.
LabelAndVerbAgree ==
  \A m \in Mounts : label = m <=> listenerCount = m

\* While errors are being kept quiet because one has been told, no old count stays
\* published.
QuietErrorHidesNoCount == hadError => listenerCount = Unknown

\* Once the dock has seen the stream go down no count is published, unless a reply
\* to a request from before has come: that one is published and shown all the same,
\* where radio-output.h 229-233 has "-1 to mean unknown (not polling / parse error /
\* left CONNECTED)".
NoCountWhenDown == ~lastConnected /\ ~late => listenerCount = Unknown

\* A count of another mount, which a late reply has shown, does not stay for ever on the
\* dock while the poller goes on with its own mount, even if every poll fails from then
\* on: the errors that were told before do not keep quiet one that has to replace it
\* (listener-poll.cpp 178-215).
StaleCountFades ==
  \A m \in Mounts : <>[](timer /\ pollMount # m) => <>[](label # m)
=============================================================================
