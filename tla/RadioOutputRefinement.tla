----------------------- MODULE RadioOutputRefinement -----------------------
(***************************************************************************)
(* RadioOutput implements the connect protocol of ConnectJob and the state *)
(* machine of OutputStates.                                                *)
(***************************************************************************)
EXTENDS RadioOutput

\* The only output of RadioOutput, and a function on it.
Single == {"output"}
Only(v) == [o \in Single |-> v]

MainOfJob ==
  CASE main = "created" -> "absent"
    [] main \in {"running", "entry", "drain"} ->
         IF state = "DISCONNECTED" THEN "disconnected" ELSE "idle"
    [] main = "takeJob" -> "idle"
    [] main = "cancelJob" -> "cancel"
    [] main = "releaseJob" -> "release"
    [] main = "freed" -> "freed"
    [] OTHER -> "teardown"

ThreadOfJob ==
  CASE connect \in {"none", "opening", "releaseField", "releaseOwn", "done"} -> connect
    [] connect = "signal" -> "signalling"
    [] connect = "unlock" -> "unlocking"
    [] OTHER -> "completing"

Job == INSTANCE ConnectJob WITH
  Outputs <- Single,
  main <- Only(MainOfJob),
  thread <- Only(ThreadOfJob),
  job <- Only(job.mem),
  field <- Only(job.field),
  canceled <- Only(job.canceled),
  completed <- Only(job.completed),
  refs <- Only(job.refs),
  dropField <- Only(job.dropField)

Shown == INSTANCE OutputStates WITH
  state <- state,
  stopping <- main \notin {"created", "running"}

\* The threads of radio-output.c follow the connect protocol, those of a reconnect
\* included, so what ConnectJob guarantees of the context and of the job holds of them.
ImplementsConnectJob == Job!Spec

\* Every change of the state, whichever thread makes it, is one the dock can
\* explain: ERROR stays until a Stop, and nothing follows DISCONNECTED.  With reconnect
\* the last is not so: the thread of reconnect_after_free sets the state once more.
ImplementsOutputStates == Shown!Spec
=============================================================================
