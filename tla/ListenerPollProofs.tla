------------------------- MODULE ListenerPollProofs --------------------------
(***************************************************************************)
(* The invariants of the listener count, for any set of mounts and any     *)
(* number of requests in flight.  They are inductive with the types and    *)
(* with the timer being on exactly while the dock remembers CONNECTED,     *)
(* which is what makes a reply without a timer a late one.                 *)
(***************************************************************************)
EXTENDS ListenerPoll, TLAPS

IInv ==
  /\ TypeOK
  /\ timer <=> lastConnected
  /\ LabelAndVerbAgree /\ QuietErrorHidesNoCount /\ NoCountWhenDown

-----------------------------------------------------------------------------
\* Nothing is known before the first connection.
LEMMA InvInit == Init => IInv
<1> SUFFICES ASSUME Init
             PROVE  IInv
  OBVIOUS
<1>1. TypeOK
  <2>1. requests \in [Mounts -> 0..MaxRequests] /\ pollsCompleted \in 0..2
    BY PollAssumption DEF Init
  <2>2. QED BY <2>1 DEF Init, TypeOK
<1>2. timer <=> lastConnected
  BY DEF Init
<1>3. LabelAndVerbAgree /\ QuietErrorHidesNoCount /\ NoCountWhenDown
  BY PollAssumption DEF Init, LabelAndVerbAgree, QuietErrorHidesNoCount, NoCountWhenDown
<1>4. QED BY <1>1, <1>2, <1>3 DEF IInv

\* The output itself moves only what the dock has not seen yet.
LEMMA OutputKeeps == ASSUME IInv, GoesLive \/ GoesDown PROVE IInv'
<1>1. TypeOK'
  BY DEF GoesLive, GoesDown, IInv, TypeOK
<1>2. /\ timer' <=> lastConnected'
      /\ LabelAndVerbAgree' /\ QuietErrorHidesNoCount' /\ NoCountWhenDown'
  BY DEF GoesLive, GoesDown, IInv, LabelAndVerbAgree, QuietErrorHidesNoCount,
         NoCountWhenDown
<1>3. QED BY <1>1, <1>2 DEF IInv

\* The dock's poll: CONNECTED starts the poller, its end stops it and forgets the count.
LEMMA DockKeeps == ASSUME IInv, PollEntersConnected \/ PollLeavesConnected PROVE IInv'
<1>1. CASE PollEntersConnected
  <2>1. TypeOK'
    <3>1. requests' \in [Mounts -> 0..MaxRequests] /\ pollsCompleted' \in 0..2
      BY <1>1, PollAssumption DEF PollEntersConnected, IInv, TypeOK
    <3>2. QED BY <1>1, <3>1 DEF PollEntersConnected, IInv, TypeOK
  <2>2. /\ timer' <=> lastConnected'
        /\ LabelAndVerbAgree' /\ QuietErrorHidesNoCount' /\ NoCountWhenDown'
    BY <1>1 DEF PollEntersConnected, IInv, LabelAndVerbAgree, QuietErrorHidesNoCount,
                NoCountWhenDown
  <2>3. QED BY <2>1, <2>2 DEF IInv
<1>2. CASE PollLeavesConnected
  BY <1>2, PollAssumption
  DEF PollLeavesConnected, IInv, TypeOK, LabelAndVerbAgree, QuietErrorHidesNoCount,
      NoCountWhenDown
<1>3. QED BY <1>1, <1>2

\* A request changes nothing that is shown.
LEMMA RequestKeeps == ASSUME IInv, PollOnce PROVE IInv'
BY PollAssumption
DEF PollOnce, IInv, TypeOK, LabelAndVerbAgree, QuietErrorHidesNoCount, NoCountWhenDown

\* A reply, in time or late, tells the label and the verb the same.
LEMMA ReplyKeeps ==
  ASSUME IInv, NEW m \in Mounts, RepliesCount(m) \/ RepliesError(m)
  PROVE  IInv'
<1>1. /\ requests' \in [Mounts -> 0..MaxRequests]
      /\ pollsCompleted' \in 0..2
      /\ late' = (late \/ ~timer)
      /\ UNCHANGED <<live, mount, lastConnected, timer, pollMount>>
  BY PollAssumption DEF RepliesCount, RepliesError, Completes, IInv, TypeOK
<1>2. CASE RepliesCount(m)
  BY <1>1, <1>2, PollAssumption
  DEF RepliesCount, Emit, IInv, TypeOK, LabelAndVerbAgree, QuietErrorHidesNoCount,
      NoCountWhenDown
<1>3. CASE RepliesError(m)
  BY <1>1, <1>3, PollAssumption
  DEF RepliesError, Emit, IInv, TypeOK, LabelAndVerbAgree, QuietErrorHidesNoCount,
      NoCountWhenDown
<1>4. QED BY <1>2, <1>3

\* Every step keeps the invariant.
LEMMA InvNext == IInv /\ [Next]_vars => IInv'
<1> SUFFICES ASSUME IInv, [Next]_vars
             PROVE  IInv'
  OBVIOUS
<1>1. CASE UNCHANGED vars
  BY <1>1 DEF vars, IInv, TypeOK, LabelAndVerbAgree, QuietErrorHidesNoCount,
              NoCountWhenDown
<1>2. QED
  BY <1>1, OutputKeeps, DockKeeps, RequestKeeps, ReplyKeeps DEF Next

\* The invariant holds in every behaviour.
THEOREM Invariant == Spec => []IInv
BY InvInit, InvNext, PTL DEF Spec

\* The requests in flight are counted right, and a label is a count or a word.
THEOREM TypeCorrect == Spec => []TypeOK
<1>1. IInv => TypeOK
  BY DEF IInv
<1>2. QED BY <1>1, Invariant, PTL

\* The dock's label and the verb's count never disagree.
THEOREM Agreement == Spec => []LabelAndVerbAgree
<1>1. IInv => LabelAndVerbAgree
  BY DEF IInv
<1>2. QED BY <1>1, Invariant, PTL

\* An error that is kept quiet does not leave an old count behind.
THEOREM ErrorHidesCount == Spec => []QuietErrorHidesNoCount
<1>1. IInv => QuietErrorHidesNoCount
  BY DEF IInv
<1>2. QED BY <1>1, Invariant, PTL

\* Only a late reply can publish a count for a stream that is down.
THEOREM DownForgetsCount == Spec => []NoCountWhenDown
<1>1. IInv => NoCountWhenDown
  BY DEF IInv
<1>2. QED BY <1>1, Invariant, PTL
=============================================================================
