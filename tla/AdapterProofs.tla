---------------------------- MODULE AdapterProofs ----------------------------
(***************************************************************************)
(* Proofs about RazorpayAdapter: a gateway that fails is left alone in     *)
(* time, for every threshold, cooldown and number of retries.              *)
(***************************************************************************)
EXTENDS RazorpayAdapter, TLAPS

AdapterType ==
  /\ failures \in Nat
  /\ circuit \in {"open", "closed"}
  /\ openFor \in Nat
  /\ quiet \in Nat
  /\ burst \in Nat
  /\ links \in Nat
  /\ call \in [at : {"idle", "checking", "sent", "sleeping"}, attempt : Nat]

\* What the breaker remembers against what happened.  It forgets on closing
\* after the cooldown, but only when the last failure is as long ago.
BreakerRemembers ==
  /\ circuit = "closed" => failures < Threshold
  /\ circuit = "open" => quiet = openFor
  /\ burst <= failures \/ quiet > Cooldown
  /\ call.at = "sent" => circuit = "closed"

\* A link per attempt so far; the present one may have made its own when it
\* sleeps.
LinksByAttempt ==
  /\ call.attempt <= MaxRetries
  /\ call.at \in {"checking", "sent"} => links <= call.attempt
  /\ call.at = "sleeping" => links <= call.attempt + 1

AdapterInv == AdapterType /\ BreakerRemembers /\ BurstsAreBounded
                          /\ LinksByAttempt /\ LinksAreBounded

LEMMA LaterIsLater ==
  ASSUME NEW seconds \in Nat
  PROVE  Later(seconds) \in Nat /\ (seconds > Cooldown => Later(seconds) > Cooldown)
  BY AdapterAssumption DEF Later

LEMMA InitHolds == Init => AdapterInv
<1> SUFFICES ASSUME Init PROVE AdapterInv
  OBVIOUS
<1> USE AdapterAssumption DEF Init
<1>1. call.at = "idle" /\ call.attempt = 0
  BY DEF Idle
<1>2. AdapterType
  BY DEF AdapterType, Idle
<1>3. BreakerRemembers /\ BurstsAreBounded
  BY <1>1 DEF BreakerRemembers, BurstsAreBounded
<1>4. LinksByAttempt /\ LinksAreBounded
  BY <1>1 DEF LinksByAttempt, LinksAreBounded
<1> QED  BY <1>2, <1>3, <1>4 DEF AdapterInv

\* One step per action: those of the breaker first.
LEMMA StepHolds == AdapterInv /\ [Next]_vars => AdapterInv'
<1> SUFFICES ASSUME AdapterInv, [Next]_vars PROVE AdapterInv'
  OBVIOUS
<1> USE AdapterAssumption DEF AdapterInv, AdapterType, BreakerRemembers,
      BurstsAreBounded, LinksByAttempt, LinksAreBounded
<1>1. CASE Failed
  <2>1. circuit = "closed" /\ failures < Threshold
    BY <1>1 DEF Failed
  <2>2. failures' = failures + 1 /\ quiet' = 0 /\ burst' <= failures'
    BY <1>1, <2>1 DEF Failed, RecordFailure
  <2>3. call'.at = "sleeping" /\ call'.attempt = call.attempt
    BY <1>1 DEF Failed
  <2>4. AdapterType'
    BY <1>1 DEF Failed, RecordFailure
  <2>5. BreakerRemembers' /\ BurstsAreBounded'
    BY <1>1, <2>1, <2>2, <2>3, <2>4 DEF Failed, RecordFailure, TooMany
  <2>6. LinksByAttempt' /\ LinksAreBounded'
    BY <1>1, <2>3 DEF Failed
  <2> QED  BY <2>4, <2>5, <2>6
<1>2. CASE Answered
  BY <1>2 DEF Answered, RecordSuccess, Ends, Idle
<1>3. CASE Send
  BY <1>3 DEF Send, CloseIfCooled, IsOpen, Cooled, breaker, history
<1>4. CASE TimePasses
  <2>1. quiet' \in Nat /\ openFor' \in Nat
    BY <1>4, LaterIsLater DEF TimePasses
  <2>2. quiet > Cooldown => quiet' > Cooldown
    BY <1>4, LaterIsLater DEF TimePasses
  <2>3. circuit = "open" => quiet' = openFor'
    BY <1>4 DEF TimePasses
  <2> QED  BY <1>4, <2>1, <2>2, <2>3 DEF TimePasses
<1>5. CASE Call \/ RaiseOpen \/ GiveUp
  BY <1>5 DEF Call, RaiseOpen, GiveUp, Ends, Idle, breaker, history
<1>6. CASE Retry
  <2>1. /\ call.at = "sleeping" /\ call.attempt < MaxRetries
        /\ call'.at = "checking" /\ call'.attempt = call.attempt + 1
    BY <1>6 DEF Retry, AttemptsLeft
  <2>2. UNCHANGED <<failures, circuit, openFor, quiet, burst, links>>
    BY <1>6 DEF Retry, breaker, history
  <2>3. AdapterType'
    <3>1. call' = [call EXCEPT !.at = "checking", !.attempt = call.attempt + 1]
      BY <1>6 DEF Retry
    <3>2. call.attempt + 1 \in Nat
      OBVIOUS
    <3> QED  BY <2>2, <3>1, <3>2
  <2> QED  BY <2>1, <2>2, <2>3
<1>7. CASE GoesDownOrUp \/ UNCHANGED vars
  BY <1>7 DEF GoesDownOrUp, vars, breaker, history
<1> QED
  BY <1>1, <1>2, <1>3, <1>4, <1>5, <1>6, <1>7 DEF Next, Request

\* A Razorpay that is down gets at most Threshold requests before it is left
\* alone for the cooldown.
THEOREM BurstsBounded == Spec => []BurstsAreBounded
<1>1. Init => AdapterInv
  BY InitHolds
<1>2. AdapterInv /\ [Next]_vars => AdapterInv'
  BY StepHolds
<1>3. AdapterInv => BurstsAreBounded
  BY DEF AdapterInv
<1> QED  BY <1>1, <1>2, <1>3, PTL DEF Spec

\* A call leaves at most MaxRetries + 1 links, reported or not.
THEOREM LinksBounded == Spec => []LinksAreBounded
<1>1. Init => AdapterInv
  BY InitHolds
<1>2. AdapterInv /\ [Next]_vars => AdapterInv'
  BY StepHolds
<1>3. AdapterInv => LinksAreBounded
  BY DEF AdapterInv
<1> QED  BY <1>1, <1>2, <1>3, PTL DEF Spec
=============================================================================
