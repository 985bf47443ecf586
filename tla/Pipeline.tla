------------------------------ MODULE Pipeline ------------------------------
(***************************************************************************)
(* One call of advance_case (app/services/pipeline.py) on one recovery     *)
(* case: the loop that takes a case from DETECTED to a terminal status,    *)
(* one action per branch of _step, with everything the branch calls        *)
(* (decide_and_persist, evaluate, execute_for_strategy, record_capture,    *)
(* close_unrecovered) inside the action.  The call runs in one DB          *)
(* transaction, so a step here is seen by no other session; an exception   *)
(* rolls the transaction back ("raised").                                  *)
(*                                                                         *)
(* The same code is driven in two ways, told apart by the constants:       *)
(*   - app/batch/run_eval.py: FastForward, a virtual clock, simulated links *)
(*   - app/worker.py: not FastForward, the real clock, perhaps real links. *)
(*                                                                         *)
(* The branches for EXECUTING and for a capture seen while VERIFYING are   *)
(* not actions: inside one session no step stops in EXECUTING, and every   *)
(* write of payment.status = CAPTURED is followed by RECOVERED in the same *)
(* step.  Risk scoring writes columns no branch reads, and is left out.    *)
(***************************************************************************)
EXTENDS Policy, CaseFSM

CONSTANTS FastForward,     \* ExecutorDeps.fast_forward
          LLMConfigured,   \* get_settings().llm_configured
          RealLinks,       \* ExecutorDeps.real is not None
          MaxSteps,        \* MAX_STEPS
          Cases,           \* failed payments the case may be about
          LLMOutputs       \* what the model may answer

Evidence == {Diagnose(r, c) : r \in UNION {ReasonsOf[d] : d \in DOMAIN ReasonsOf} \cup {"absent"},
                              c \in UNION {CodesOf[d] : d \in DOMAIN CodesOf} \cup {"absent"}}

\* A failed payment and its customer, as ingest_event left them: what the
\* error fields say, the money, the saved token, prior_attempts, the age, and
\* how many charges the merchant's other cases have already used.
CaseFacts ==
  [evidence : Evidence, amount : Nat, hasToken : BOOLEAN,
   priorAttempts : Nat, age : Nat, otherCharges : Nat]
PossibleFacts == {f \in CaseFacts : f.priorAttempts <= MaxRetries}

ASSUME PipelineAssumption ==
  /\ FastForward \in BOOLEAN
  /\ LLMConfigured \in BOOLEAN
  /\ RealLinks \in BOOLEAN
  /\ MaxSteps \in Nat
  /\ Cases \subseteq PossibleFacts
  /\ \A o \in LLMOutputs : o.delay \in Delay

VARIABLES
  facts,        \* the payment and customer columns nobody writes here
  payment,      \* payments.status
  status,       \* recovery_cases.status
  diagnosis,    \* recovery_cases.diagnosis_class
  retryCount,   \* recovery_cases.retry_count
  lastAttempt,  \* recovery_cases.last_attempt_at
  outcome,      \* recovery_cases.outcome
  recovered,    \* recovery_cases.recovered_amount_minor
  decision,     \* the latest agent_decisions row
  gate,         \* the latest policy_decisions row
  charges,      \* number of RETRY_CHARGE rows in recovery_actions
  contacts,     \* number of SEND_RECOVERY_LINK rows in recovery_actions
  escalation,   \* the case's escalations, counted by status
  roll,         \* SimulatedGatewayAdapter._rolls[payment]
  age,          \* the injected clock, as minutes since the failure
  steps,        \* iterations of advance_case's loop
  pc            \* where advance_case is

caseRow == <<diagnosis, retryCount, lastAttempt, outcome, recovered>>
effects == <<charges, contacts, escalation, roll>>
vars == <<facts, payment, status, caseRow, decision, gate, effects, age, steps, pc>>

-----------------------------------------------------------------------------
NoDecision ==
  [id |-> 0, origin |-> "none", diagnosis |-> "none", diagnosisConfidence |-> 0,
   strategy |-> "none", strategyConfidence |-> 0, delay |-> NoDelay]
NoGate == [decision |-> 0, verdict |-> "none", rule |-> "none"]

\* A case nobody has looked at yet.
NewCase ==
  /\ payment = "failed"
  /\ status = "DETECTED"
  /\ diagnosis = "none"
  /\ retryCount = facts.priorAttempts
  /\ lastAttempt = NoAttempt
  /\ outcome = "none"
  /\ recovered = 0
  /\ decision = NoDecision
  /\ gate = NoGate
  /\ charges = 0
  /\ contacts = 0
  /\ escalation = [open |-> 0, expired |-> 0]
  /\ roll = "unrolled"
  /\ age = facts.age
  /\ steps = 0
  /\ pc = "stepping"

Init == facts \in Cases /\ NewCase

\* The guard of the while loop, and the step it counts.
Steps(from) ==
  /\ pc = "stepping"
  /\ status = from
  /\ steps < MaxSteps
  /\ steps' = steps + 1
  /\ UNCHANGED facts

-----------------------------------------------------------------------------
(***************************************************************************)
(* decide_and_persist (app/agent/decide.py).                               *)
(***************************************************************************)

\* _validate_llm_output.  It does not look at "params".
\* Mutant: the strategy is not checked against the catalog.
ValidLLMOutputAnyStrategy(raw) ==
  /\ raw.diagnosis \in Diagnoses
  /\ raw.diagnosisConfidence \in 0..100
  /\ raw.strategyConfidence \in 0..100
ValidLLMOutput(raw) ==
  /\ raw.diagnosis \in Diagnoses
  /\ raw.strategy \in ALL_STRATEGIES
  /\ raw.diagnosisConfidence \in 0..100
  /\ raw.strategyConfidence \in 0..100

FallbackDecision(id, question) ==
  LET choice == SelectStrategy(question)
  IN  [id |-> id, origin |-> "FALLBACK", diagnosis |-> question.diagnosis,
       diagnosisConfidence |-> question.confidence, strategy |-> choice.strategy,
       strategyConfidence |-> question.confidence, delay |-> choice.delay]

LLMDecision(id, raw) ==
  [id |-> id, origin |-> "LLM", diagnosis |-> raw.diagnosis,
   diagnosisConfidence |-> raw.diagnosisConfidence, strategy |-> raw.strategy,
   strategyConfidence |-> raw.strategyConfidence, delay |-> raw.delay]

\* What _fallback_decision asks the table.
Question ==
  [diagnosis |-> facts.evidence.class, confidence |-> facts.evidence.confidence,
   retries |-> retryCount, hasToken |-> facts.hasToken, amount |-> facts.amount,
   age |-> age, downtime |-> FALSE, approvalLimit |-> ApprovalLimit,
   confidenceFloor |-> ConfidenceFloor]

\* A configured model may always fail both attempts, so the fallback is
\* possible in either setting.
PossibleDecisions ==
  {FallbackDecision(decision.id + 1, Question)} \cup
    {LLMDecision(decision.id + 1, raw) :
       raw \in {o \in LLMOutputs : LLMConfigured /\ ValidLLMOutput(o)}}

Decide ==
  /\ decision' \in PossibleDecisions
  /\ diagnosis' = decision'.diagnosis

-----------------------------------------------------------------------------
(***************************************************************************)
(* The verification service (app/verification/service.py).                 *)
(***************************************************************************)

\* record_capture from the executor.
PaymentAfterCapture(p) == "captured"
RecordCapture ==
  /\ payment' = PaymentAfterCapture(payment)
  /\ recovered' = facts.amount
  /\ outcome' = "RECOVERED"
  /\ status' = "RECOVERED"

CloseUnrecovered ==
  /\ outcome' = "UNRECOVERED"
  /\ status' = "CLOSED_UNRECOVERED"

-----------------------------------------------------------------------------
(***************************************************************************)
(* The branches of _step that prepare a decision.                          *)
(***************************************************************************)

Detected ==
  /\ Steps("DETECTED")
  /\ status' = "ANALYZING"
  /\ UNCHANGED <<payment, caseRow, decision, gate, effects, age, pc>>

Analyzing ==
  /\ Steps("ANALYZING")
  /\ Decide
  /\ status' = "DIAGNOSED"
  /\ UNCHANGED <<payment, retryCount, lastAttempt, outcome, recovered, gate,
                 effects, age, pc>>

\* A retry already ran: decide again with the budget that is left.
Diagnosed ==
  /\ Steps("DIAGNOSED")
  /\ IF retryCount > 0 THEN Decide ELSE UNCHANGED <<decision, diagnosis>>
  /\ status' = "PLANNED"
  /\ UNCHANGED <<payment, retryCount, lastAttempt, outcome, recovered, gate,
                 effects, age, pc>>

Planned ==
  /\ Steps("PLANNED")
  /\ status' = "POLICY_CHECK"
  /\ UNCHANGED <<payment, caseRow, decision, gate, effects, age, pc>>

-----------------------------------------------------------------------------
(***************************************************************************)
(* The policy gate.                                                        *)
(***************************************************************************)

\* _build_policy_ctx.
PolicyContext ==
  [status |-> status, payment |-> payment, capturedForOrder |-> FALSE,
   amount |-> facts.amount, retries |-> retryCount, lastAttempt |-> lastAttempt,
   diagnosis |-> diagnosis, diagnosisConfidence |-> decision.diagnosisConfidence,
   strategyConfidence |-> decision.strategyConfidence, contacts |-> contacts,
   downtime |-> FALSE, age |-> age,
   budgetRemaining |-> SimulationBudget - (facts.otherCharges + charges),
   action |-> ActionOf(decision.strategy), delay |-> decision.delay,
   linkAmount |-> NoAmount, channel |-> "absent", existingAction |-> FALSE]

\* evaluate and _persist_policy_decision, when they return.
Gate(verdict) ==
  /\ Steps("POLICY_CHECK")
  /\ ~EvaluateRaises(PolicyContext)
  /\ Verdict(PolicyContext) = verdict
  /\ gate' = [decision |-> decision.id, verdict |-> verdict,
              rule |-> TriggeredRule(PolicyContext)]

Allow ==
  /\ Gate("ALLOW")
  /\ status' = "APPROVED"
  /\ UNCHANGED <<payment, caseRow, decision, effects, age, pc>>

\* _ensure_escalation: a row in any status is enough.
EnsureEscalation(e) ==
  IF e.open + e.expired > 0 THEN e ELSE [open |-> 1, expired |-> 0]

Escalate ==
  /\ Gate("ESCALATE")
  /\ escalation' = EnsureEscalation(escalation)
  /\ status' = "AWAITING_APPROVAL"
  /\ UNCHANGED <<payment, caseRow, decision, charges, contacts, roll, age, pc>>

Wait ==
  /\ Gate("WAIT")
  /\ IF FastForward
     THEN /\ age' = age + CooldownBase * 2^retryCount
          /\ status' = "PLANNED"
          /\ UNCHANGED pc
     ELSE /\ pc' = "parked"
          /\ UNCHANGED <<age, status>>
  /\ UNCHANGED <<payment, caseRow, decision, effects>>

\* Where a blocked LLM decision goes once it has been replaced.
\* Mutant: straight to execution, the replacement being "deterministic".
StatusAfterSwapUngated == "APPROVED"
StatusAfterSwap == "PLANNED"

\* "Swap in the fallback": decide_and_persist is asked again, and with a
\* configured model the answer may be the model's.
BlockAndSwap ==
  /\ Gate("BLOCK")
  /\ decision.origin = "LLM"
  /\ Decide
  /\ status' = StatusAfterSwap
  /\ UNCHANGED <<payment, retryCount, lastAttempt, outcome, recovered, effects,
                 age, pc>>

Block ==
  /\ Gate("BLOCK")
  /\ decision.origin # "LLM"
  /\ status' = "BLOCKED"
  /\ UNCHANGED <<payment, caseRow, decision, effects, age, pc>>

\* The TypeError of P13 leaves advance_case.
PolicyRaises ==
  /\ Steps("POLICY_CHECK")
  /\ EvaluateRaises(PolicyContext)
  /\ pc' = "raised"
  /\ UNCHANGED <<payment, status, caseRow, decision, gate, effects, age>>

-----------------------------------------------------------------------------
(***************************************************************************)
(* The executors (app/executors/actions.py), from status APPROVED.         *)
(***************************************************************************)

\* DEFAULT_PROBABILITIES is zero for these, and absent for a self-healed case.
HopelessDiagnoses == {"INSTRUMENT_INVALID", "UNKNOWN", "DUPLICATE_SELF_HEALED"}

\* _latent: one roll per payment, kept for ever.  Batch cases carry their own
\* capture probability; live ones use the default of their diagnosis.
\* Mutant: every attempt rolls again.
PossibleRollsFresh == {"pays", "declines"}
PossibleRolls ==
  IF roll # "unrolled" THEN {roll}
  ELSE IF ~FastForward /\ diagnosis \in HopelessDiagnoses THEN {"declines"}
       ELSE {"pays", "declines"}

\* What the rest of the APPROVED branch does with the gateway's answer.
SettleAttempt ==
  IF roll' = "pays"
  THEN RecordCapture /\ UNCHANGED lastAttempt
  ELSE /\ lastAttempt' = age
       /\ status' = "VERIFYING"
       /\ UNCHANGED <<payment, recovered, outcome>>

\* Mutant: the attempt is not counted.
RetryCountForgotten(n) == n
NextRetryCount(n) == n + 1

ExecuteRetry ==
  /\ Steps("APPROVED")
  /\ decision.strategy \in RetryStrategies
  /\ charges' = charges + 1
  /\ retryCount' = NextRetryCount(retryCount)
  /\ roll' \in PossibleRolls
  /\ SettleAttempt
  /\ UNCHANGED <<diagnosis, decision, gate, contacts, escalation, age, pc>>

ExecuteSimulatedLink ==
  /\ Steps("APPROVED")
  /\ ~RealLinks
  /\ decision.strategy \in LinkStrategies
  /\ contacts' = contacts + 1
  /\ roll' \in PossibleRolls
  /\ SettleAttempt
  /\ UNCHANGED <<diagnosis, retryCount, decision, gate, charges, escalation, age, pc>>

\* Razorpay takes the link, or refuses it (a 4xx: the case FAILED).
ExecuteRealLink ==
  /\ Steps("APPROVED")
  /\ RealLinks
  /\ decision.strategy \in LinkStrategies
  /\ contacts' = contacts + 1
  /\ \/ status' = "VERIFYING" /\ lastAttempt' = age
     \/ status' = "FAILED" /\ UNCHANGED lastAttempt
  /\ UNCHANGED <<payment, diagnosis, retryCount, outcome, recovered, decision,
                 gate, charges, escalation, roll, age, pc>>

\* Timeouts, 5xx answers to every attempt, or an open circuit breaker.
RealLinkRaises ==
  /\ Steps("APPROVED")
  /\ RealLinks
  /\ decision.strategy \in LinkStrategies
  /\ pc' = "raised"
  /\ UNCHANGED <<payment, status, caseRow, decision, gate, effects, age>>

ExecuteEscalation ==
  /\ Steps("APPROVED")
  /\ decision.strategy = S5
  /\ escalation' = [open |-> escalation.open + 1, expired |-> escalation.expired]
  /\ status' = "AWAITING_APPROVAL"
  /\ UNCHANGED <<payment, caseRow, decision, gate, charges, contacts, roll, age, pc>>

ExecuteStop ==
  /\ Steps("APPROVED")
  /\ decision.strategy = S6
  /\ status' = "VERIFYING"
  /\ UNCHANGED <<payment, caseRow, decision, gate, effects, age, pc>>

-----------------------------------------------------------------------------
(***************************************************************************)
(* VERIFYING: where the recovery ladder ends, turns to a human, or goes    *)
(* round again.                                                            *)
(***************************************************************************)

\* Mutant: an invalid instrument is notified like any other.
NotifiedOnceIgnored(d, n) == FALSE
NotifiedOnce(d, n) == d = "INSTRUMENT_INVALID" /\ n > 0
\* Mutant: the cap is noticed one contact too late.
CapReachedLate(n) == n > ContactCap
CapReached(n) == n >= ContactCap

\* Mutant: a stop chosen by the agent does not end the ladder.
LadderEndsNoStop == NotifiedOnce(diagnosis, contacts)
LadderEnds == decision.strategy = S6 \/ NotifiedOnce(diagnosis, contacts)

LadderCloses ==
  /\ Steps("VERIFYING")
  /\ LadderEnds
  /\ CloseUnrecovered
  /\ UNCHANGED <<payment, diagnosis, retryCount, lastAttempt, recovered,
                 decision, gate, effects, age, pc>>

\* _force_escalation_decision; the case keeps its diagnosis.
LadderEscalates ==
  /\ Steps("VERIFYING")
  /\ ~LadderEnds
  /\ CapReached(contacts)
  /\ decision' =
       [id |-> decision.id + 1, origin |-> "FALLBACK", diagnosis |-> diagnosis,
        diagnosisConfidence |-> IF decision.diagnosisConfidence = 0 THEN 50
                                ELSE decision.diagnosisConfidence,
        strategy |-> S5, strategyConfidence |-> 90, delay |-> NoDelay]
  /\ status' = "DIAGNOSED"
  /\ UNCHANGED <<payment, caseRow, gate, effects, age, pc>>

LadderRepeats ==
  /\ Steps("VERIFYING")
  /\ ~LadderEnds
  /\ ~CapReached(contacts)
  /\ IF FastForward
     THEN /\ age' = age + CooldownMinutes(retryCount)
          /\ status' = "DIAGNOSED"
          /\ UNCHANGED pc
     ELSE /\ pc' = "parked"
          /\ UNCHANGED <<age, status>>
  /\ UNCHANGED <<payment, caseRow, decision, gate, effects>>

-----------------------------------------------------------------------------
\* _expire_open_escalations.  Mutant: the call is missing.
ExpireNone(e) == e
ExpireOpen(e) == [open |-> 0, expired |-> e.expired + e.open]

\* Batch: the 48 h approval window elapses.  Live: "a human decides".
AwaitingApproval ==
  /\ Steps("AWAITING_APPROVAL")
  /\ IF FastForward
     THEN /\ age' = age + 48 * 60
          /\ status' = "ESCALATED"
          /\ escalation' = ExpireOpen(escalation)
          /\ UNCHANGED pc
     ELSE /\ pc' = "parked"
          /\ UNCHANGED <<age, status, escalation>>
  /\ UNCHANGED <<payment, caseRow, decision, gate, charges, contacts, roll>>

\* The end of advance_case: a case that is not terminal is closed as
\* unrecovered, which the FSM allows from VERIFYING only.
LoopEnds ==
  \/ pc = "parked"
  \/ pc = "stepping" /\ (IsTerminal(status) \/ steps = MaxSteps)

Return ==
  /\ LoopEnds
  /\ IsTerminal(status)
  /\ pc' = "done"
  /\ UNCHANGED <<facts, payment, status, caseRow, decision, gate, effects, age, steps>>

CloseAndReturn ==
  /\ LoopEnds
  /\ ~IsTerminal(status)
  /\ CanTransition(status, "CLOSED_UNRECOVERED")
  /\ CloseUnrecovered
  /\ pc' = "done"
  /\ UNCHANGED <<facts, payment, diagnosis, retryCount, lastAttempt, recovered,
                 decision, gate, effects, age, steps>>

CloseRaises ==
  /\ LoopEnds
  /\ ~IsTerminal(status)
  /\ ~CanTransition(status, "CLOSED_UNRECOVERED")
  /\ pc' = "raised"
  /\ UNCHANGED <<facts, payment, status, caseRow, decision, gate, effects, age, steps>>

Returned == pc \in {"done", "raised"} /\ UNCHANGED vars

PrepareStep == Detected \/ Analyzing \/ Diagnosed \/ Planned
PolicyStep == Allow \/ Escalate \/ Wait \/ BlockAndSwap \/ Block \/ PolicyRaises
ExecuteStep ==
  \/ ExecuteRetry \/ ExecuteSimulatedLink \/ ExecuteRealLink \/ RealLinkRaises
  \/ ExecuteEscalation \/ ExecuteStop
VerifyStep == LadderCloses \/ LadderEscalates \/ LadderRepeats \/ AwaitingApproval
EndStep == Return \/ CloseAndReturn \/ CloseRaises

Next == PrepareStep \/ PolicyStep \/ ExecuteStep \/ VerifyStep \/ EndStep \/ Returned

Spec == Init /\ [][Next]_vars

\* advance_case is a sequential loop: while it can take a step, it takes one.
FairSpec == Spec /\ WF_vars(Next)
-----------------------------------------------------------------------------
(***************************************************************************)
(* Properties.                                                             *)
(***************************************************************************)

DecisionRow ==
  [id : Nat, origin : {"LLM", "FALLBACK"}, diagnosis : Diagnoses,
   diagnosisConfidence : 0..100, strategy : ALL_STRATEGIES,
   strategyConfidence : 0..100, delay : Delay]
GateRow ==
  [decision : Nat, verdict : {"ALLOW", "BLOCK", "ESCALATE", "WAIT"},
   rule : {"none"} \cup {RULE_ORDER[i] : i \in DOMAIN RULE_ORDER}]

\* Type invariant.  Its content is that nothing outside the closed enums of
\* app/db/enums.py is ever stored, whatever the model answers, and that a case
\* never rests in EXECUTING between two steps.
TypeOK ==
  /\ facts \in PossibleFacts
  /\ payment \in {"failed", "captured"}
  /\ status \in CaseStatuses \ {"EXECUTING"}
  /\ diagnosis \in Diagnoses \cup {"none"}
  /\ retryCount \in Nat
  /\ lastAttempt \in Nat \cup {NoAttempt}
  /\ outcome \in {"none", "RECOVERED", "UNRECOVERED"}
  /\ recovered \in Nat
  /\ decision \in DecisionRow \cup {NoDecision}
  /\ gate \in GateRow \cup {NoGate}
  /\ charges \in Nat
  /\ contacts \in Nat
  /\ escalation \in [open : Nat, expired : Nat]
  /\ roll \in {"unrolled", "pays", "declines"}
  /\ age \in Nat
  /\ steps \in 0..MaxSteps
  /\ pc \in {"stepping", "parked", "done", "raised"}

\* The budgets of P03, P08 and P12 hold of the rows actually written, although
\* the gate reads its counters two steps before the executor moves them and the
\* agent may decide again in between.
WithinBudgets ==
  /\ retryCount = facts.priorAttempts + charges
  /\ retryCount <= MaxRetries
  /\ contacts <= ContactCap
  /\ charges > 0 => facts.otherCharges + charges <= SimulationBudget

\* What makes WithinBudgets and EffectsAreGated inductive: from the fourth step
\* on there is a decision, and an approved case still has the room, and is
\* still the age, that the gate saw.
Decided ==
  status \notin {"DETECTED", "ANALYZING"} =>
    decision \in DecisionRow /\ diagnosis \in Diagnoses

ApprovedHasRoom ==
  status = "APPROVED" =>
    /\ gate.verdict = "ALLOW"
    /\ gate.decision = decision.id
    /\ age < TtlHours * 60
    /\ decision.strategy \in RetryStrategies =>
         /\ retryCount < MaxRetries
         /\ facts.otherCharges + charges < SimulationBudget
    /\ decision.strategy \in LinkStrategies => contacts < ContactCap

BudgetInv == TypeOK /\ WithinBudgets /\ Decided /\ ApprovedHasRoom

\* No charge and no contact without an ALLOW for the very decision that is
\* executed, taken while the case was young enough (GUARDRAILS.md 5: "no
\* sequence of DecisionRecords can produce an executor call without an
\* ALLOW/ESCALATE-approved verdict").
EffectsAreGated ==
  [][charges' # charges \/ contacts' # contacts =>
       /\ gate.verdict = "ALLOW"
       /\ gate.decision = decision.id
       /\ age < TtlHours * 60]_vars

\* Two money attempts are at least the policy's cooldown apart, also when the
\* ladder's own schedule (strategies.py) is shorter than it.
ChargesAreSpaced ==
  [][charges' # charges /\ lastAttempt # NoAttempt =>
       age - lastAttempt >= PolicyCooldown(retryCount)]_vars

\* With the thresholds of PolicyConfig the schedule of strategies.py is never
\* shorter than the policy's, so the gate never has to say WAIT.
WaitNeverNeeded == gate.verdict # "WAIT"

\* recovered_amount_minor, outcome, payments.status and RECOVERED tell one
\* story, and a simulated case that pays is recovered by its very first
\* attempt: the latent roll is drawn once.
MoneyIsCaptured ==
  /\ status = "RECOVERED" <=> payment = "captured"
  /\ outcome = "RECOVERED" <=> payment = "captured"
  /\ recovered = (IF payment = "captured" THEN facts.amount ELSE 0)
  /\ payment = "captured" => charges + contacts = 1

\* A human's queue holds one open escalation exactly while the case waits, and
\* a case that left the queue leaves no open escalation behind.
QueueMatchesCase ==
  /\ escalation.open = (IF status = "AWAITING_APPROVAL" THEN 1 ELSE 0)
  /\ status = "ESCALATED" <=> escalation.expired > 0

\* Every status a step passes through is a legal move of the FSM: no call of
\* case_service.transition in _step ever raises.  The executor's branch makes
\* two moves in one step, through EXECUTING.
StepsFollowFSM ==
  [][IF status = "APPROVED" /\ status' # status
     THEN CanTransition(status, "EXECUTING") /\ CanTransition("EXECUTING", status')
     ELSE CanTransition(status, status')]_vars

\* The deterministic table never proposes what the policy forbids: without a
\* model, a case is BLOCKED only because it is too old or because the whole
\* run has used its charges.
BlockedOnlyByAgeOrRunBudget ==
  status = "BLOCKED" => gate.rule \in {"P11", "P12"}

\* An amount at or above the approval limit reaches neither a charge nor a
\* customer (PRODUCT_SPEC.md: "Amount >= 25,000 (approval threshold)" escalates),
\* although P05 lets the limit itself pass: the table closes that gap.  With a
\* model it stays open, and this is stated of runs without one.
CeilingNeedsHuman ==
  [][charges' # charges \/ contacts' # contacts
       => facts.amount < ApprovalLimit]_vars

\* Without a model, the customer of an invalid instrument is contacted once.
InvalidInstrumentNotifiedOnce ==
  diagnosis = "INSTRUMENT_INVALID" => contacts <= 1

\* Without a model, and with simulated links, no case raises, and MAX_STEPS never
\* cuts the ladder of one short: a case at its last step is terminal, so that
\* nothing is closed as unrecovered with attempts left, and no run is lost.
LoopEndsByItself ==
  /\ pc # "raised"
  /\ steps = MaxSteps => IsTerminal(status)

\* Every case the loop runs is driven to a terminal status (tests/test_eval.py:
\* "every case must reach a terminal state").
EveryCaseTerminates == <>(pc = "done" /\ IsTerminal(status))

-----------------------------------------------------------------------------
\* The promise this pipeline implements.
Ending ==
  [RECOVERED |-> "recovered", CLOSED_UNRECOVERED |-> "unrecovered",
   BLOCKED |-> "refused", ESCALATED |-> "human", FAILED |-> "failed"]
StageOf(s) == IF s \in DOMAIN Ending THEN Ending[s] ELSE "open"

Abstract ==
  INSTANCE RecoveryPromise WITH
    ChargeBudget <- MaxRetries, ContactBudget <- ContactCap,
    stage <- StageOf(status), due <- facts.amount, charged <- retryCount,
    contacted <- contacts, booked <- recovered

\* Every behaviour of the pipeline, batch or live, with or without a model,
\* is one the promise allows.
KeepsPromise == Abstract!Safe

-----------------------------------------------------------------------------
(***************************************************************************)
(* What comments say and the code does not do.                             *)
(***************************************************************************)

\* What a parked call leaves behind: pipeline.py has "live mode: wait for the
\* cooldown before re-diagnosing" and "live mode: a human decides" where it parks,
\* so the case stays as it is, and the call does not fail.
ParkedCaseIsLeft ==
  [][pc = "parked" => status' = status /\ pc' # "raised"]_vars
=============================================================================
