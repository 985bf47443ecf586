----------------------------- MODULE TableProofs -----------------------------
(***************************************************************************)
(* Theorems about Pipeline without a model, when every decision is that of *)
(* the table in strategies.py or a forced escalation.  Whether a failed    *)
(* payment is retried or its customer sent a link then depends on the      *)
(* payment alone, and what the table proposes the policy lets pass.        *)
(***************************************************************************)
EXTENDS PipelineProofs

USE PolicyConfigAssumption, PipelineAssumption

\* The payments whose row of the table is a retry.
Retriable ==
  MatrixChoice(facts.evidence.class, facts.hasToken, FALSE).strategy \in RetryStrategies

\* What every decision of the table has in common.
TableDecides ==
  /\ diagnosis \in {"none", facts.evidence.class}
  /\ decision.origin # "LLM"
  /\ decision.delay \in {NoDelay, Minutes(DELAYED_RETRY_MINUTES)}
  /\ decision.strategy \in RetryStrategies => Retriable
  /\ decision.strategy \in LinkStrategies => ~Retriable
  /\ decision.strategy \in RetryStrategies \cup LinkStrategies => facts.amount < ApprovalLimit

\* A case is retried or its customer is contacted, never both.
OneKindOfAttempt ==
  /\ charges > 0 => Retriable
  /\ contacts > 0 => ~Retriable

\* The table is asked again before every retry but the first, and turns to a
\* human at the second.
RetryIsFirstOrSecond ==
  status \in {"PLANNED", "POLICY_CHECK", "APPROVED"} /\ decision.strategy \in RetryStrategies
    => retryCount < 2

TableInv == BudgetInv /\ TableDecides /\ OneKindOfAttempt /\ RetryIsFirstOrSecond

-----------------------------------------------------------------------------
\* The cases never change hands, and only the table and the ladder decide.
LEMMA WhoDecides ==
  [Next]_vars =>
    /\ facts' = facts
    /\ UNCHANGED <<decision, diagnosis>> \/ Decide \/ LadderEscalates
  BY DEF Next, PrepareStep, Detected, Analyzing, Diagnosed, Planned, PolicyStep, Allow,
         Escalate, Wait, BlockAndSwap, Block, PolicyRaises, Gate, Steps, ExecuteStep,
         ExecuteRetry, ExecuteSimulatedLink, ExecuteRealLink, RealLinkRaises,
         ExecuteEscalation, ExecuteStop, VerifyStep, LadderCloses, LadderEscalates,
         LadderRepeats, AwaitingApproval, EndStep, Return, CloseAndReturn, CloseRaises,
         CloseUnrecovered, Returned, vars, caseRow

\* Only the executors move the counters of a case.
LEMMA WhoCounts ==
  ASSUME [Next]_vars
  PROVE  \/ UNCHANGED <<charges, contacts, retryCount>>
         \/ ExecuteRetry \/ ExecuteSimulatedLink \/ ExecuteRealLink
  BY DEF Next, PrepareStep, Detected, Analyzing, Diagnosed, Planned, PolicyStep, Allow,
         Escalate, Wait, BlockAndSwap, Block, PolicyRaises, Steps, ExecuteStep,
         RealLinkRaises, ExecuteEscalation, ExecuteStop, VerifyStep, LadderCloses,
         LadderEscalates, LadderRepeats, AwaitingApproval, EndStep, Return,
         CloseAndReturn, CloseRaises, Returned, vars, caseRow, effects

\* The strategies of the catalog are six, and no retry is a link.
LEMMA RetryIsNoLink ==
  /\ RetryStrategies \cap LinkStrategies = {}
  /\ S5 \notin RetryStrategies \cup LinkStrategies
  /\ S6 \notin RetryStrategies \cup LinkStrategies
  /\ "none" \notin RetryStrategies \cup LinkStrategies
  BY DEF RetryStrategies, LinkStrategies, S1, S2, S3, S4, S5, S6

\* The rows of select_strategy in their order: a stale case, a case for a
\* human, and then the matrix.
LEMMA TableRows ==
  ASSUME BudgetInv, ~LLMConfigured, Decide
  PROVE  /\ diagnosis' = facts.evidence.class
         /\ decision'.origin = "FALLBACK"
         /\ decision'.delay \in {NoDelay, Minutes(DELAYED_RETRY_MINUTES)}
         /\ decision'.strategy \in RetryStrategies => Retriable
         /\ decision'.strategy \in LinkStrategies => ~Retriable
         /\ decision'.strategy \in RetryStrategies \cup LinkStrategies
              => facts.amount < ApprovalLimit /\ retryCount < 2
<1>1. decision' = FallbackDecision(decision.id + 1, Question)
  BY DEF Decide, PossibleDecisions
<1> DEFINE choice == SelectStrategy(Question)
           row == MatrixChoice(facts.evidence.class, facts.hasToken, FALSE)
<1>2. /\ decision'.strategy = choice.strategy /\ decision'.delay = choice.delay
      /\ decision'.origin = "FALLBACK" /\ diagnosis' = facts.evidence.class
  BY <1>1 DEF FallbackDecision, Question, Decide
<1>3. choice \in {Choice(S6), Choice(S5)} \/ (choice = row /\ ~NeedsHuman(Question))
  BY DEF SelectStrategy, Question
<1>4. /\ row.strategy \in RetryStrategies \cup LinkStrategies
      /\ row.delay \in {NoDelay, Minutes(DELAYED_RETRY_MINUTES)}
  BY DEF MatrixChoice, Choice, DelayedRetry, RetryStrategies, LinkStrategies
<1>5. ~NeedsHuman(Question) => facts.amount < ApprovalLimit /\ retryCount < 2
  BY TypedFacts DEF NeedsHuman, Question, BudgetInv, TypeOK
<1>6. Retriable <=> row.strategy \in RetryStrategies
  BY DEF Retriable
<1>7. CASE choice \in {Choice(S6), Choice(S5)}
  BY <1>2, <1>7, RetryIsNoLink DEF Choice
<1>8. CASE choice = row /\ ~NeedsHuman(Question)
  BY <1>2, <1>4, <1>5, <1>6, <1>8, RetryIsNoLink
<1> QED
  BY <1>3, <1>7, <1>8

-----------------------------------------------------------------------------
\* What the table decides stays what the table decides.
LEMMA StepKeepsTable ==
  ASSUME ~LLMConfigured, TableInv, [Next]_vars
  PROVE  TableDecides'
<1>1. facts' = facts /\ (Retriable' <=> Retriable)
  BY WhoDecides DEF Retriable
<1>2. CASE UNCHANGED <<decision, diagnosis>>
  BY <1>1, <1>2 DEF TableInv, TableDecides
<1>3. CASE Decide
  BY <1>1, <1>3, TableRows DEF TableInv, TableDecides
<1>4. CASE LadderEscalates
  BY <1>1, <1>4, RetryIsNoLink DEF LadderEscalates, TableInv, TableDecides, caseRow
<1> QED
  BY <1>2, <1>3, <1>4, WhoDecides

\* A retry is charged to a retriable payment, a link goes to the customer of
\* another.
LEMMA StepKeepsKind ==
  ASSUME TableInv, [Next]_vars
  PROVE  OneKindOfAttempt'
<1>1. facts' = facts /\ (Retriable' <=> Retriable)
  BY WhoDecides DEF Retriable
<1>2. CASE ExecuteRetry
  BY <1>1, <1>2 DEF ExecuteRetry, TableInv, TableDecides, OneKindOfAttempt
<1>3. CASE ExecuteSimulatedLink \/ ExecuteRealLink
  BY <1>1, <1>3 DEF ExecuteSimulatedLink, ExecuteRealLink, TableInv, TableDecides, OneKindOfAttempt
<1>4. CASE UNCHANGED <<charges, contacts, retryCount>>
  BY <1>1, <1>4 DEF TableInv, OneKindOfAttempt
<1> QED
  BY <1>2, <1>3, <1>4, WhoCounts

\* The only ways into PLANNED without asking the table are a first attempt and
\* a WAIT of the gate.
LEMMA StepKeepsRetryCount ==
  ASSUME ~LLMConfigured, TableInv, [Next]_vars
  PROVE  RetryIsFirstOrSecond'
<1> USE DEF TableInv, RetryIsFirstOrSecond
<1>0. BudgetInv /\ retryCount \in Nat
  BY DEF BudgetInv, TypeOK
<1>1. CASE Detected \/ Analyzing
  BY <1>1 DEF Detected, Analyzing
<1>2. CASE Diagnosed
  <2>1. CASE retryCount > 0
    BY <1>0, <1>2, <2>1, TableRows DEF Diagnosed
  <2>2. CASE retryCount = 0
    BY <1>2, <2>2 DEF Diagnosed
  <2> QED
    BY <1>0, <2>1, <2>2
<1>3. CASE Planned \/ Allow \/ Wait \/ PolicyRaises
  BY <1>3 DEF Planned, Allow, Wait, PolicyRaises, Gate, Steps, caseRow
<1>4. CASE Escalate \/ Block
  BY <1>4 DEF Escalate, Block
<1>5. ~BlockAndSwap
  BY DEF BlockAndSwap, TableDecides
<1>6. CASE ExecuteRetry \/ ExecuteSimulatedLink
  BY <1>0, <1>6, SettleType DEF ExecuteRetry, ExecuteSimulatedLink, BudgetInv
<1>7. CASE ExecuteRealLink \/ ExecuteEscalation \/ ExecuteStop
  BY <1>7 DEF ExecuteRealLink, ExecuteEscalation, ExecuteStop
<1>8. CASE RealLinkRaises
  BY <1>8 DEF RealLinkRaises, caseRow
<1>9. CASE VerifyStep
  BY <1>9 DEF VerifyStep, LadderCloses, CloseUnrecovered, LadderEscalates, LadderRepeats,
              AwaitingApproval, Steps
<1>10. CASE EndStep
  BY <1>10 DEF EndStep, Return, CloseAndReturn, CloseUnrecovered, CloseRaises, caseRow
<1>11. CASE UNCHANGED vars
  BY <1>11 DEF vars, caseRow
<1> QED
  BY <1>1, <1>2, <1>3, <1>4, <1>5, <1>6, <1>7, <1>8, <1>9, <1>10, <1>11
     DEF Next, PrepareStep, PolicyStep, ExecuteStep, Returned

LEMMA NewTable == facts \in PossibleFacts /\ NewCase => TableInv
<1> SUFFICES ASSUME facts \in PossibleFacts, NewCase PROVE TableInv
  OBVIOUS
<1>1. TableDecides /\ RetryIsFirstOrSecond
  BY RetryIsNoLink DEF NewCase, NoDecision, TableDecides, RetryIsFirstOrSecond
<1>2. OneKindOfAttempt
  BY DEF NewCase, OneKindOfAttempt
<1> QED
  BY <1>1, <1>2, NewBudget DEF TableInv

LEMMA StepKeepsTableInv ==
  ASSUME ~LLMConfigured
  PROVE  TableInv /\ [Next]_vars => TableInv'
  BY StepKeepsBudget, StepKeepsTable, StepKeepsKind, StepKeepsRetryCount DEF TableInv

LEMMA TableInvariant == ASSUME ~LLMConfigured PROVE Spec => []TableInv
<1>1. Init => TableInv
  BY NewTable DEF Init
<1> QED
  BY <1>1, StepKeepsTableInv, PTL DEF Spec

\* A step that charges or contacts executes a decision of the table.
LEMMA AttemptIsBelowLimit ==
  ASSUME TableInv, [Next]_vars, charges' # charges \/ contacts' # contacts
  PROVE  facts.amount < ApprovalLimit
<1>1. ExecuteRetry \/ ExecuteSimulatedLink \/ ExecuteRealLink
  BY WhoCounts
<1> QED
  BY <1>1 DEF ExecuteRetry, ExecuteSimulatedLink, ExecuteRealLink, TableInv, TableDecides

\* Without a model, no threshold and no case let an amount on the limit reach
\* a charge or a customer.
THEOREM CeilingHolds == ~LLMConfigured => (Spec => CeilingNeedsHuman)
<1> SUFFICES ASSUME ~LLMConfigured PROVE Spec => CeilingNeedsHuman
  OBVIOUS
<1>1. TableInv /\ [Next]_vars
        => [charges' # charges \/ contacts' # contacts => facts.amount < ApprovalLimit]_vars
  BY AttemptIsBelowLimit
<1> QED
  BY <1>1, TableInvariant, PTL DEF Spec, CeilingNeedsHuman

-----------------------------------------------------------------------------
\* The customer of an invalid instrument is contacted at the end.
NotifiedIsLast ==
  contacts > 0 /\ facts.evidence.class = "INSTRUMENT_INVALID" =>
    contacts = 1 /\ (status = "VERIFYING" \/ IsTerminal(status))

\* From the first notice on, the ladder of an invalid instrument closes the
\* case; before it, no contact was made.
LEMMA StepKeepsNotified ==
  TableInv /\ NotifiedIsLast /\ [Next]_vars => NotifiedIsLast'
<1> SUFFICES ASSUME TableInv, NotifiedIsLast, [Next]_vars PROVE NotifiedIsLast'
  OBVIOUS
<1> USE DEF NotifiedIsLast, IsTerminal, TerminalStatuses
<1>0. /\ facts' = facts /\ BudgetInv /\ contacts \in Nat
      /\ status \notin {"DETECTED", "ANALYZING"} => diagnosis = facts.evidence.class
  BY WhoDecides DEF TableInv, TableDecides, BudgetInv, TypeOK, Decided, Diagnoses
<1>1. CASE ExecuteSimulatedLink
  BY <1>0, <1>1, SettleType DEF ExecuteSimulatedLink, BudgetInv, Steps
<1>2. CASE ExecuteRealLink
  BY <1>0, <1>2 DEF ExecuteRealLink, Steps
<1>3. CASE ExecuteRetry
  BY <1>0, <1>3 DEF ExecuteRetry, Steps
<1>4. CASE RealLinkRaises \/ ExecuteEscalation \/ ExecuteStop
  BY <1>0, <1>4 DEF RealLinkRaises, ExecuteEscalation, ExecuteStop, Steps, effects
<1>5. CASE PrepareStep
  BY <1>0, <1>5 DEF PrepareStep, Detected, Analyzing, Diagnosed, Planned, Steps, effects
<1>6. CASE PolicyStep
  BY <1>0, <1>6 DEF PolicyStep, Allow, Escalate, Wait, BlockAndSwap, Block, PolicyRaises,
                    Gate, Steps, effects
<1>7. CASE LadderCloses
  BY <1>0, <1>7 DEF LadderCloses, CloseUnrecovered, effects
<1>8. CASE LadderEscalates \/ LadderRepeats
  <2>1. ~NotifiedOnce(diagnosis, contacts) /\ status = "VERIFYING" /\ contacts' = contacts
    BY <1>8 DEF LadderEscalates, LadderRepeats, LadderEnds, Steps, effects
  <2>2. contacts > 0 => facts.evidence.class # "INSTRUMENT_INVALID"
    BY <1>0, <2>1 DEF NotifiedOnce
  <2> QED
    BY <1>0, <2>1, <2>2
<1>9. CASE AwaitingApproval
  BY <1>0, <1>9 DEF AwaitingApproval, Steps
<1>10. CASE EndStep
  BY <1>0, <1>10 DEF EndStep, Return, CloseAndReturn, CloseUnrecovered, CloseRaises, effects
<1>11. CASE UNCHANGED vars
  BY <1>0, <1>11 DEF vars, effects
<1> QED
  BY <1>1, <1>2, <1>3, <1>4, <1>5, <1>6, <1>7, <1>8, <1>9, <1>10, <1>11
     DEF Next, ExecuteStep, VerifyStep, Returned

\* Without a model, the customer of an invalid instrument hears from the
\* merchant once, whatever the contact cap (pipeline.py, "notify once").
THEOREM NotifiedOnceHolds ==
  ~LLMConfigured => (Spec => []InvalidInstrumentNotifiedOnce)
<1> SUFFICES ASSUME ~LLMConfigured PROVE Spec => []InvalidInstrumentNotifiedOnce
  OBVIOUS
<1>1. Init => NotifiedIsLast
  BY DEF Init, NewCase, NotifiedIsLast
<1>2. TableInv /\ NotifiedIsLast => InvalidInstrumentNotifiedOnce
  BY DEF TableInv, TableDecides, NotifiedIsLast, InvalidInstrumentNotifiedOnce, BudgetInv, TypeOK
<1> QED
  BY <1>1, <1>2, TableInvariant, StepKeepsNotified, PTL DEF Spec

-----------------------------------------------------------------------------
(***************************************************************************)
(* What the policy needs beside the table, so that the two agree: two      *)
(* retries (the table turns to a human at the second), one contact, and    *)
(* payments that come with no attempts or with as many as the table needs. *)
(* scripts/generate_dataset.py gives 0 or 2.                               *)
(***************************************************************************)
TableFitsPolicy ==
  /\ ~LLMConfigured
  /\ MaxRetries >= 2
  /\ ContactCap >= 1
  /\ \A c \in Cases : c.priorAttempts # 1

\* The counters are such that P08 lets pass what was decided; a captured
\* payment is at its end.
ContactHasRoom ==
  /\ facts.priorAttempts # 1
  /\ status \in {"DETECTED", "ANALYZING"} => charges = 0 /\ contacts = 0
  /\ decision.strategy \in LinkStrategies => retryCount = 0
  /\ status \in {"DIAGNOSED", "PLANNED", "POLICY_CHECK", "APPROVED"} =>
       (decision.strategy \in LinkStrategies => contacts < ContactCap)
  /\ payment = "captured" => status = "RECOVERED"

\* A rule that stops a decision of the table is a rule of the clock or of the
\* run: P04, P05, P06, P11 or P12.
LEMMA TableFitsRules ==
  ASSUME TableInv, ContactHasRoom, MaxRetries >= 2, status = "POLICY_CHECK",
         NEW rule, rule = TriggeredRule(PolicyContext), rule # "none"
  PROVE  rule \in {"P04", "P05", "P06", "P11", "P12"}
<1> DEFINE ctx == PolicyContext
<1>0. BudgetInv /\ decision.strategy \in ALL_STRATEGIES
  BY DEF TableInv, BudgetInv, Decided, DecisionRow
<1>1. /\ ctx.status = "POLICY_CHECK" /\ ctx.payment = payment /\ ~ctx.capturedForOrder
      /\ ctx.retries = retryCount /\ ctx.contacts = contacts /\ ctx.diagnosis = diagnosis
      /\ ctx.delay = decision.delay /\ ctx.linkAmount = NoAmount /\ ctx.channel = "absent"
      /\ ~ctx.existingAction /\ ~ctx.downtime /\ ctx.action = ActionOf(decision.strategy)
  BY DEF PolicyContext
<1> HIDE DEF ctx
<1>2. ctx.action \in RETRY_ACTIONS => decision.strategy \in RetryStrategies
  BY <1>1 DEF RETRY_ACTIONS, ActionOf
<1>3. ctx.action \in CONTACT_ACTIONS => decision.strategy \in LinkStrategies
  BY <1>1 DEF CONTACT_ACTIONS, ActionOf
<1>4. P01(ctx) /\ P02(ctx)
  BY <1>0, <1>1 DEF P01, P02, ContactHasRoom, BudgetInv, TypeOK, ELIGIBLE_STATES
<1>5. P03(ctx)
  BY <1>1, <1>2 DEF P03, TableInv, RetryIsFirstOrSecond, BudgetInv, TypeOK
<1>6. P07(ctx) /\ P09(ctx) /\ P14(ctx)
  BY <1>1 DEF P07, P09, P14
<1>7. P08(ctx)
  BY <1>1, <1>3 DEF P08, ContactHasRoom
<1>8. P10(ctx)
  <2>1. Retriable => facts.evidence.class \notin RETRY_FORBIDDEN_DIAGNOSES
    BY RetryIsNoLink DEF Retriable, MatrixChoice, Choice, RETRY_FORBIDDEN_DIAGNOSES, LinkStrategies
  <2>2. diagnosis \in {"none", facts.evidence.class}
    BY DEF TableInv, TableDecides
  <2> QED
    BY <1>1, <1>2, <2>1, <2>2 DEF P10, TableInv, TableDecides, RETRY_FORBIDDEN_DIAGNOSES
<1>9. P13(ctx)
  <2>1. ctx.delay \in {NoDelay, Minutes(DELAYED_RETRY_MINUTES)}
    BY <1>1 DEF TableInv, TableDecides
  <2>2. ctx.delay.kind = "number" => ctx.delay.minutes = 240
    BY <2>1 DEF NoDelay, Minutes, DELAYED_RETRY_MINUTES
  <2> QED
    BY <1>1, <2>2 DEF P13
<1>10. PICK i \in DOMAIN RULE_ORDER : rule = RULE_ORDER[i] /\ ~Passes(ctx)[RULE_ORDER[i]]
  BY TriggeredRuleFails DEF ctx
<1>11. i \in 1..14
  BY DEF RULE_ORDER
<1>12. /\ Passes(ctx)["P01"] /\ Passes(ctx)["P02"] /\ Passes(ctx)["P03"]
       /\ Passes(ctx)["P07"] /\ Passes(ctx)["P08"] /\ Passes(ctx)["P09"]
       /\ Passes(ctx)["P10"] /\ Passes(ctx)["P13"] /\ Passes(ctx)["P14"]
  BY <1>4, <1>5, <1>6, <1>7, <1>8, <1>9 DEF Passes
<1>13. rule \in {"P01", "P02", "P03", "P04", "P05", "P06", "P07", "P08", "P09", "P10",
                 "P11", "P12", "P13", "P14"}
  BY <1>10, <1>11 DEF RULE_ORDER
<1> QED
  BY <1>10, <1>12, <1>13

\* A link is only decided before any attempt of the case, a retry by the table
\* only for a retriable payment.
LEMMA StepKeepsContactRoom ==
  ASSUME TableFitsPolicy
  PROVE  TableInv /\ ContactHasRoom /\ [Next]_vars => ContactHasRoom'
<1> SUFFICES ASSUME TableInv, ContactHasRoom, [Next]_vars PROVE ContactHasRoom'
  OBVIOUS
<1>0. /\ BudgetInv /\ facts' = facts /\ charges \in Nat /\ contacts \in Nat
      /\ retryCount = facts.priorAttempts + charges
      /\ facts.priorAttempts \in Nat /\ retryCount \in Nat
  BY WhoDecides, TypedFacts DEF TableInv, BudgetInv, TypeOK, WithinBudgets
<1>1. ASSUME Decide
      PROVE  decision'.strategy \in LinkStrategies => retryCount = 0 /\ charges = 0
  <2> SUFFICES ASSUME decision'.strategy \in LinkStrategies PROVE retryCount = 0 /\ charges = 0
    OBVIOUS
  <2>1. ~Retriable /\ retryCount < 2
    BY <1>0, <1>1, TableRows DEF TableFitsPolicy
  <2> QED
    BY <1>0, <2>1 DEF TableInv, OneKindOfAttempt, ContactHasRoom
<1> USE DEF ContactHasRoom
<1>2. CASE Detected
  BY <1>0, <1>2 DEF Detected, Steps, caseRow, effects
<1>3. CASE Analyzing
  BY <1>0, <1>1, <1>3 DEF Analyzing, Steps, effects, TableFitsPolicy
<1>4. CASE Diagnosed
  BY <1>0, <1>1, <1>4 DEF Diagnosed, Steps, effects
<1>5. CASE Planned \/ Allow \/ Escalate \/ Wait \/ Block \/ PolicyRaises
  BY <1>0, <1>5 DEF Planned, Allow, Escalate, Wait, Block, PolicyRaises, Gate, Steps, caseRow,
                    effects
<1>6. ~BlockAndSwap
  BY DEF BlockAndSwap, TableInv, TableDecides
<1>7. CASE ExecuteRetry
  BY <1>0, <1>7, SettleType, RetryIsNoLink
     DEF ExecuteRetry, SettleAttempt, RecordCapture, Steps, BudgetInv
<1>8. CASE ExecuteSimulatedLink
  BY <1>0, <1>8, SettleType
     DEF ExecuteSimulatedLink, SettleAttempt, RecordCapture, Steps, BudgetInv
<1>9. CASE ExecuteRealLink \/ ExecuteEscalation \/ ExecuteStop \/ RealLinkRaises
  BY <1>0, <1>9 DEF ExecuteRealLink, ExecuteEscalation, ExecuteStop, RealLinkRaises, Steps,
                    caseRow, effects
<1>10. CASE LadderCloses
  BY <1>0, <1>10 DEF LadderCloses, CloseUnrecovered, Steps, effects
<1>11. CASE LadderEscalates
  BY <1>0, <1>11, RetryIsNoLink DEF LadderEscalates, Steps, caseRow, effects
<1>12. CASE LadderRepeats
  BY <1>0, <1>12 DEF LadderRepeats, CapReached, Steps, caseRow, effects
<1>13. CASE AwaitingApproval
  BY <1>0, <1>13 DEF AwaitingApproval, Steps, caseRow
<1>14. CASE EndStep
  BY <1>0, <1>14 DEF EndStep, Return, CloseAndReturn, CloseUnrecovered, CloseRaises, caseRow,
                     effects, IsTerminal, TerminalStatuses
<1>15. CASE UNCHANGED vars
  BY <1>0, <1>15 DEF vars, caseRow, effects
<1> QED
  BY <1>2, <1>3, <1>4, <1>5, <1>6, <1>7, <1>8, <1>9, <1>10, <1>11, <1>12, <1>13, <1>14, <1>15
     DEF Next, PrepareStep, PolicyStep, ExecuteStep, VerifyStep, Returned

LEMMA NewContactRoom ==
  ASSUME facts.priorAttempts # 1, NewCase
  PROVE  ContactHasRoom
  BY RetryIsNoLink DEF NewCase, NoDecision, ContactHasRoom

\* The verdict that blocks a case is final.
LEMMA StepKeepsBlocked ==
  ASSUME TableFitsPolicy
  PROVE  TableInv /\ ContactHasRoom /\ BlockedOnlyByAgeOrRunBudget /\ [Next]_vars
           => BlockedOnlyByAgeOrRunBudget'
<1> SUFFICES ASSUME TableInv, ContactHasRoom, BlockedOnlyByAgeOrRunBudget, [Next]_vars
             PROVE  BlockedOnlyByAgeOrRunBudget'
  OBVIOUS
<1> USE DEF BlockedOnlyByAgeOrRunBudget
<1>1. CASE Block
  <2> DEFINE rule == TriggeredRule(PolicyContext)
  <2>1. status = "POLICY_CHECK" /\ Verdict(PolicyContext) = "BLOCK" /\ gate'.rule = rule
    BY <1>1 DEF Block, Gate, Steps
  <2>2. rule # "none" /\ rule \notin ESCALATE_RULES /\ rule \notin WAIT_RULES
    BY <2>1 DEF Verdict
  <2>3. rule \in {"P04", "P05", "P06", "P11", "P12"}
    BY <2>1, <2>2, TableFitsRules DEF TableFitsPolicy
  <2> QED
    BY <2>1, <2>2, <2>3 DEF ESCALATE_RULES, WAIT_RULES
<1>2. CASE PrepareStep \/ VerifyStep
  BY <1>2 DEF PrepareStep, Detected, Analyzing, Diagnosed, Planned, VerifyStep, LadderCloses,
              CloseUnrecovered, LadderEscalates, LadderRepeats, AwaitingApproval, Steps
<1>3. CASE Allow \/ Escalate \/ Wait \/ BlockAndSwap \/ PolicyRaises
  BY <1>3 DEF Allow, Escalate, Wait, BlockAndSwap, StatusAfterSwap, PolicyRaises, Gate, Steps
<1>4. CASE ExecuteRetry \/ ExecuteSimulatedLink
  BY <1>4, SettleType DEF ExecuteRetry, ExecuteSimulatedLink, TableInv, BudgetInv
<1>5. CASE ExecuteRealLink \/ RealLinkRaises \/ ExecuteEscalation \/ ExecuteStop
  BY <1>5 DEF ExecuteRealLink, RealLinkRaises, ExecuteEscalation, ExecuteStop, Steps
<1>6. CASE EndStep
  BY <1>6 DEF EndStep, Return, CloseAndReturn, CloseUnrecovered, CloseRaises
<1>7. CASE UNCHANGED vars
  BY <1>7 DEF vars
<1> QED
  BY <1>1, <1>2, <1>3, <1>4, <1>5, <1>6, <1>7 DEF Next, PolicyStep, ExecuteStep, Returned

\* Where the thresholds fit the table, what the table proposes is refused only
\* for the age of the case or for the charges of the whole run.
THEOREM TableIsNeverBlocked ==
  TableFitsPolicy => (Spec => []BlockedOnlyByAgeOrRunBudget)
<1> SUFFICES ASSUME TableFitsPolicy PROVE Spec => []BlockedOnlyByAgeOrRunBudget
  OBVIOUS
<1>1. Init => ContactHasRoom /\ BlockedOnlyByAgeOrRunBudget
  BY NewContactRoom DEF TableFitsPolicy, Init, NewCase, BlockedOnlyByAgeOrRunBudget
<1>2. Spec => []TableInv
  BY TableInvariant DEF TableFitsPolicy
<1> QED
  BY <1>1, <1>2, StepKeepsContactRoom, StepKeepsBlocked, PTL DEF Spec

-----------------------------------------------------------------------------
(***************************************************************************)
(* The schedule of strategies.py against the cooldowns of P04.             *)
(***************************************************************************)

\* A retriable payment is planned again only after the ladder's schedule.
PlannedIsSpaced ==
  /\ lastAttempt # NoAttempt => age >= lastAttempt
  /\ lastAttempt # NoAttempt /\ Retriable => retryCount >= 1
  /\ status \in {"DETECTED", "ANALYZING", "DIAGNOSED", "PLANNED", "POLICY_CHECK"}
       /\ lastAttempt # NoAttempt /\ Retriable
       => age - lastAttempt >= CooldownMinutes(retryCount)

\* The ladder advances the clock by the schedule before it plans again; it
\* turns to a human at once only where the customer was contacted.
LEMMA StepKeepsPlannedSpaced ==
  ASSUME ~LLMConfigured, ContactCap >= 1
  PROVE  TableInv /\ PlannedIsSpaced /\ [Next]_vars => PlannedIsSpaced'
<1> SUFFICES ASSUME TableInv, PlannedIsSpaced, [Next]_vars PROVE PlannedIsSpaced'
  OBVIOUS
<1>0. /\ BudgetInv /\ (Retriable' <=> Retriable)
      /\ retryCount \in Nat /\ age \in Nat /\ contacts \in Nat
      /\ lastAttempt \in Nat \cup {NoAttempt} /\ CooldownMinutes(retryCount) \in Nat
  <2>1. Retriable' <=> Retriable
    BY WhoDecides DEF Retriable
  <2>2. CooldownMinutes(retryCount) \in Nat
    BY DEF CooldownMinutes
  <2> QED
    BY <2>1, <2>2 DEF TableInv, BudgetInv, TypeOK
<1> USE DEF PlannedIsSpaced, NoAttempt
<1>1. CASE Detected \/ Analyzing \/ Diagnosed \/ Planned
  BY <1>0, <1>1 DEF Detected, Analyzing, Diagnosed, Planned, Steps, caseRow
<1>2. CASE Allow \/ Escalate \/ Block \/ PolicyRaises
  BY <1>0, <1>2 DEF Allow, Escalate, Block, PolicyRaises, Gate, Steps, caseRow
<1>3. CASE Wait
  <2>1. CooldownBase * 2^retryCount \in Nat
    BY <1>0, PowerOfTwo
  <2> DEFINE later == CooldownBase * 2^retryCount
  <2>2. age' \in {age, age + later} /\ UNCHANGED <<lastAttempt, retryCount>>
    BY <1>3 DEF Wait, caseRow
  <2>3. status = "POLICY_CHECK"
    BY <1>3 DEF Wait, Gate, Steps
  <2> HIDE DEF later
  <2> QED
    BY <1>0, <2>1, <2>2, <2>3 DEF later
<1>4. ~BlockAndSwap
  BY DEF BlockAndSwap, TableInv, TableDecides
<1>5. CASE ExecuteRetry
  BY <1>0, <1>5, SettleType
     DEF ExecuteRetry, SettleAttempt, RecordCapture, NextRetryCount, Steps, BudgetInv
<1>6. CASE ExecuteSimulatedLink \/ ExecuteRealLink
  <2>1. /\ ~Retriable /\ age' = age /\ lastAttempt' \in {age, lastAttempt}
    BY <1>6 DEF ExecuteSimulatedLink, ExecuteRealLink, SettleAttempt, TableInv, TableDecides
  <2> QED
    BY <1>0, <2>1
<1>7. CASE RealLinkRaises \/ ExecuteEscalation \/ ExecuteStop
  BY <1>0, <1>7 DEF RealLinkRaises, ExecuteEscalation, ExecuteStop, Steps, caseRow
<1>8. CASE LadderCloses
  BY <1>0, <1>8 DEF LadderCloses, CloseUnrecovered
<1>9. CASE LadderEscalates
  <2>1. ~Retriable
    BY <1>0, <1>9 DEF LadderEscalates, CapReached, TableInv, OneKindOfAttempt
  <2> QED
    BY <1>0, <1>9, <2>1 DEF LadderEscalates, caseRow
<1>10. CASE LadderRepeats
  BY <1>0, <1>10 DEF LadderRepeats, Steps, caseRow
<1>11. CASE AwaitingApproval
  BY <1>0, <1>11 DEF AwaitingApproval, Steps, caseRow
<1>12. CASE EndStep
  BY <1>0, <1>12 DEF EndStep, Return, CloseAndReturn, CloseUnrecovered, CloseRaises, caseRow
<1>13. CASE UNCHANGED vars
  BY <1>0, <1>13 DEF vars, caseRow
<1> QED
  BY <1>1, <1>2, <1>3, <1>4, <1>5, <1>6, <1>7, <1>8, <1>9, <1>10, <1>11, <1>12, <1>13
     DEF Next, PrepareStep, PolicyStep, ExecuteStep, VerifyStep, Returned

\* The policy's second cooldown is twice its base.
LEMMA SecondCooldown ==
  ASSUME CooldownBase <= 60 PROVE PolicyCooldown(1) <= CooldownMinutes(1)
<1>1. 2^1 = 2
  <2>1. IsFiniteSet({1}) /\ Cardinality({1}) = 1
    BY FS_Singleton
  <2>2. Cardinality(SUBSET {1}) = 2^1
    BY <2>1, FS_SUBSET
  <2>3. SUBSET {1} = {{}} \cup {{1}}
    BY Zenon
  <2>4. IsFiniteSet({{}}) /\ Cardinality({{}}) = 1
    BY FS_Singleton
  <2>5. Cardinality({{}} \cup {{1}}) = Cardinality({{}}) + 1
    BY <2>4, FS_AddElement
  <2> QED
    BY <2>2, <2>3, <2>4, <2>5
<1>2. CooldownBase * 2^1 = CooldownBase + CooldownBase
  BY <1>1
<1> QED
  BY <1>2 DEF PolicyCooldown, CooldownMinutes, DAY_MINUTES

\* P09 never fails, and P04 fails for no retry the ladder has scheduled.
LEMMA GateNeedsNoWait ==
  ASSUME TableInv, PlannedIsSpaced, CooldownBase <= 60, status = "POLICY_CHECK"
  PROVE  Verdict(PolicyContext) # "WAIT"
<1> DEFINE ctx == PolicyContext
<1>1. /\ ctx.retries = retryCount /\ ctx.age = age /\ ctx.lastAttempt = lastAttempt
      /\ ~ctx.downtime /\ ctx.action = ActionOf(decision.strategy)
  BY DEF PolicyContext
<1> HIDE DEF ctx
<1>2. P09(ctx)
  BY <1>1 DEF P09
<1>3. P04(ctx)
  <2> SUFFICES ASSUME ctx.action \in RETRY_ACTIONS, lastAttempt # NoAttempt
               PROVE  age - lastAttempt >= PolicyCooldown(retryCount)
    BY <1>1 DEF P04
  <2>1. decision.strategy \in RetryStrategies
    BY <1>1 DEF RETRY_ACTIONS, ActionOf
  <2>2. Retriable /\ retryCount \in Nat /\ age \in Nat /\ lastAttempt \in Nat
    BY <2>1 DEF TableInv, TableDecides, BudgetInv, TypeOK
  <2>3. retryCount = 1
    BY <2>1, <2>2 DEF PlannedIsSpaced, TableInv, RetryIsFirstOrSecond
  <2>4. age - lastAttempt >= CooldownMinutes(1)
    BY <2>2, <2>3 DEF PlannedIsSpaced
  <2>5. PolicyCooldown(1) \in Int /\ CooldownMinutes(1) \in Int
    <3>1. CooldownBase * 2^1 \in Nat
      BY PowerOfTwo
    <3> QED
      BY <3>1 DEF PolicyCooldown, CooldownMinutes, DAY_MINUTES
  <2> QED
    BY <2>2, <2>3, <2>4, <2>5, SecondCooldown
<1>4. TriggeredRule(ctx) \notin {"P04", "P09"}
  <2>1. \/ TriggeredRule(ctx) = "none"
        \/ \E i \in 1..14 : /\ TriggeredRule(ctx) = RULE_ORDER[i]
                            /\ ~Passes(ctx)[RULE_ORDER[i]]
    <3>1. DOMAIN RULE_ORDER = 1..14
      BY DEF RULE_ORDER
    <3> QED
      BY <3>1, TriggeredRuleFails
  <2>2. Passes(ctx)["P04"] /\ Passes(ctx)["P09"]
    BY <1>2, <1>3 DEF Passes
  <2> QED
    BY <2>1, <2>2
<1> QED
  BY <1>4 DEF Verdict, WAIT_RULES, ESCALATE_RULES, ctx

\* So no verdict that is recorded is WAIT.
LEMMA StepKeepsNoWait ==
  ASSUME CooldownBase <= 60
  PROVE  TableInv /\ PlannedIsSpaced /\ WaitNeverNeeded /\ [Next]_vars => WaitNeverNeeded'
<1> SUFFICES ASSUME TableInv, PlannedIsSpaced, WaitNeverNeeded, [Next]_vars
             PROVE  WaitNeverNeeded'
  OBVIOUS
<1>1. gate' = gate \/ \E verdict \in {"ALLOW", "ESCALATE", "WAIT", "BLOCK"} : Gate(verdict)
  BY DEF Next, PrepareStep, Detected, Analyzing, Diagnosed, Planned, PolicyStep, Allow,
         Escalate, Wait, BlockAndSwap, Block, PolicyRaises, ExecuteStep, ExecuteRetry,
         ExecuteSimulatedLink, ExecuteRealLink, RealLinkRaises, ExecuteEscalation,
         ExecuteStop, VerifyStep, LadderCloses, LadderEscalates, LadderRepeats,
         AwaitingApproval, EndStep, Return, CloseAndReturn, CloseRaises, Returned, vars
<1>2. ASSUME NEW verdict, Gate(verdict) PROVE gate'.verdict # "WAIT"
  BY <1>2, GateNeedsNoWait DEF Gate, Steps
<1> QED
  BY <1>1, <1>2 DEF WaitNeverNeeded

\* Without a model, with at least one contact to make and a base cooldown of
\* at most an hour, the gate never says WAIT: the fast-forward of the policy's
\* cooldown in _step is dead code.
THEOREM ScheduleOutlastsCooldown ==
  ~LLMConfigured /\ ContactCap >= 1 /\ CooldownBase <= 60 => (Spec => []WaitNeverNeeded)
<1> SUFFICES ASSUME ~LLMConfigured, ContactCap >= 1, CooldownBase <= 60
             PROVE  Spec => []WaitNeverNeeded
  OBVIOUS
<1>1. Init => PlannedIsSpaced /\ WaitNeverNeeded
  BY DEF Init, NewCase, NoGate, PlannedIsSpaced, WaitNeverNeeded
<1> QED
  BY <1>1, TableInvariant, StepKeepsPlannedSpaced, StepKeepsNoWait, PTL DEF Spec

-----------------------------------------------------------------------------
(***************************************************************************)
(* The steps of advance_case.  A round of the ladder is five of them and   *)
(* consumes a charge or a contact; before the first there are two, and a   *)
(* case leaves the last one within six.                                    *)
(***************************************************************************)

\* evaluate.py without a model, a ladder that never waits, and a MAX_STEPS with
\* room for two charges and for all contacts.
TableFitsLoop ==
  /\ ~LLMConfigured
  /\ ~RealLinks
  /\ FastForward
  /\ ContactCap >= 1
  /\ CooldownBase <= 60
  /\ MaxSteps >= 7 + 5 * 2
  /\ MaxSteps >= 7 + 5 * ContactCap

\* The steps a case has used at most when it reaches a status.
StepsWithin(n) == steps <= n + 5 * (charges + contacts)
StepsCounted ==
  /\ status = "DETECTED" => StepsWithin(0)
  /\ status = "ANALYZING" => StepsWithin(1)
  /\ status = "DIAGNOSED" => StepsWithin(2)
  /\ status = "PLANNED" => StepsWithin(3)
  /\ status = "POLICY_CHECK" => StepsWithin(4)
  /\ status = "APPROVED" => StepsWithin(5)
  /\ status = "VERIFYING" /\ decision.strategy # S6 => StepsWithin(1)
  /\ status = "VERIFYING" => StepsWithin(6)
  /\ status = "AWAITING_APPROVAL" => StepsWithin(6)

LoopIsFree ==
  /\ charges <= 2
  /\ StepsCounted
  /\ pc \in {"stepping", "done"}
  /\ pc = "done" => IsTerminal(status)

\* A case that is not at its end has steps left.
LEMMA StepsAreLeft ==
  ASSUME TableFitsLoop, TableInv, LoopIsFree, ~IsTerminal(status)
  PROVE  steps < MaxSteps
<1>1. /\ charges \in Nat /\ contacts \in Nat /\ steps \in Nat /\ contacts <= ContactCap
      /\ status \in CaseStatuses \ {"EXECUTING"} /\ MaxSteps \in Nat /\ ContactCap \in Nat
  BY DEF TableInv, BudgetInv, TypeOK, WithinBudgets
<1>2. StepsWithin(6)
  BY <1>1 DEF LoopIsFree, StepsCounted, StepsWithin, CaseStatuses, ActiveStatuses, IsTerminal
<1>3. charges = 0 \/ contacts = 0
  BY <1>1 DEF TableInv, OneKindOfAttempt
<1>4. charges <= 2
  BY DEF LoopIsFree
<1> QED
  BY <1>1, <1>2, <1>3, <1>4 DEF StepsWithin, TableFitsLoop

\* Five statuses are one step each; an attempt gives the next round its five.
LEMMA StepKeepsLoopFree ==
  ASSUME TableFitsLoop
  PROVE  TableInv /\ PlannedIsSpaced /\ LoopIsFree /\ [Next]_vars => LoopIsFree'
<1> SUFFICES ASSUME TableInv, PlannedIsSpaced, LoopIsFree, [Next]_vars PROVE LoopIsFree'
  OBVIOUS
<1>0. /\ BudgetInv /\ charges \in Nat /\ contacts \in Nat /\ steps \in Nat
      /\ retryCount = facts.priorAttempts + charges /\ facts.priorAttempts \in Nat
      /\ FastForward /\ ~RealLinks
  BY TypedFacts DEF TableInv, BudgetInv, TypeOK, WithinBudgets, TableFitsLoop
<1> USE DEF LoopIsFree, StepsCounted, StepsWithin, IsTerminal, TerminalStatuses
<1>1. CASE Detected \/ Analyzing \/ Diagnosed \/ Planned
  BY <1>0, <1>1 DEF Detected, Analyzing, Diagnosed, Planned, Steps, caseRow, effects
<1>2. CASE Allow \/ Escalate \/ Block
  BY <1>0, <1>2 DEF Allow, Escalate, Block, Gate, Steps, caseRow, effects
<1>3. ~Wait
  BY GateNeedsNoWait DEF Wait, Gate, Steps, TableFitsLoop
<1>4. ~BlockAndSwap
  BY DEF BlockAndSwap, TableInv, TableDecides
<1>5. ~PolicyRaises
  <2>1. decision.delay.kind # "text"
    BY DEF TableInv, TableDecides, NoDelay, Minutes
  <2> QED
    BY <2>1 DEF PolicyRaises, EvaluateRaises, PolicyContext
<1>6. CASE ExecuteRetry
  <2>1. charges < 2
    BY <1>0, <1>6 DEF ExecuteRetry, Steps, TableInv, RetryIsFirstOrSecond
  <2>2. decision.strategy # S6
    BY <1>6, RetryIsNoLink DEF ExecuteRetry
  <2>3. status' \in {"RECOVERED", "VERIFYING"}
    BY <1>0, <1>6, SettleType DEF ExecuteRetry, BudgetInv
  <2> QED
    BY <1>0, <1>6, <2>1, <2>2, <2>3 DEF ExecuteRetry, Steps
<1>7. CASE ExecuteSimulatedLink
  <2>1. decision.strategy # S6
    BY <1>7, RetryIsNoLink DEF ExecuteSimulatedLink
  <2>2. status' \in {"RECOVERED", "VERIFYING"}
    BY <1>0, <1>7, SettleType DEF ExecuteSimulatedLink, BudgetInv
  <2> QED
    BY <1>0, <1>7, <2>1, <2>2 DEF ExecuteSimulatedLink, Steps
<1>8. ~ExecuteRealLink /\ ~RealLinkRaises
  BY <1>0 DEF ExecuteRealLink, RealLinkRaises
<1>9. CASE ExecuteEscalation \/ ExecuteStop
  BY <1>0, <1>9 DEF ExecuteEscalation, ExecuteStop, Steps, caseRow, effects
<1>10. CASE LadderCloses
  BY <1>0, <1>10 DEF LadderCloses, CloseUnrecovered, Steps, effects
<1>11. CASE LadderEscalates \/ LadderRepeats
  BY <1>0, <1>11 DEF LadderEscalates, LadderRepeats, LadderEnds, Steps, caseRow, effects
<1>12. CASE AwaitingApproval
  BY <1>0, <1>12 DEF AwaitingApproval, Steps, caseRow
<1>13. CASE EndStep
  <2>1. LoopEnds => IsTerminal(status)
    BY StepsAreLeft, <1>0 DEF LoopEnds
  <2>2. Return
    BY <1>13, <2>1 DEF EndStep, CloseAndReturn, CloseRaises
  <2> QED
    BY <1>0, <2>2 DEF Return, caseRow, effects
<1>14. CASE UNCHANGED vars
  BY <1>0, <1>14 DEF vars, caseRow, effects
<1> QED
  BY <1>1, <1>2, <1>3, <1>4, <1>5, <1>6, <1>7, <1>8, <1>9, <1>10, <1>11, <1>12, <1>13, <1>14
     DEF Next, PrepareStep, PolicyStep, ExecuteStep, VerifyStep, Returned

LEMMA NewLoop == ASSUME NewCase PROVE LoopIsFree
  BY DEF NewCase, LoopIsFree, StepsCounted, StepsWithin

LEMMA FreeLoopEnds ==
  ASSUME TableFitsLoop PROVE TableInv /\ LoopIsFree => LoopEndsByItself
<1> SUFFICES ASSUME TableInv, LoopIsFree PROVE LoopEndsByItself
  OBVIOUS
<1>1. steps \in Nat /\ MaxSteps \in Nat
  BY DEF TableInv, BudgetInv, TypeOK
<1> QED
  BY <1>1, StepsAreLeft DEF LoopIsFree, LoopEndsByItself

\* Without a model and with simulated links, a MAX_STEPS of seventeen, and of
\* seven and five for each contact, is enough for every case: the loop neither
\* raises nor is cut short.  What is left of RunFinishes is that it goes on.
THEOREM LadderFitsLoop == TableFitsLoop => (Spec => []LoopEndsByItself)
<1> SUFFICES ASSUME TableFitsLoop PROVE Spec => []LoopEndsByItself
  OBVIOUS
<1>1. Init => PlannedIsSpaced /\ LoopIsFree
  BY NewLoop DEF Init, NewCase, PlannedIsSpaced
<1>2. Spec => []TableInv
  BY TableInvariant DEF TableFitsLoop
<1>3. TableInv /\ PlannedIsSpaced /\ [Next]_vars => PlannedIsSpaced'
  BY StepKeepsPlannedSpaced DEF TableFitsLoop
<1> QED
  BY <1>1, <1>2, <1>3, StepKeepsLoopFree, FreeLoopEnds, PTL DEF Spec
=============================================================================
