--------------------------- MODULE PipelineProofs ---------------------------
(***************************************************************************)
(* Theorems about Pipeline for every value of the thresholds, every set of *)
(* cases and every set of answers of a model, batch or live: types, the    *)
(* budgets, the gate before every effect, legal moves of the FSM, the      *)
(* queue of the humans, the money, the promise, and the spacing of charges. *)
(***************************************************************************)
EXTENDS Pipeline, FiniteSets, FiniteSetTheorems, WellFoundedInduction, TLAPS

(***************************************************************************)
(* The policy engine, for every value of the thresholds and every context. *)
(***************************************************************************)

\* 2^n, the factor of the cooldown, is a natural number: it is the number of
\* subsets of 1..n.
LEMMA PowerOfTwo == ASSUME NEW n \in Nat PROVE 2^n \in Nat
<1>1. IsFiniteSet(1..n) /\ Cardinality(1..n) = n
  BY FS_Interval
<1>2. IsFiniteSet(SUBSET (1..n)) /\ Cardinality(SUBSET (1..n)) = 2^n
  BY <1>1, FS_SUBSET
<1> QED
  BY <1>2, FS_CardinalityType

\* A non-empty set of natural numbers has a least one.
LEMMA HasLeast ==
  ASSUME NEW F \in SUBSET Nat, F # {}
  PROVE  \E i \in F : \A j \in F : i <= j
<1>1. \E i \in F : \A j \in F : ~(<<j, i>> \in OpToRel(<, Nat))
  BY NatLessThanWellFounded, WFMin, Zenon
<1>2. \A i, j \in Nat : <<j, i>> \in OpToRel(<, Nat) <=> j < i
  BY DEF OpToRel
<1>3. \E i \in F : \A j \in F : ~(j < i)
  BY <1>1, <1>2, Zenon
<1> QED
  BY <1>3, SMT

LEMMA FirstFailing ==
  ASSUME NEW F \in SUBSET Nat, F # {}
  PROVE  (CHOOSE i \in F : \A j \in F : i <= j) \in F
<1>1. \E i \in F : \A j \in F : i <= j
  BY HasLeast
<1> QED
  BY <1>1

\* evaluate names no rule but one of the order that fails; when it names none,
\* every rule passes.
LEMMA TriggeredRuleFails ==
  ASSUME NEW ctx
  PROVE  \/ /\ TriggeredRule(ctx) = "none"
            /\ \A i \in DOMAIN RULE_ORDER : Passes(ctx)[RULE_ORDER[i]]
         \/ \E i \in DOMAIN RULE_ORDER :
              /\ TriggeredRule(ctx) = RULE_ORDER[i]
              /\ ~Passes(ctx)[RULE_ORDER[i]]
<1> DEFINE failing == {i \in DOMAIN RULE_ORDER : ~Passes(ctx)[RULE_ORDER[i]]}
<1>1. CASE failing = {}
  BY <1>1 DEF TriggeredRule
<1>2. CASE failing # {}
  <2>1. failing \in SUBSET Nat
    BY DEF RULE_ORDER
  <2>2. (CHOOSE i \in failing : \A j \in failing : i <= j) \in failing
    BY <1>2, <2>1, FirstFailing
  <2> QED
    BY <1>2, <2>2 DEF TriggeredRule
<1> QED
  BY <1>1, <1>2

\* An ALLOW means that the rules with a budget, the cooldown and the age rule
\* hold.
LEMMA AllowMeansRulesHold ==
  ASSUME NEW ctx, Verdict(ctx) = "ALLOW"
  PROVE  P03(ctx) /\ P04(ctx) /\ P08(ctx) /\ P11(ctx) /\ P12(ctx)
<1>1. TriggeredRule(ctx) = "none"
  BY DEF Verdict, ESCALATE_RULES, WAIT_RULES
<1>2. \A i \in DOMAIN RULE_ORDER : RULE_ORDER[i] # "none"
  BY DEF RULE_ORDER
<1>3. \A i \in DOMAIN RULE_ORDER : Passes(ctx)[RULE_ORDER[i]]
  BY <1>1, <1>2, TriggeredRuleFails
<1>4. /\ Passes(ctx)[RULE_ORDER[3]] /\ Passes(ctx)[RULE_ORDER[4]]
      /\ Passes(ctx)[RULE_ORDER[8]]
      /\ Passes(ctx)[RULE_ORDER[11]] /\ Passes(ctx)[RULE_ORDER[12]]
  BY <1>3 DEF RULE_ORDER
<1> QED
  BY <1>4 DEF RULE_ORDER, Passes

-----------------------------------------------------------------------------
USE PolicyConfigAssumption, PipelineAssumption

-----------------------------------------------------------------------------
\* diagnose answers with a class of the enum and a confidence in [0, 1].
LEMMA EvidenceType ==
  ASSUME NEW reason, NEW code
  PROVE  Diagnose(reason, code) \in [class : Diagnoses, confidence : 0..100]
<1>1. ASSUME Named(ReasonsOf, reason)
      PROVE  ClassOf(ReasonsOf, reason) \in Diagnoses
  <2>1. ClassOf(ReasonsOf, reason) \in DOMAIN ReasonsOf
    BY <1>1 DEF Named, ClassOf
  <2> QED
    BY <2>1 DEF ReasonsOf, Diagnoses
<1>2. ASSUME Named(CodesOf, code)
      PROVE  ClassOf(CodesOf, code) \in Diagnoses
  <2>1. ClassOf(CodesOf, code) \in DOMAIN CodesOf
    BY <1>2 DEF Named, ClassOf
  <2> QED
    BY <2>1 DEF CodesOf, Diagnoses
<1> QED
  BY <1>1, <1>2 DEF Diagnose, Diagnoses

\* The decision table only chooses from the catalog.
LEMMA StrategyType ==
  ASSUME NEW q
  PROVE  /\ SelectStrategy(q).strategy \in ALL_STRATEGIES
         /\ SelectStrategy(q).delay \in Delay
  BY DEF SelectStrategy, MatrixChoice, Choice, DelayedRetry, NoDelay, Minutes,
         Delay, ALL_STRATEGIES, S1, S2, S3, S4, S5, S6, DELAYED_RETRY_MINUTES

\* The columns of the payment and the customer have the types of CaseFacts.
LEMMA FactsType ==
  ASSUME facts \in PossibleFacts
  PROVE  /\ facts.amount \in Nat /\ facts.age \in Nat
         /\ facts.otherCharges \in Nat
         /\ facts.priorAttempts \in 0..MaxRetries
         /\ facts.evidence \in [class : Diagnoses, confidence : 0..100]
<1>1. facts \in CaseFacts /\ facts.priorAttempts <= MaxRetries
  BY DEF PossibleFacts
<1>2. facts.evidence \in [class : Diagnoses, confidence : 0..100]
  BY <1>1, EvidenceType DEF CaseFacts, Evidence
<1> QED
  BY <1>1, <1>2 DEF CaseFacts

\* Whatever the model answers, what decide_and_persist stores is well formed.
LEMMA DecisionType ==
  ASSUME facts \in PossibleFacts, decision.id \in Nat
  PROVE  PossibleDecisions \subseteq DecisionRow
<1>1. FallbackDecision(decision.id + 1, Question) \in DecisionRow
  BY FactsType, StrategyType DEF FallbackDecision, Question, DecisionRow
<1>2. ASSUME NEW raw \in LLMOutputs, ValidLLMOutput(raw)
      PROVE  LLMDecision(decision.id + 1, raw) \in DecisionRow
  BY <1>2 DEF LLMDecision, ValidLLMOutput, DecisionRow
<1> QED
  BY <1>1, <1>2 DEF PossibleDecisions

\* Every verdict recorded is one of the four, with a rule of the order or none.
LEMMA GateType ==
  ASSUME NEW verdict \in {"ALLOW", "BLOCK", "ESCALATE", "WAIT"},
         decision.id \in Nat, Gate(verdict)
  PROVE  gate' \in GateRow /\ gate'.verdict = verdict /\ gate'.decision = decision.id
<1>1. TriggeredRule(PolicyContext) \in {"none"} \cup {RULE_ORDER[i] : i \in DOMAIN RULE_ORDER}
  BY TriggeredRuleFails
<1> QED
  BY <1>1 DEF Gate, GateRow

-----------------------------------------------------------------------------
\* A new case has its types and all of its room.
LEMMA NewBudget == facts \in PossibleFacts /\ NewCase => BudgetInv
<1> SUFFICES ASSUME facts \in PossibleFacts, NewCase PROVE BudgetInv
  OBVIOUS
<1>1. TypeOK
  BY FactsType DEF NewCase, TypeOK, CaseStatuses, ActiveStatuses, NoAttempt
<1>2. WithinBudgets /\ Decided /\ ApprovedHasRoom
  BY FactsType DEF NewCase, WithinBudgets, Decided, ApprovedHasRoom
<1> QED
  BY <1>1, <1>2 DEF BudgetInv

LEMMA InitBudget == Init => BudgetInv
  BY NewBudget DEF Init

\* The facts never change, and decisions have a number.
LEMMA TypedFacts ==
  ASSUME TypeOK
  PROVE  /\ facts \in PossibleFacts /\ decision.id \in Nat
         /\ facts.amount \in Nat /\ facts.age \in Nat /\ facts.otherCharges \in Nat
         /\ facts.priorAttempts \in 0..MaxRetries
  BY FactsType DEF TypeOK, DecisionRow, NoDecision

-----------------------------------------------------------------------------
\* The steps that prepare a decision keep types and budgets.
LEMMA PrepareKeepsBudget == BudgetInv /\ PrepareStep => BudgetInv'
<1> SUFFICES ASSUME BudgetInv, PrepareStep PROVE BudgetInv'
  OBVIOUS
<1> USE TypedFacts DEF BudgetInv
<1>1. CASE Detected
  <2>1. TypeOK'
    BY <1>1 DEF Detected, Steps, TypeOK, caseRow, effects, CaseStatuses, ActiveStatuses
  <2>2. WithinBudgets' /\ Decided' /\ ApprovedHasRoom'
    BY <1>1 DEF Detected, Steps, WithinBudgets, Decided, ApprovedHasRoom, caseRow, effects
  <2> QED
    BY <2>1, <2>2
<1>2. CASE Analyzing
  <2>1. decision' \in DecisionRow /\ diagnosis' \in Diagnoses
    BY <1>2, DecisionType DEF Analyzing, Decide, DecisionRow
  <2>2. TypeOK'
    BY <1>2, <2>1 DEF Analyzing, Steps, TypeOK, effects, CaseStatuses, ActiveStatuses
  <2>3. WithinBudgets' /\ Decided' /\ ApprovedHasRoom'
    BY <1>2, <2>1 DEF Analyzing, Steps, WithinBudgets, Decided, ApprovedHasRoom, effects
  <2> QED
    BY <2>2, <2>3
<1>3. CASE Diagnosed
  <2>1. decision' \in DecisionRow /\ diagnosis' \in Diagnoses
    <3>1. CASE retryCount > 0
      BY <1>3, <3>1, DecisionType DEF Diagnosed, Decide, DecisionRow
    <3>2. CASE ~(retryCount > 0)
      BY <1>3, <3>2 DEF Diagnosed, Steps, Decided
    <3> QED
      BY <3>1, <3>2
  <2>2. TypeOK'
    BY <1>3, <2>1 DEF Diagnosed, Steps, TypeOK, effects, CaseStatuses, ActiveStatuses
  <2>3. WithinBudgets' /\ Decided' /\ ApprovedHasRoom'
    BY <1>3, <2>1 DEF Diagnosed, Steps, WithinBudgets, Decided, ApprovedHasRoom, effects
  <2> QED
    BY <2>2, <2>3
<1>4. CASE Planned
  <2>1. TypeOK'
    BY <1>4 DEF Planned, Steps, TypeOK, caseRow, effects, CaseStatuses, ActiveStatuses
  <2>2. WithinBudgets' /\ Decided' /\ ApprovedHasRoom'
    BY <1>4 DEF Planned, Steps, WithinBudgets, Decided, ApprovedHasRoom, caseRow, effects
  <2> QED
    BY <2>1, <2>2
<1> QED
  BY <1>1, <1>2, <1>3, <1>4 DEF PrepareStep

-----------------------------------------------------------------------------
\* What an ALLOW leaves room for, in the columns of the case.
LEMMA AllowLeavesRoom ==
  ASSUME TypeOK, decision \in DecisionRow, Verdict(PolicyContext) = "ALLOW"
  PROVE  /\ age < TtlHours * 60
         /\ decision.strategy \in RetryStrategies =>
              /\ retryCount < MaxRetries
              /\ facts.otherCharges + charges < SimulationBudget
         /\ decision.strategy \in LinkStrategies => contacts < ContactCap
<1> DEFINE ctx == PolicyContext
<1>1. P03(ctx) /\ P08(ctx) /\ P11(ctx) /\ P12(ctx)
  BY AllowMeansRulesHold
<1>2. /\ ctx.age = age /\ ctx.retries = retryCount /\ ctx.contacts = contacts
      /\ ctx.budgetRemaining = SimulationBudget - (facts.otherCharges + charges)
      /\ ctx.action = ActionOf(decision.strategy)
  BY DEF PolicyContext
<1> HIDE DEF ctx
<1>3. age < TtlHours * 60
  BY <1>1, <1>2 DEF P11
<1>4. ASSUME decision.strategy \in RetryStrategies
      PROVE  retryCount < MaxRetries /\ facts.otherCharges + charges < SimulationBudget
  <2>1. ctx.action \in RETRY_ACTIONS
    BY <1>2, <1>4 DEF ActionOf, RETRY_ACTIONS
  <2>2. retryCount < MaxRetries /\ SimulationBudget - (facts.otherCharges + charges) > 0
    BY <1>1, <1>2, <2>1 DEF P03, P12
  <2> QED
    BY <2>2, TypedFacts DEF TypeOK
<1>5. ASSUME decision.strategy \in LinkStrategies
      PROVE  contacts < ContactCap
  <2>1. ctx.action \in CONTACT_ACTIONS
    BY <1>2, <1>5 DEF ActionOf, CONTACT_ACTIONS, RetryStrategies, LinkStrategies,
                      S1, S2, S3, S4
  <2> QED
    BY <1>1, <1>2, <2>1 DEF P08
<1> QED
  BY <1>3, <1>4, <1>5

\* Every branch of the policy gate keeps types and budgets; Allow establishes
\* the room that the executor uses up.
LEMMA PolicyKeepsBudget == BudgetInv /\ PolicyStep => BudgetInv'
<1> SUFFICES ASSUME BudgetInv, PolicyStep PROVE BudgetInv'
  OBVIOUS
<1> USE TypedFacts DEF BudgetInv
<1>1. CASE Allow
  <2>1. gate' \in GateRow /\ gate'.verdict = "ALLOW" /\ gate'.decision = decision.id
    BY <1>1, GateType DEF Allow
  <2>2. decision \in DecisionRow /\ diagnosis \in Diagnoses
    BY <1>1 DEF Allow, Gate, Steps, Decided
  <2>3. Verdict(PolicyContext) = "ALLOW"
    BY <1>1 DEF Allow, Gate
  <2>4. TypeOK'
    BY <1>1, <2>1 DEF Allow, Gate, Steps, TypeOK, caseRow, effects, CaseStatuses, ActiveStatuses
  <2>5. WithinBudgets' /\ Decided'
    BY <1>1, <2>2 DEF Allow, Gate, Steps, WithinBudgets, Decided, caseRow, effects
  <2>6. ApprovedHasRoom'
    BY <1>1, <2>1, <2>2, <2>3, AllowLeavesRoom
       DEF Allow, Gate, Steps, ApprovedHasRoom, caseRow, effects
  <2> QED
    BY <2>4, <2>5, <2>6
<1>2. CASE Escalate
  <2>1. gate' \in GateRow
    BY <1>2, GateType DEF Escalate
  <2>2. EnsureEscalation(escalation) \in [open : Nat, expired : Nat]
    BY DEF TypeOK, EnsureEscalation
  <2>3. TypeOK'
    BY <1>2, <2>1, <2>2 DEF Escalate, Gate, Steps, TypeOK, caseRow, CaseStatuses, ActiveStatuses
  <2>4. WithinBudgets' /\ Decided' /\ ApprovedHasRoom'
    BY <1>2 DEF Escalate, Gate, Steps, WithinBudgets, Decided, ApprovedHasRoom, caseRow
  <2> QED
    BY <2>3, <2>4
<1>3. CASE Wait
  <2>1. gate' \in GateRow
    BY <1>3, GateType DEF Wait
  <2>2. age + CooldownBase * 2^retryCount \in Nat
    BY PowerOfTwo DEF TypeOK
  <2>3. /\ age' \in Nat /\ pc' \in {"stepping", "parked", "done", "raised"}
        /\ status = "POLICY_CHECK" /\ status' \in {"PLANNED", "POLICY_CHECK"}
    BY <1>3, <2>2 DEF Wait, Gate, Steps, TypeOK
  <2>4. TypeOK'
    BY <1>3, <2>1, <2>3 DEF Wait, Gate, Steps, TypeOK, caseRow, effects, CaseStatuses, ActiveStatuses
  <2>5. WithinBudgets' /\ Decided' /\ ApprovedHasRoom'
    BY <1>3, <2>3 DEF Wait, Gate, Steps, WithinBudgets, Decided, ApprovedHasRoom, caseRow, effects
  <2> QED
    BY <2>4, <2>5
<1>4. CASE BlockAndSwap
  <2>1. gate' \in GateRow
    BY <1>4, GateType DEF BlockAndSwap
  <2>2. decision' \in DecisionRow /\ diagnosis' \in Diagnoses
    BY <1>4, DecisionType DEF BlockAndSwap, Decide, DecisionRow
  <2>3. status' = "PLANNED"
    BY <1>4 DEF BlockAndSwap, StatusAfterSwap
  <2>4. TypeOK'
    BY <1>4, <2>1, <2>2, <2>3
       DEF BlockAndSwap, Gate, Steps, TypeOK, effects, CaseStatuses, ActiveStatuses
  <2>5. WithinBudgets' /\ Decided' /\ ApprovedHasRoom'
    BY <1>4, <2>2, <2>3
       DEF BlockAndSwap, Gate, Steps, WithinBudgets, Decided, ApprovedHasRoom, effects
  <2> QED
    BY <2>4, <2>5
<1>5. CASE Block
  <2>1. gate' \in GateRow
    BY <1>5, GateType DEF Block
  <2>2. TypeOK'
    BY <1>5, <2>1 DEF Block, Gate, Steps, TypeOK, caseRow, effects, CaseStatuses, TerminalStatuses
  <2>3. WithinBudgets' /\ Decided' /\ ApprovedHasRoom'
    BY <1>5 DEF Block, Gate, Steps, WithinBudgets, Decided, ApprovedHasRoom, caseRow, effects
  <2> QED
    BY <2>2, <2>3
<1>6. CASE PolicyRaises
  <2>1. TypeOK'
    BY <1>6 DEF PolicyRaises, Steps, TypeOK, caseRow, effects
  <2>2. WithinBudgets' /\ Decided' /\ ApprovedHasRoom'
    BY <1>6 DEF PolicyRaises, Steps, WithinBudgets, Decided, ApprovedHasRoom, caseRow, effects
  <2> QED
    BY <2>1, <2>2
<1> QED
  BY <1>1, <1>2, <1>3, <1>4, <1>5, <1>6 DEF PolicyStep

-----------------------------------------------------------------------------
\* What an attempt writes besides its row and its counter.
LEMMA SettleType ==
  ASSUME TypeOK, roll' \in PossibleRolls, SettleAttempt
  PROVE  /\ roll' \in {"unrolled", "pays", "declines"}
         /\ payment' \in {"failed", "captured"} /\ recovered' \in Nat
         /\ outcome' \in {"none", "RECOVERED", "UNRECOVERED"}
         /\ lastAttempt' \in Nat \cup {NoAttempt}
         /\ status' \in {"RECOVERED", "VERIFYING"}
<1>1. roll' \in {"unrolled", "pays", "declines"}
  BY DEF TypeOK, PossibleRolls
<1>2. CASE roll' = "pays"
  BY <1>1, <1>2, TypedFacts DEF SettleAttempt, RecordCapture, PaymentAfterCapture, TypeOK
<1>3. CASE roll' # "pays"
  BY <1>1, <1>3 DEF SettleAttempt, TypeOK
<1> QED
  BY <1>2, <1>3

\* No execution leaves the room that the gate saw.
LEMMA ExecuteKeepsBudget == BudgetInv /\ ExecuteStep => BudgetInv'
<1> SUFFICES ASSUME BudgetInv, ExecuteStep PROVE BudgetInv'
  OBVIOUS
<1> USE TypedFacts DEF BudgetInv
<1>1. status = "APPROVED" /\ decision \in DecisionRow /\ diagnosis \in Diagnoses
  BY DEF ExecuteStep, ExecuteRetry, ExecuteSimulatedLink, ExecuteRealLink,
         RealLinkRaises, ExecuteEscalation, ExecuteStop, Steps, Decided
<1>2. CASE ExecuteRetry
  <2>1. status' \in {"RECOVERED", "VERIFYING"}
    BY <1>2, SettleType DEF ExecuteRetry
  <2>2. TypeOK'
    BY <1>2, SettleType DEF ExecuteRetry, NextRetryCount, Steps, TypeOK, CaseStatuses,
       ActiveStatuses, TerminalStatuses
  <2>3. retryCount < MaxRetries /\ facts.otherCharges + charges < SimulationBudget
    BY <1>1, <1>2 DEF ExecuteRetry, ApprovedHasRoom
  <2>4. WithinBudgets'
    BY <1>2, <2>3 DEF ExecuteRetry, NextRetryCount, Steps, WithinBudgets, TypeOK
  <2>5. Decided' /\ ApprovedHasRoom'
    BY <1>1, <1>2, <2>1 DEF ExecuteRetry, Decided, ApprovedHasRoom
  <2> QED
    BY <2>2, <2>4, <2>5
<1>3. CASE ExecuteSimulatedLink
  <2>1. status' \in {"RECOVERED", "VERIFYING"}
    BY <1>3, SettleType DEF ExecuteSimulatedLink
  <2>2. TypeOK'
    BY <1>3, SettleType DEF ExecuteSimulatedLink, Steps, TypeOK, CaseStatuses,
       ActiveStatuses, TerminalStatuses
  <2>3. contacts < ContactCap
    BY <1>1, <1>3 DEF ExecuteSimulatedLink, ApprovedHasRoom
  <2>4. WithinBudgets'
    BY <1>3, <2>3 DEF ExecuteSimulatedLink, Steps, WithinBudgets, TypeOK
  <2>5. Decided' /\ ApprovedHasRoom'
    BY <1>1, <1>3, <2>1 DEF ExecuteSimulatedLink, Decided, ApprovedHasRoom
  <2> QED
    BY <2>2, <2>4, <2>5
<1>4. CASE ExecuteRealLink
  <2>1. status' \in {"VERIFYING", "FAILED"} /\ lastAttempt' \in Nat \cup {NoAttempt}
    BY <1>4 DEF ExecuteRealLink, TypeOK
  <2>2. TypeOK'
    BY <1>4, <2>1 DEF ExecuteRealLink, Steps, TypeOK, CaseStatuses, ActiveStatuses,
       TerminalStatuses
  <2>3. contacts < ContactCap
    BY <1>1, <1>4 DEF ExecuteRealLink, ApprovedHasRoom
  <2>4. WithinBudgets'
    BY <1>4, <2>3 DEF ExecuteRealLink, Steps, WithinBudgets, TypeOK
  <2>5. Decided' /\ ApprovedHasRoom'
    BY <1>1, <1>4, <2>1 DEF ExecuteRealLink, Decided, ApprovedHasRoom
  <2> QED
    BY <2>2, <2>4, <2>5
<1>5. CASE RealLinkRaises
  <2>1. TypeOK'
    BY <1>5 DEF RealLinkRaises, Steps, TypeOK, caseRow, effects
  <2>2. WithinBudgets' /\ Decided' /\ ApprovedHasRoom'
    BY <1>5 DEF RealLinkRaises, Steps, WithinBudgets, Decided, ApprovedHasRoom, caseRow, effects
  <2> QED
    BY <2>1, <2>2
<1>6. CASE ExecuteEscalation
  <2>1. TypeOK'
    BY <1>6 DEF ExecuteEscalation, Steps, TypeOK, caseRow, CaseStatuses, ActiveStatuses
  <2>2. WithinBudgets' /\ Decided' /\ ApprovedHasRoom'
    BY <1>1, <1>6
       DEF ExecuteEscalation, Steps, WithinBudgets, Decided, ApprovedHasRoom, caseRow
  <2> QED
    BY <2>1, <2>2
<1>7. CASE ExecuteStop
  <2>1. TypeOK'
    BY <1>7 DEF ExecuteStop, Steps, TypeOK, caseRow, effects, CaseStatuses, ActiveStatuses
  <2>2. WithinBudgets' /\ Decided' /\ ApprovedHasRoom'
    BY <1>1, <1>7
       DEF ExecuteStop, Steps, WithinBudgets, Decided, ApprovedHasRoom, caseRow, effects
  <2> QED
    BY <2>1, <2>2
<1> QED
  BY <1>2, <1>3, <1>4, <1>5, <1>6, <1>7 DEF ExecuteStep

-----------------------------------------------------------------------------
\* The verifier charges nobody and contacts nobody.
LEMMA VerifyKeepsBudget == BudgetInv /\ VerifyStep => BudgetInv'
<1> SUFFICES ASSUME BudgetInv, VerifyStep PROVE BudgetInv'
  OBVIOUS
<1> USE TypedFacts DEF BudgetInv
<1>1. CASE LadderCloses
  <2>1. TypeOK'
    BY <1>1 DEF LadderCloses, CloseUnrecovered, Steps, TypeOK, effects, CaseStatuses,
       TerminalStatuses
  <2>2. WithinBudgets' /\ Decided' /\ ApprovedHasRoom'
    BY <1>1 DEF LadderCloses, CloseUnrecovered, Steps, WithinBudgets, Decided,
       ApprovedHasRoom, effects
  <2> QED
    BY <2>1, <2>2
<1>2. CASE LadderEscalates
  <2>1. decision \in DecisionRow /\ diagnosis \in Diagnoses
    BY <1>2 DEF LadderEscalates, Steps, Decided
  <2>2. decision' \in DecisionRow
    BY <1>2, <2>1 DEF LadderEscalates, DecisionRow, ALL_STRATEGIES, NoDelay, Delay
  <2>3. TypeOK'
    BY <1>2, <2>2 DEF LadderEscalates, Steps, TypeOK, caseRow, effects, CaseStatuses,
       ActiveStatuses
  <2>4. WithinBudgets' /\ Decided' /\ ApprovedHasRoom'
    BY <1>2, <2>1, <2>2 DEF LadderEscalates, Steps, WithinBudgets, Decided,
       ApprovedHasRoom, caseRow, effects
  <2> QED
    BY <2>3, <2>4
<1>3. CASE LadderRepeats
  <2>1. CooldownMinutes(retryCount) \in Nat
    BY DEF CooldownMinutes
  <2>2. /\ age' \in Nat /\ pc' \in {"stepping", "parked", "done", "raised"}
        /\ status = "VERIFYING" /\ status' \in {"DIAGNOSED", "VERIFYING"}
    BY <1>3, <2>1 DEF LadderRepeats, Steps, TypeOK
  <2>3. TypeOK'
    BY <1>3, <2>2 DEF LadderRepeats, Steps, TypeOK, caseRow, effects, CaseStatuses,
       ActiveStatuses
  <2>4. WithinBudgets' /\ Decided' /\ ApprovedHasRoom'
    BY <1>3, <2>2 DEF LadderRepeats, Steps, WithinBudgets, Decided, ApprovedHasRoom,
       caseRow, effects
  <2> QED
    BY <2>3, <2>4
<1>4. CASE AwaitingApproval
  <2>1. /\ age' \in Nat /\ pc' \in {"stepping", "parked", "done", "raised"}
        /\ status = "AWAITING_APPROVAL" /\ status' \in {"AWAITING_APPROVAL", "ESCALATED"}
        /\ escalation' \in [open : Nat, expired : Nat]
    BY <1>4 DEF AwaitingApproval, ExpireOpen, Steps, TypeOK
  <2>2. TypeOK'
    BY <1>4, <2>1 DEF AwaitingApproval, Steps, TypeOK, caseRow, CaseStatuses,
       ActiveStatuses, TerminalStatuses
  <2>3. WithinBudgets' /\ Decided' /\ ApprovedHasRoom'
    BY <1>4, <2>1 DEF AwaitingApproval, Steps, WithinBudgets, Decided, ApprovedHasRoom,
       caseRow
  <2> QED
    BY <2>2, <2>3
<1> QED
  BY <1>1, <1>2, <1>3, <1>4 DEF VerifyStep

\* Returning, closing or raising moves no counter.
LEMMA EndKeepsBudget == BudgetInv /\ EndStep => BudgetInv'
<1> SUFFICES ASSUME BudgetInv, EndStep PROVE BudgetInv'
  OBVIOUS
<1> USE DEF BudgetInv
<1>1. CASE Return \/ CloseRaises
  <2>1. TypeOK'
    BY <1>1 DEF Return, CloseRaises, TypeOK, caseRow, effects
  <2>2. WithinBudgets' /\ Decided' /\ ApprovedHasRoom'
    BY <1>1 DEF Return, CloseRaises, WithinBudgets, Decided, ApprovedHasRoom, caseRow, effects
  <2> QED
    BY <2>1, <2>2
<1>2. CASE CloseAndReturn
  <2>1. status \notin {"DETECTED", "ANALYZING"}
    BY <1>2 DEF CloseAndReturn, CanTransition, TRANSITIONS, PolicyMoves, ExecutorMoves,
                VerifierMoves, TypeOK
  <2>2. TypeOK'
    BY <1>2 DEF CloseAndReturn, CloseUnrecovered, TypeOK, effects, CaseStatuses, TerminalStatuses
  <2>3. WithinBudgets' /\ Decided' /\ ApprovedHasRoom'
    BY <1>2, <2>1 DEF CloseAndReturn, CloseUnrecovered, WithinBudgets, Decided,
       ApprovedHasRoom, effects
  <2> QED
    BY <2>2, <2>3
<1> QED
  BY <1>1, <1>2 DEF EndStep

-----------------------------------------------------------------------------
\* BudgetInv is inductive.
LEMMA StepKeepsBudget == BudgetInv /\ [Next]_vars => BudgetInv'
<1> SUFFICES ASSUME BudgetInv, [Next]_vars PROVE BudgetInv'
  OBVIOUS
<1>1. CASE UNCHANGED vars
  BY <1>1 DEF BudgetInv, TypeOK, WithinBudgets, Decided, ApprovedHasRoom, vars, caseRow, effects
<1>2. CASE PrepareStep \/ PolicyStep
  BY <1>2, PrepareKeepsBudget, PolicyKeepsBudget
<1>3. CASE ExecuteStep \/ VerifyStep \/ EndStep
  BY <1>3, ExecuteKeepsBudget, VerifyKeepsBudget, EndKeepsBudget
<1> QED
  BY <1>1, <1>2, <1>3 DEF Next, Returned

LEMMA BudgetInvariant == Spec => []BudgetInv
  BY InitBudget, StepKeepsBudget, PTL DEF Spec

\* Whatever a model answers, the rows hold members of the closed enums, and a
\* case never rests in EXECUTING (enums.py, fsm.py, decide.py).
THEOREM TypeCorrect == Spec => []TypeOK
  BY BudgetInvariant, PTL DEF BudgetInv

\* The charges, contacts and the run's charges that are written never exceed
\* the budgets of P03, P08 and P12.
THEOREM BudgetsHold == Spec => []WithinBudgets
  BY BudgetInvariant, PTL DEF BudgetInv

\* No charge and no contact happens without the gate's ALLOW for the decision
\* that is executed, given while the case was young enough (P11).
THEOREM GateBeforeEffects == Spec => EffectsAreGated
<1> DEFINE Moved == charges' # charges \/ contacts' # contacts
<1>1. ASSUME Next, Moved PROVE status = "APPROVED"
  <2>1. CASE PrepareStep
    BY <1>1, <2>1 DEF PrepareStep, Detected, Analyzing, Diagnosed, Planned, effects
  <2>2. CASE PolicyStep
    BY <1>1, <2>2 DEF PolicyStep, Allow, Escalate, Wait, BlockAndSwap, Block, PolicyRaises, effects
  <2>3. CASE ExecuteStep
    BY <2>3 DEF ExecuteStep, ExecuteRetry, ExecuteSimulatedLink, ExecuteRealLink,
                RealLinkRaises, ExecuteEscalation, ExecuteStop, Steps
  <2>4. CASE VerifyStep
    BY <1>1, <2>4 DEF VerifyStep, LadderCloses, LadderEscalates, LadderRepeats,
                      AwaitingApproval, effects
  <2>5. CASE EndStep
    BY <1>1, <2>5 DEF EndStep, Return, CloseAndReturn, CloseRaises, effects
  <2>6. CASE Returned
    BY <1>1, <2>6 DEF Returned, vars, effects
  <2> QED
    BY <1>1, <2>1, <2>2, <2>3, <2>4, <2>5, <2>6 DEF Next
<1>2. BudgetInv /\ [Next]_vars
        => [Moved => /\ gate.verdict = "ALLOW"
                     /\ gate.decision = decision.id
                     /\ age < TtlHours * 60]_vars
  BY <1>1 DEF BudgetInv, ApprovedHasRoom
<1> QED
  BY BudgetInvariant, <1>2, PTL DEF Spec, EffectsAreGated

-----------------------------------------------------------------------------
\* No call of case_service.transition in _step or in the epilogue of
\* advance_case is refused by the table.
THEOREM StepsAreLegal == Spec => StepsFollowFSM
<1> DEFINE Legal == IF status = "APPROVED" /\ status' # status
                    THEN CanTransition(status, "EXECUTING") /\ CanTransition("EXECUTING", status')
                    ELSE CanTransition(status, status')
<1> USE DEF CanTransition, TRANSITIONS, PolicyMoves, ExecutorMoves, VerifierMoves, ActiveStatuses
<1>1. ASSUME PrepareStep PROVE Legal
  BY <1>1 DEF PrepareStep, Detected, Analyzing, Diagnosed, Planned, Steps
<1>2. ASSUME PolicyStep PROVE Legal
  BY <1>2 DEF PolicyStep, Allow, Escalate, Wait, BlockAndSwap, StatusAfterSwap, Block,
              PolicyRaises, Gate, Steps
<1>3. ASSUME BudgetInv, ExecuteStep PROVE Legal
  <2>1. CASE ExecuteRetry \/ ExecuteSimulatedLink
    BY <1>3, <2>1, SettleType DEF BudgetInv, ExecuteRetry, ExecuteSimulatedLink, Steps
  <2>2. CASE ExecuteRealLink \/ RealLinkRaises \/ ExecuteEscalation \/ ExecuteStop
    BY <2>2 DEF ExecuteRealLink, RealLinkRaises, ExecuteEscalation, ExecuteStop, Steps
  <2> QED
    BY <1>3, <2>1, <2>2 DEF ExecuteStep
<1>4. ASSUME VerifyStep PROVE Legal
  BY <1>4 DEF VerifyStep, LadderCloses, CloseUnrecovered, LadderEscalates, LadderRepeats,
              AwaitingApproval, Steps
<1>5. ASSUME EndStep PROVE Legal
  BY <1>5 DEF EndStep, Return, CloseAndReturn, CloseUnrecovered, CloseRaises
<1>6. ASSUME Returned PROVE Legal
  BY <1>6 DEF Returned, vars
<1>7. BudgetInv /\ [Next]_vars => [Legal]_vars
  <2> SUFFICES ASSUME BudgetInv, Next PROVE Legal
    OBVIOUS
  <2> HIDE DEF Legal
  <2> QED
    BY <1>1, <1>2, <1>3, <1>4, <1>5, <1>6 DEF Next
<1> QED
  BY BudgetInvariant, <1>7, PTL DEF Spec, StepsFollowFSM

-----------------------------------------------------------------------------
\* The escalation queue is inductive on its own, given the types.
LEMMA StepKeepsQueue ==
  BudgetInv /\ QueueMatchesCase /\ [Next]_vars => QueueMatchesCase'
<1> SUFFICES ASSUME BudgetInv, QueueMatchesCase, [Next]_vars PROVE QueueMatchesCase'
  OBVIOUS
<1> USE DEF QueueMatchesCase
<1>1. escalation \in [open : Nat, expired : Nat]
  BY DEF BudgetInv, TypeOK
<1>2. CASE UNCHANGED vars
  BY <1>2 DEF vars, effects
<1>3. CASE PrepareStep
  BY <1>3 DEF PrepareStep, Detected, Analyzing, Diagnosed, Planned, Steps, effects
<1>4. CASE Escalate
  BY <1>1, <1>4 DEF Escalate, EnsureEscalation, Gate, Steps
<1>5. CASE Allow \/ Wait \/ BlockAndSwap \/ Block \/ PolicyRaises
  BY <1>5 DEF Allow, Wait, BlockAndSwap, StatusAfterSwap, Block, PolicyRaises, Gate, Steps, effects
<1>6. CASE ExecuteRetry \/ ExecuteSimulatedLink
  <2>1. status = "APPROVED" /\ status' \in {"RECOVERED", "VERIFYING"} /\ UNCHANGED escalation
    BY <1>6, SettleType DEF BudgetInv, ExecuteRetry, ExecuteSimulatedLink, Steps
  <2> QED
    BY <2>1
<1>7. CASE ExecuteRealLink \/ RealLinkRaises \/ ExecuteStop
  BY <1>7 DEF ExecuteRealLink, RealLinkRaises, ExecuteStop, Steps, effects
<1>8. CASE ExecuteEscalation
  BY <1>1, <1>8 DEF ExecuteEscalation, Steps
<1>9. CASE LadderCloses \/ LadderEscalates \/ LadderRepeats
  BY <1>9 DEF LadderCloses, CloseUnrecovered, LadderEscalates, LadderRepeats, Steps, effects
<1>10. CASE AwaitingApproval
  BY <1>1, <1>10 DEF AwaitingApproval, ExpireOpen, Steps
<1>11. CASE EndStep
  BY <1>11 DEF EndStep, Return, CloseAndReturn, CloseUnrecovered, CloseRaises, effects,
               CanTransition, TRANSITIONS, PolicyMoves, ExecutorMoves, VerifierMoves,
               IsTerminal, TerminalStatuses
<1> QED
  BY <1>2, <1>3, <1>4, <1>5, <1>6, <1>7, <1>8, <1>9, <1>10, <1>11
     DEF Next, PolicyStep, ExecuteStep, VerifyStep, Returned

\* One escalation is open exactly while the case waits for a human, and none is
\* left open behind it.
THEOREM QueueIsExact == Spec => []QueueMatchesCase
<1>1. Init => QueueMatchesCase
  BY DEF Init, NewCase, QueueMatchesCase
<1> QED
  BY <1>1, BudgetInvariant, StepKeepsQueue, PTL DEF Spec

-----------------------------------------------------------------------------
\* The latent roll remembers the first simulated attempt: a payment whose roll
\* says "pays" is captured, one that was never attempted has no roll.
RollRemembers ==
  /\ roll = "pays" => payment = "captured"
  /\ roll = "unrolled" <=> charges + contacts = 0

MoneyInv == MoneyIsCaptured /\ RollRemembers

\* The gateway's answer books the money at the first attempt or never.
LEMMA AttemptKeepsMoney ==
  ASSUME BudgetInv, MoneyInv, status = "APPROVED",
         charges' + contacts' = charges + contacts + 1,
         roll' \in PossibleRolls, SettleAttempt, UNCHANGED facts
  PROVE  MoneyInv'
<1>1. payment # "captured" /\ roll # "pays" /\ roll' \in {"pays", "declines"}
  BY DEF MoneyInv, MoneyIsCaptured, RollRemembers, BudgetInv, TypeOK, PossibleRolls
<1>2. charges \in Nat /\ contacts \in Nat
  BY DEF BudgetInv, TypeOK
<1>3. CASE roll' = "pays"
  <2>1. roll = "unrolled"
    BY <1>1, <1>3 DEF PossibleRolls
  <2>2. charges' + contacts' = 1
    BY <2>1, <1>2 DEF MoneyInv, RollRemembers
  <2> QED
    BY <1>3, <2>2 DEF SettleAttempt, RecordCapture, PaymentAfterCapture, MoneyInv,
       MoneyIsCaptured, RollRemembers
<1>4. CASE roll' = "declines"
  <2>1. charges' + contacts' # 0
    BY <1>2
  <2> QED
    BY <1>1, <1>4, <2>1 DEF SettleAttempt, MoneyInv, MoneyIsCaptured, RollRemembers
<1> QED
  BY <1>1, <1>3, <1>4

\* Every other step leaves the money, the roll and the counters alone, and
\* neither enters nor leaves RECOVERED.
LEMMA StepKeepsMoney ==
  ~RealLinks /\ BudgetInv /\ MoneyInv /\ [Next]_vars => MoneyInv'
<1> SUFFICES ASSUME ~RealLinks, BudgetInv, MoneyInv, [Next]_vars PROVE MoneyInv'
  OBVIOUS
<1>1. CASE ExecuteRetry \/ ExecuteSimulatedLink
  <2>1. charges' + contacts' = charges + contacts + 1
    BY <1>1 DEF ExecuteRetry, ExecuteSimulatedLink, BudgetInv, TypeOK
  <2> QED
    BY <1>1, <2>1, AttemptKeepsMoney DEF ExecuteRetry, ExecuteSimulatedLink, Steps
<1> DEFINE Quiet == /\ UNCHANGED <<facts, payment, recovered, charges, contacts, roll>>
                    /\ status # "RECOVERED" /\ status' # "RECOVERED"
                    /\ outcome' \in {outcome, "UNRECOVERED"}
<1>2. ASSUME Quiet PROVE MoneyInv'
  BY <1>2 DEF MoneyInv, MoneyIsCaptured, RollRemembers
<1>3. CASE UNCHANGED vars
  BY <1>3 DEF MoneyInv, MoneyIsCaptured, RollRemembers, vars, caseRow, effects
<1>4. CASE PrepareStep
  <2>1. Quiet
    BY <1>4 DEF PrepareStep, Detected, Analyzing, Diagnosed, Planned, Steps, caseRow, effects
  <2> QED
    BY <1>2, <2>1
<1>5. CASE PolicyStep
  <2>1. Quiet
    BY <1>5 DEF PolicyStep, Allow, Escalate, Wait, BlockAndSwap, StatusAfterSwap, Block,
       PolicyRaises, Gate, Steps, caseRow, effects
  <2> QED
    BY <1>2, <2>1
<1>6. CASE RealLinkRaises \/ ExecuteEscalation \/ ExecuteStop
  <2>1. Quiet
    BY <1>6 DEF RealLinkRaises, ExecuteEscalation, ExecuteStop, Steps, caseRow, effects
  <2> QED
    BY <1>2, <2>1
<1>7. CASE VerifyStep
  <2>1. Quiet
    BY <1>7 DEF VerifyStep, LadderCloses, CloseUnrecovered, LadderEscalates, LadderRepeats,
       AwaitingApproval, Steps, caseRow, effects
  <2> QED
    BY <1>2, <2>1
<1>8. CASE Return \/ CloseRaises
  BY <1>8 DEF Return, CloseRaises, MoneyInv, MoneyIsCaptured, RollRemembers, caseRow, effects
<1>9. CASE CloseAndReturn
  <2>1. Quiet
    BY <1>9 DEF CloseAndReturn, CloseUnrecovered, IsTerminal, TerminalStatuses, effects
  <2> QED
    BY <1>2, <2>1
<1>10. ~ExecuteRealLink
  BY DEF ExecuteRealLink
<1> QED
  BY <1>1, <1>3, <1>4, <1>5, <1>6, <1>7, <1>8, <1>9, <1>10
     DEF Next, ExecuteStep, EndStep, Returned

\* With simulated links, the status, the outcome, the payment mirror and the
\* recovered amount tell one story, and money comes with the first attempt.
THEOREM MoneyIsExact == ~RealLinks => (Spec => []MoneyIsCaptured)
<1>1. Init => MoneyInv
  BY DEF Init, NewCase, MoneyInv, MoneyIsCaptured, RollRemembers
<1>2. CASE RealLinks
  BY <1>2
<1>3. CASE ~RealLinks
  <2>1. BudgetInv /\ MoneyInv /\ [Next]_vars => MoneyInv'
    BY <1>3, StepKeepsMoney
  <2>2. MoneyInv => MoneyIsCaptured
    BY DEF MoneyInv
  <2>3. Spec => []MoneyIsCaptured
    BY <1>1, <2>1, <2>2, BudgetInvariant, PTL DEF Spec
  <2> QED
    BY <2>3
<1> QED
  BY <1>2, <1>3

-----------------------------------------------------------------------------
\* How the stages of the promise see the statuses of a case.
LEMMA Stages ==
  /\ \A s \in ActiveStatuses : StageOf(s) = "open"
  /\ StageOf("RECOVERED") = "recovered" /\ StageOf("CLOSED_UNRECOVERED") = "unrecovered"
  /\ StageOf("BLOCKED") = "refused" /\ StageOf("ESCALATED") = "human"
  /\ StageOf("FAILED") = "failed"
  BY DEF StageOf, Ending, ActiveStatuses

\* A new case is an open one.
LEMMA InitKeepsPromise == Init => Abstract!Init
  BY Stages, FactsType DEF Init, NewCase, Abstract!Init, ActiveStatuses

\* A charge of the pipeline is a Charge of the promise, a link is a Contact, an
\* ending that brings no money is a GiveUp, and everything else stutters.
LEMMA StepKeepsPromise ==
  BudgetInv /\ [Next]_vars => [Abstract!Next]_(Abstract!vars)
<1> SUFFICES ASSUME BudgetInv, [Next]_vars PROVE [Abstract!Next]_(Abstract!vars)
  OBVIOUS
<1> DEFINE Still == UNCHANGED <<facts, retryCount, contacts, recovered>>
           Stutters == Still /\ StageOf(status') = StageOf(status)
           GivesUp == /\ Still
                      /\ StageOf(status) = "open"
                      /\ StageOf(status') \in {"unrecovered", "refused", "human"}
<1>0. StageOf(status)' = StageOf(status')
  BY DEF StageOf, Ending
<1>1. ASSUME Stutters PROVE UNCHANGED Abstract!vars
  BY <1>0, <1>1 DEF Abstract!vars
<1>2. ASSUME GivesUp PROVE Abstract!Next
  BY <1>0, <1>2 DEF Abstract!Next, Abstract!GiveUp
<1>3. ASSUME status = "APPROVED", SettleAttempt, roll' \in PossibleRolls, UNCHANGED facts
      PROVE  StageOf(status) = "open" /\ Abstract!Settle
  <2>1. StageOf(status) = "open"
    BY <1>3, Stages DEF ActiveStatuses
  <2>2. CASE roll' = "pays"
    BY <1>0, <1>3, <2>1, <2>2, Stages DEF SettleAttempt, RecordCapture, Abstract!Settle
  <2>3. CASE roll' # "pays"
    BY <1>0, <1>3, <2>1, <2>3, Stages DEF SettleAttempt, Abstract!Settle, ActiveStatuses
  <2> QED
    BY <2>1, <2>2, <2>3
<1>4. CASE UNCHANGED vars
  <2>1. Stutters
    BY <1>4 DEF vars, caseRow, effects
  <2> QED
    BY <1>1, <2>1
<1>5. CASE PrepareStep
  <2>1. Still /\ status \in ActiveStatuses /\ status' \in ActiveStatuses
    BY <1>5 DEF PrepareStep, Detected, Analyzing, Diagnosed, Planned, Steps, caseRow,
                effects, ActiveStatuses
  <2> QED
    BY <1>1, <2>1, Stages
<1>6. CASE Allow \/ Escalate \/ Wait \/ BlockAndSwap \/ PolicyRaises
  <2>1. Still /\ status \in ActiveStatuses /\ status' \in ActiveStatuses
    BY <1>6 DEF Allow, Escalate, Wait, BlockAndSwap, StatusAfterSwap, PolicyRaises, Gate,
                Steps, caseRow, effects, ActiveStatuses
  <2> QED
    BY <1>1, <2>1, Stages
<1>7. CASE Block
  <2>1. GivesUp
    BY <1>7, Stages DEF Block, Gate, Steps, caseRow, effects, ActiveStatuses
  <2> QED
    BY <1>2, <2>1
<1>8. CASE ExecuteRetry
  <2>1. retryCount < MaxRetries
    BY <1>8 DEF BudgetInv, ApprovedHasRoom, ExecuteRetry, Steps
  <2>2. StageOf(status) = "open" /\ Abstract!Settle
    BY <1>3, <1>8 DEF ExecuteRetry, Steps
  <2> QED
    BY <1>8, <2>1, <2>2
       DEF ExecuteRetry, NextRetryCount, Steps, Abstract!Next, Abstract!Charge
<1>9. CASE ExecuteSimulatedLink
  <2>1. contacts < ContactCap
    BY <1>9 DEF BudgetInv, ApprovedHasRoom, ExecuteSimulatedLink, Steps
  <2>2. StageOf(status) = "open" /\ Abstract!Settle
    BY <1>3, <1>9 DEF ExecuteSimulatedLink, Steps
  <2> QED
    BY <1>9, <2>1, <2>2 DEF ExecuteSimulatedLink, Steps, Abstract!Next, Abstract!Contact
<1>10. CASE ExecuteRealLink
  <2>1. contacts < ContactCap
    BY <1>10 DEF BudgetInv, ApprovedHasRoom, ExecuteRealLink, Steps
  <2>2. /\ StageOf(status) = "open" /\ StageOf(status') \in {"open", "failed"}
        /\ contacts' = contacts + 1 /\ UNCHANGED <<facts, retryCount, recovered>>
    BY <1>10, Stages DEF ExecuteRealLink, Steps, ActiveStatuses
  <2> QED
    BY <1>0, <2>1, <2>2 DEF Abstract!Next, Abstract!Contact, Abstract!Settle
<1>11. CASE RealLinkRaises \/ ExecuteEscalation \/ ExecuteStop
  <2>1. Still /\ status \in ActiveStatuses /\ status' \in ActiveStatuses
    BY <1>11 DEF RealLinkRaises, ExecuteEscalation, ExecuteStop, Steps, caseRow, effects,
                 ActiveStatuses
  <2> QED
    BY <1>1, <2>1, Stages
<1>12. CASE LadderEscalates \/ LadderRepeats
  <2>1. Still /\ status \in ActiveStatuses /\ status' \in ActiveStatuses
    BY <1>12 DEF LadderEscalates, LadderRepeats, Steps, caseRow, effects, ActiveStatuses
  <2> QED
    BY <1>1, <2>1, Stages
<1>13. CASE LadderCloses
  <2>1. GivesUp
    BY <1>13, Stages DEF LadderCloses, CloseUnrecovered, Steps, effects, ActiveStatuses
  <2> QED
    BY <1>2, <2>1
<1>14. CASE AwaitingApproval
  <2>1. Stutters \/ GivesUp
    BY <1>14, Stages DEF AwaitingApproval, Steps, caseRow, ActiveStatuses
  <2> QED
    BY <1>1, <1>2, <2>1
<1>15. CASE Return \/ CloseRaises
  <2>1. Stutters
    BY <1>15 DEF Return, CloseRaises, caseRow, effects
  <2> QED
    BY <1>1, <2>1
<1>16. CASE CloseAndReturn
  <2>1. status \in ActiveStatuses
    BY <1>16 DEF CloseAndReturn, IsTerminal, BudgetInv, TypeOK, CaseStatuses
  <2>2. GivesUp
    BY <1>16, <2>1, Stages DEF CloseAndReturn, CloseUnrecovered, effects
  <2> QED
    BY <1>2, <2>2
<1> QED
  BY <1>4, <1>5, <1>6, <1>7, <1>8, <1>9, <1>10, <1>11, <1>12, <1>13, <1>14, <1>15, <1>16
     DEF Next, PolicyStep, ExecuteStep, VerifyStep, EndStep, Returned

\* Whatever the thresholds, the cases and the answers of a model, batch or
\* live, the pipeline does only what RecoveryPromise allows.
THEOREM PipelineKeepsPromise == Spec => KeepsPromise
  BY InitKeepsPromise, StepKeepsPromise, BudgetInvariant, PTL
     DEF Spec, KeepsPromise, Abstract!Safe
-----------------------------------------------------------------------------
(***************************************************************************)
(* Cooldowns between charges.                                              *)
(***************************************************************************)

\* What makes the spacing inductive: an approved retry is still as far from
\* the last attempt as the gate saw it.
ApprovedIsSpaced ==
  status = "APPROVED" /\ decision.strategy \in RetryStrategies /\ lastAttempt # NoAttempt
    => age - lastAttempt >= PolicyCooldown(retryCount)

\* What P04 says of a decision to retry, in the columns of the case.
LEMMA AllowMeansSpaced ==
  ASSUME Verdict(PolicyContext) = "ALLOW", decision.strategy \in RetryStrategies,
         lastAttempt # NoAttempt
  PROVE  age - lastAttempt >= PolicyCooldown(retryCount)
<1> DEFINE ctx == PolicyContext
<1>1. P04(ctx)
  BY AllowMeansRulesHold
<1>2. /\ ctx.age = age /\ ctx.retries = retryCount /\ ctx.lastAttempt = lastAttempt
      /\ ctx.action = ActionOf(decision.strategy)
  BY DEF PolicyContext
<1> HIDE DEF ctx
<1>3. ctx.action \in RETRY_ACTIONS
  BY <1>2 DEF ActionOf, RETRY_ACTIONS
<1> QED
  BY <1>1, <1>2, <1>3 DEF P04

\* Only Allow approves; the steps that leave a case APPROVED touch neither the
\* clock nor the columns of the attempt.
LEMMA StepKeepsSpacing ==
  BudgetInv /\ ApprovedIsSpaced /\ [Next]_vars => ApprovedIsSpaced'
<1> SUFFICES ASSUME BudgetInv, ApprovedIsSpaced, [Next]_vars PROVE ApprovedIsSpaced'
  OBVIOUS
<1> USE DEF ApprovedIsSpaced
<1>1. CASE UNCHANGED vars
  BY <1>1 DEF vars, caseRow
<1>2. CASE PrepareStep
  BY <1>2 DEF PrepareStep, Detected, Analyzing, Diagnosed, Planned, Steps
<1>3. CASE Allow
  BY <1>3, AllowMeansSpaced DEF Allow, Gate, caseRow
<1>4. CASE Escalate \/ Wait \/ BlockAndSwap \/ Block \/ PolicyRaises
  BY <1>4 DEF Escalate, Wait, BlockAndSwap, StatusAfterSwap, Block, PolicyRaises, Gate, Steps
<1>5. CASE ExecuteRetry \/ ExecuteSimulatedLink
  BY <1>5, SettleType DEF BudgetInv, ExecuteRetry, ExecuteSimulatedLink, Steps
<1>6. CASE ExecuteRealLink \/ ExecuteEscalation \/ ExecuteStop
  BY <1>6 DEF ExecuteRealLink, ExecuteEscalation, ExecuteStop, Steps
<1>7. CASE RealLinkRaises
  BY <1>7 DEF RealLinkRaises, caseRow
<1>8. CASE VerifyStep
  BY <1>8 DEF VerifyStep, LadderCloses, CloseUnrecovered, LadderEscalates, LadderRepeats,
              AwaitingApproval, Steps
<1>9. CASE EndStep
  BY <1>9 DEF EndStep, Return, CloseAndReturn, CloseUnrecovered, CloseRaises, caseRow
<1> QED
  BY <1>1, <1>2, <1>3, <1>4, <1>5, <1>6, <1>7, <1>8, <1>9
     DEF Next, PolicyStep, ExecuteStep, Returned

\* Two charges of a case are a cooldown of P04 apart, whatever delays a model
\* asks for and whatever the schedule of strategies.py says.
THEOREM SpacingHolds == Spec => ChargesAreSpaced
<1>1. Init => ApprovedIsSpaced
  BY DEF Init, NewCase, ApprovedIsSpaced
<1>2. BudgetInv /\ ApprovedIsSpaced /\ [Next]_vars
        => [charges' # charges /\ lastAttempt # NoAttempt
              => age - lastAttempt >= PolicyCooldown(retryCount)]_vars
  <2> SUFFICES ASSUME ApprovedIsSpaced, Next, charges' # charges, lastAttempt # NoAttempt
               PROVE  age - lastAttempt >= PolicyCooldown(retryCount)
    OBVIOUS
  <2>1. ExecuteRetry
    BY DEF Next, PrepareStep, Detected, Analyzing, Diagnosed, Planned, PolicyStep, Allow,
           Escalate, Wait, BlockAndSwap, Block, PolicyRaises, ExecuteStep,
           ExecuteSimulatedLink, ExecuteRealLink, RealLinkRaises, ExecuteEscalation,
           ExecuteStop, VerifyStep, LadderCloses, LadderEscalates, LadderRepeats,
           AwaitingApproval, EndStep, Return, CloseAndReturn, CloseRaises, Returned,
           effects, vars
  <2> QED
    BY <2>1 DEF ExecuteRetry, Steps, ApprovedIsSpaced
<1> QED
  BY <1>1, <1>2, StepKeepsSpacing, BudgetInvariant, PTL DEF Spec, ChargesAreSpaced
=============================================================================
