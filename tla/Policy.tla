------------------------------- MODULE Policy -------------------------------
(***************************************************************************)
(* The policy engine: the rules P01..P14 (app/policy/rules.py), their      *)
(* thresholds (config.py) and the ordered, short-circuiting evaluator      *)
(* (engine.py).  A context is a record with the fields of PolicyContext.   *)
(* Times are minutes since the failure, confidences are percentages.       *)
(***************************************************************************)
EXTENDS Integers, Strategies

CONSTANTS MaxRetries,        \* PolicyConfig.max_retries
          ApprovalLimit,     \* approval_limit_minor
          CooldownBase,      \* cooldown_base_min
          ConfidenceFloor,   \* confidence_floor, in percent
          ContactCap,        \* contact_cap_7d
          TtlHours,          \* ttl_hours
          SimulationBudget   \* simulation_budget

ASSUME PolicyConfigAssumption ==
  /\ MaxRetries \in Nat
  /\ ApprovalLimit \in Nat
  /\ CooldownBase \in Nat \ {0}
  /\ ConfidenceFloor \in 0..100
  /\ ContactCap \in Nat
  /\ TtlHours \in Nat
  /\ SimulationBudget \in Nat

ELIGIBLE_STATES ==
  {"DIAGNOSED", "PLANNED", "POLICY_CHECK", "APPROVED", "AWAITING_APPROVAL"}
RETRY_ACTIONS == {"RETRY_CHARGE"}
CONTACT_ACTIONS == {"SEND_RECOVERY_LINK", "NOTIFY_CUSTOMER"}
RETRY_FORBIDDEN_DIAGNOSES == {"INSTRUMENT_INVALID", "DUPLICATE_SELF_HEALED"}

NoAttempt == -1
NoAmount == -1
DAY_MINUTES == 24 * 60

\* _cooldown_minutes: base * 2^n, clamped to [base, 24 h].
PolicyCooldown(attempt) ==
  LET raw == CooldownBase * 2^attempt
      top == IF raw < DAY_MINUTES THEN raw ELSE DAY_MINUTES
  IN  IF top > CooldownBase THEN top ELSE CooldownBase

Least(a, b) == IF a < b THEN a ELSE b

P01(ctx) == ctx.status \in ELIGIBLE_STATES /\ ctx.payment = "failed"
P02(ctx) == ctx.payment # "captured" /\ ~ctx.capturedForOrder
\* Mutant: one retry too many.
P03OffByOne(ctx) == ctx.action \in RETRY_ACTIONS => ctx.retries <= MaxRetries
P03(ctx) == ctx.action \in RETRY_ACTIONS => ctx.retries < MaxRetries
\* Mutant: the cooldown does not double with the attempts.
P04NoBackoff(ctx) ==
  ctx.action \in RETRY_ACTIONS /\ ctx.lastAttempt # NoAttempt
    => ctx.age - ctx.lastAttempt >= CooldownBase
P04(ctx) ==
  ctx.action \in RETRY_ACTIONS /\ ctx.lastAttempt # NoAttempt
    => ctx.age - ctx.lastAttempt >= PolicyCooldown(ctx.retries)
P05(ctx) == ctx.action = "CREATE_ESCALATION" \/ ctx.amount <= ApprovalLimit
P06(ctx) ==
  \/ ctx.action = "CREATE_ESCALATION"
  \/ Least(ctx.diagnosisConfidence, ctx.strategyConfidence) >= ConfidenceFloor
P07(ctx) == ~ctx.existingAction
P08(ctx) == ctx.action \in CONTACT_ACTIONS => ctx.contacts < ContactCap
P09(ctx) == ~(ctx.action \in RETRY_ACTIONS /\ ctx.downtime)
P10(ctx) ==
  ~(ctx.action \in RETRY_ACTIONS /\ ctx.diagnosis \in RETRY_FORBIDDEN_DIAGNOSES)
P11(ctx) == ctx.age < TtlHours * 60
P12(ctx) == ctx.action \in RETRY_ACTIONS => ctx.budgetRemaining > 0
P13(ctx) ==
  /\ ctx.delay.kind = "number" => ctx.delay.minutes \in 15..(72 * 60)
  /\ ctx.linkAmount \in {NoAmount, ctx.amount}
  /\ ctx.channel \in {"absent", "sms", "email"}
P14(ctx) == TRUE

RULE_ORDER ==
  <<"P01", "P02", "P03", "P04", "P05", "P06", "P07",
    "P08", "P09", "P10", "P11", "P12", "P13", "P14">>

Passes(ctx) ==
  [P01 |-> P01(ctx), P02 |-> P02(ctx), P03 |-> P03(ctx), P04 |-> P04(ctx),
   P05 |-> P05(ctx), P06 |-> P06(ctx), P07 |-> P07(ctx), P08 |-> P08(ctx),
   P09 |-> P09(ctx), P10 |-> P10(ctx), P11 |-> P11(ctx), P12 |-> P12(ctx),
   P13 |-> P13(ctx), P14 |-> P14(ctx)]

ESCALATE_RULES == {"P05", "P06"}
WAIT_RULES == {"P04", "P09"}

\* The first rule of the order that fails; "none" when all pass.
TriggeredRule(ctx) ==
  LET failing == {i \in DOMAIN RULE_ORDER : ~Passes(ctx)[RULE_ORDER[i]]}
  IN  IF failing = {} THEN "none"
      ELSE RULE_ORDER[CHOOSE i \in failing : \A j \in failing : i <= j]

\* evaluate reaches P13 with a delay it cannot compare with 15: TypeError.
EvaluateRaises(ctx) ==
  ctx.delay.kind = "text" /\ TriggeredRule(ctx) \in {"none", "P13"}

Verdict(ctx) ==
  LET rule == TriggeredRule(ctx)
  IN  CASE rule = "none"            -> "ALLOW"
        [] rule \in ESCALATE_RULES  -> "ESCALATE"
        [] rule \in WAIT_RULES      -> "WAIT"
        [] OTHER                    -> "BLOCK"
=============================================================================
