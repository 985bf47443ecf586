----------------------------- MODULE Strategies -----------------------------
(***************************************************************************)
(* What the deterministic agent knows: the diagnosis of a failed payment   *)
(* (app/domain/diagnosis.py) and the strategy catalog, decision table and  *)
(* cooldown schedule (app/domain/strategies.py).  Amounts are minor units, *)
(* times are minutes, confidences are percentages.                         *)
(***************************************************************************)
EXTENDS Integers

Diagnoses ==
  {"INSUFFICIENT_FUNDS", "CUSTOMER_AUTH_REQUIRED", "INSTRUMENT_INVALID",
   "NETWORK_INFRA", "BANK_DOWNTIME", "DUPLICATE_SELF_HEALED", "UNKNOWN"}

\* REASON_MAP and CODE_MAP, read from the class to the strings it stands for.
ReasonsOf ==
  [INSUFFICIENT_FUNDS     |-> {"insufficient_funds", "insufficient_balance"},
   NETWORK_INFRA          |-> {"gateway_error", "network_error", "timeout_error", "timeout"},
   CUSTOMER_AUTH_REQUIRED |-> {"authentication_failed", "wrong_pin", "pin_error", "otp_timeout"},
   INSTRUMENT_INVALID     |-> {"card_expired", "invalid_card", "card_declined"},
   BANK_DOWNTIME          |-> {"bank_error", "bank_down", "downtime"},
   UNKNOWN                |-> {"unknown_failure"}]

CodesOf ==
  [NETWORK_INFRA |-> {"GATEWAY_ERROR", "TIMEOUT_ERROR", "SERVER_ERROR"},
   UNKNOWN       |-> {"BAD_REQUEST_ERROR", "UNKNOWN_ERROR"}]

Named(map, text) == \E d \in DOMAIN map : text \in map[d]
ClassOf(map, text) == CHOOSE d \in DOMAIN map : text \in map[d]

\* diagnose: a structured reason beats a code, and a code beats nothing.
Diagnose(reason, code) ==
  CASE Named(ReasonsOf, reason) -> [class |-> ClassOf(ReasonsOf, reason), confidence |-> 90]
    [] ~Named(ReasonsOf, reason) /\ Named(CodesOf, code)
                                -> [class |-> ClassOf(CodesOf, code), confidence |-> 70]
    [] OTHER                    -> [class |-> "UNKNOWN", confidence |-> 40]

S1 == "S1_IMMEDIATE_RETRY"
S2 == "S2_DELAYED_RETRY"
S3 == "S3_NOTIFY_WITH_LINK"
S4 == "S4_ALT_PAYMENT_FLOW"
S5 == "S5_HUMAN_ESCALATION"
S6 == "S6_STOP_RECOVERY"
ALL_STRATEGIES == {S1, S2, S3, S4, S5, S6}

RetryStrategies == {S1, S2}
LinkStrategies == {S3, S4}

\* STRATEGY_CATALOG's "action", with the CREATE_ESCALATION that
\* _build_policy_ctx substitutes for the None of S6.
ActionOf(s) ==
  IF s \in RetryStrategies THEN "RETRY_CHARGE"
  ELSE IF s \in LinkStrategies THEN "SEND_RECOVERY_LINK" ELSE "CREATE_ESCALATION"

\* cooldown_minutes: 30 m, 2 h, then 8 h for every later attempt.
\* Mutant: the schedule never grows.
CooldownMinutesFlat(attempt) == 30
CooldownMinutes(attempt) ==
  IF attempt <= 0 THEN 30 ELSE IF attempt = 1 THEN 120 ELSE 480

DELAYED_RETRY_MINUTES == 240

\* A strategy with its "delay_minutes" parameter, if it has one; a model may
\* also put text there.
Delay == [kind : {"absent", "number", "text"}, minutes : Int]
NoDelay == [kind |-> "absent", minutes |-> 0]
Minutes(n) == [kind |-> "number", minutes |-> n]
Choice(s) == [strategy |-> s, delay |-> NoDelay]
DelayedRetry(n) == [strategy |-> S2, delay |-> Minutes(n)]

\* The rows of select_strategy that an ordinary case falls through to.
MatrixChoice(diagnosis, hasToken, downtime) ==
  CASE diagnosis = "BANK_DOWNTIME" ->
         IF downtime THEN DelayedRetry(60) ELSE Choice(S1)
    [] diagnosis = "INSUFFICIENT_FUNDS" /\ hasToken ->
         DelayedRetry(DELAYED_RETRY_MINUTES)
    [] diagnosis = "NETWORK_INFRA" /\ hasToken -> Choice(S1)
    [] OTHER -> Choice(S3)

STALE_MINUTES == 48 * 60

\* What forces a human to look: money, doubt, or repeated failure.
\* Mutant: an amount on the limit is not "at/above" it.
NeedsHumanAboveLimit(q) ==
  \/ q.amount > q.approvalLimit
  \/ q.confidence < q.confidenceFloor
  \/ q.diagnosis = "UNKNOWN"
  \/ q.retries >= 2
NeedsHuman(q) ==
  \/ q.amount >= q.approvalLimit
  \/ q.confidence < q.confidenceFloor
  \/ q.diagnosis = "UNKNOWN"
  \/ q.retries >= 2

\* select_strategy on a question q.
SelectStrategy(q) ==
  IF q.diagnosis = "DUPLICATE_SELF_HEALED" \/ q.age > STALE_MINUTES
  THEN Choice(S6)
  ELSE IF NeedsHuman(q) THEN Choice(S5)
       ELSE MatrixChoice(q.diagnosis, q.hasToken, q.downtime)
=============================================================================
