----------------------------- MODULE MCPipeline -----------------------------
(***************************************************************************)
(* Finite instances of Pipeline.  The ages are the minutes on both sides   *)
(* of the two boundaries, 48 h (strategies.py) and 72 h (P11), and one     *)
(* that crosses 48 h while the ladder runs; the amounts are the two sides  *)
(* of the approval limit and the limit itself.                             *)
(***************************************************************************)
EXTENDS Pipeline

Limit == 5
Amounts == {1, 5, 6}
Ages == {0, 2830, 2880, 2881, 4319, 4320}

\* Every evidence diagnose can return.
AllEvidence == Evidence

\* Batch: prior_attempts is 0 or 2 (scripts/generate_dataset.py), and the
\* other cases of the run leave the simulation budget whole, at one, or spent.
BatchCases ==
  [evidence : AllEvidence, amount : Amounts, hasToken : BOOLEAN,
   priorAttempts : {0, 2}, age : Ages, otherCharges : {0, 3, 4}]

\* Fewer cases for the runs with a model, whose answers multiply the states.
SomeEvidence ==
  {Diagnose("insufficient_funds", "absent"), Diagnose("wrong_pin", "absent"),
   Diagnose("card_expired", "absent"), Diagnose("absent", "absent")}

ModelCases ==
  [evidence : SomeEvidence, amount : {1, 6}, hasToken : {TRUE},
   priorAttempts : {0, 2}, age : {0, 4200}, otherCharges : {0, 3}]

\* Live: a webhook brings no prior attempts, and a case is picked up young or,
\* after an outage, old.
LiveCases ==
  [evidence : AllEvidence, amount : Amounts, hasToken : BOOLEAN,
   priorAttempts : {0}, age : {0, 2881, 4320}, otherCharges : {0, 4}]

\* What the model may say: useful, doubtful, outside the schema, and with
\* parameters nobody validates.
Answer(d, s, c, delay) ==
  [diagnosis |-> d, strategy |-> s, diagnosisConfidence |-> 90,
   strategyConfidence |-> c, delay |-> delay]

ModelOutputs ==
  {Answer(d, s, c, NoDelay) :
      d \in {"INSUFFICIENT_FUNDS", "INSTRUMENT_INVALID"},
      s \in ALL_STRATEGIES, c \in {59, 60}}
    \cup {Answer("NETWORK_INFRA", S2, 60, Minutes(n)) : n \in {14, 15, 4320, 4321}}
    \cup {Answer("NETWORK_INFRA", S1, 60, [kind |-> "text", minutes |-> 0]),
          Answer("NETWORK_INFRA", "S7_DISCOUNT_COUPON", 60, NoDelay),
          Answer("NETWORK_INFRA", S1, 101, NoDelay)}

NoOutputs == {}

\* A model that only ever makes two unobjectionable proposals.
LadderOutputs ==
  {Answer("INSUFFICIENT_FUNDS", S1, 60, NoDelay),
   Answer("INSUFFICIENT_FUNDS", S3, 60, NoDelay)}
LadderCases ==
  [evidence : {Diagnose("insufficient_funds", "absent")}, amount : {1},
   hasToken : {TRUE}, priorAttempts : {0}, age : {0}, otherCharges : {0}]
=============================================================================
