------------------------------ MODULE BatchEval ------------------------------
(***************************************************************************)
(* One run of app.batch.run_eval: a dataset of webhook deliveries is       *)
(* ingested, every case is advanced to its end, one after the other, each  *)
(* on a clock of its own but with the run's charges in common, and the     *)
(* results are scored.  All of it is one transaction: if advance_case      *)
(* raises, the run is lost.                                                *)
(*                                                                         *)
(* advance_case is Pipeline, whose variables hold the case that is being   *)
(* advanced.  Cases is here the set of payments a dataset may be made of.  *)
(***************************************************************************)
EXTENDS Pipeline, Sequences, FiniteSetsExt

CONSTANT Datasets

Failed(id, p) == [id |-> id, event |-> "payment.failed", of |-> p]
Captured(id, p) == [id |-> id, event |-> "payment.captured", of |-> p]

\* What recovery_cases and recovery_actions say of a payment: before its failure
\* is delivered, once its case is open, once it was paid unprompted, and once
\* advance_case has ended its case.
NotOpened(f) == [status |-> "none", outcome |-> "none", recovered |-> 0,
                 retries |-> f.priorAttempts, charges |-> 0, contacts |-> 0]
OpenedRow(f) == [NotOpened(f) EXCEPT !.status = "DETECTED"]
HealedRow(f) == [NotOpened(f) EXCEPT !.status = "RECOVERED", !.outcome = "SELF_HEALED",
                                     !.recovered = f.amount]
EndedRow(f, row) ==
  /\ row.status \in {"RECOVERED", "CLOSED_UNRECOVERED", "BLOCKED", "ESCALATED"}
  /\ row.outcome # "SELF_HEALED"
  /\ row.recovered = IF row.status = "RECOVERED" THEN f.amount ELSE 0
  /\ row.retries \in 0..MaxRetries
  /\ row.charges \in Nat
  /\ row.contacts \in 0..ContactCap
  /\ row.status = "RECOVERED" => row.charges + row.contacts > 0

\* A dataset and the database it meets: the payments of both, every delivery
\* ever ingested or to be ingested now, each with its event id, how many of them
\* came before this run, and the cases those have left.
FailedBefore(d, p) == \E i \in 1..d.before : d.events[i] = Failed(d.events[i].id, p)
CapturedBefore(d, p) == \E i \in 1..d.before : d.events[i] = Captured(d.events[i].id, p)

\* What scripts/generate_dataset.py emits: a failure, perhaps delivered again
\* under the same id, and perhaps a capture after it.
Deliveries(d) ==
  /\ d.payments \in Seq(Cases)
  /\ d.events \in Seq({d.events[i] : i \in DOMAIN d.events})
  /\ \A i \in DOMAIN d.events : \E p \in DOMAIN d.payments :
       d.events[i] \in {Failed(d.events[i].id, p), Captured(d.events[i].id, p)}
  /\ \A i, j \in DOMAIN d.events :
       d.events[i].id = d.events[j].id => d.events[i] = d.events[j]
  /\ \A p \in DOMAIN d.payments :
       Cardinality({d.events[i].id : i \in {j \in DOMAIN d.events :
                      d.events[j] = Failed(d.events[j].id, p)}}) = 1
  /\ \A i \in DOMAIN d.events : d.events[i].event = "payment.captured" =>
       \E j \in 1..i : d.events[j] = Failed(d.events[j].id, d.events[i].of)

\* Nothing is kept unless run_eval is told to (--keep-db).  What is kept is what
\* scripts/load_dataset.py has only ingested or an earlier run has ended; ids
\* come from the case key, so the deliveries of a kept payment are all repeated.
Kept(d) ==
  /\ d.before \in 0..Len(d.events)
  /\ \A i \in DOMAIN d.events : FailedBefore(d, d.events[i].of) =>
       \E j \in 1..d.before : d.events[j].id = d.events[i].id
  /\ d.order \in Seq(DOMAIN d.payments)
  /\ \A j, k \in 1..Len(d.order) : d.order[j] = d.order[k] => j = k
  /\ \A p \in DOMAIN d.payments : FailedBefore(d, p) <=> \E k \in 1..Len(d.order) : d.order[k] = p
  /\ d.rows = [p \in DOMAIN d.payments |-> d.rows[p]]
  /\ \A p \in DOMAIN d.payments :
       IF CapturedBefore(d, p) THEN d.rows[p] = HealedRow(d.payments[p])
       ELSE IF FailedBefore(d, p)
       THEN d.rows[p] = OpenedRow(d.payments[p]) \/ EndedRow(d.payments[p], d.rows[p])
       ELSE d.rows[p] = NotOpened(d.payments[p])

WellFormed(d) == Deliveries(d) /\ Kept(d)

ASSUME DatasetAssumption ==
  FastForward /\ ~RealLinks /\ \A d \in Datasets : WellFormed(d)

VARIABLES
  dataset,
  phase,        \* ingesting, between two cases, advancing one, or scored
  position,     \* of the next delivery, then of the next case
  ledger,       \* webhook_events: the ids recorded
  duplicates,   \* duplicate_deliveries_skipped
  order,        \* the cases by case_ref
  rows,         \* the cases nobody is advancing, by payment
  report

run == <<dataset, phase, position, ledger, duplicates, order, rows, report>>
runVars == <<vars, run>>

Numbers == DOMAIN dataset.payments
KeptIds == {dataset.events[i].id : i \in 1..dataset.before}

\* Until the first case is loaded, the pipeline's variables mean nothing.
RunInit ==
  /\ dataset \in Datasets
  /\ facts = dataset.payments[1]
  /\ Init
  /\ phase = "ingesting"
  /\ position = dataset.before + 1
  /\ ledger = KeptIds
  /\ duplicates = 0
  /\ order = dataset.order
  /\ rows = dataset.rows
  /\ report = [total |-> 0]

-----------------------------------------------------------------------------
(***************************************************************************)
(* Phase 1: ingest_event, delivery by delivery.                            *)
(***************************************************************************)

Delivery == dataset.events[position]

SeenBefore(event) == event.id \in ledger

Deliver(event) ==
  /\ phase = "ingesting"
  /\ position <= Len(dataset.events)
  /\ Delivery.event = event
  /\ ~SeenBefore(Delivery)
  /\ ledger' = ledger \cup {Delivery.id}
  /\ position' = position + 1
  /\ UNCHANGED <<vars, dataset, phase, duplicates, report>>

SkipDuplicate ==
  /\ phase = "ingesting"
  /\ position <= Len(dataset.events)
  /\ SeenBefore(Delivery)
  /\ duplicates' = duplicates + 1
  /\ position' = position + 1
  /\ UNCHANGED <<vars, dataset, phase, ledger, order, rows, report>>

OpenCase ==
  /\ Deliver("payment.failed")
  /\ order' = Append(order, Delivery.of)
  /\ rows' = [rows EXCEPT ![Delivery.of].status = "DETECTED"]

\* record_capture on behalf of a webhook.
\* Mutant: the webhook's capture is credited to the agent.
OutcomeOfWebhookCredited == "RECOVERED"
OutcomeOfWebhook == "SELF_HEALED"
SelfHeal ==
  /\ Deliver("payment.captured")
  /\ rows' = [rows EXCEPT ![Delivery.of].status = "RECOVERED",
                ![Delivery.of].outcome = OutcomeOfWebhook,
                ![Delivery.of].recovered = dataset.payments[Delivery.of].amount]
  /\ UNCHANGED order

Ingested ==
  /\ phase = "ingesting"
  /\ position > Len(dataset.events)
  /\ phase' = "between"
  /\ position' = 1
  /\ UNCHANGED <<vars, dataset, ledger, duplicates, order, rows, report>>

-----------------------------------------------------------------------------
(***************************************************************************)
(* Phase 2: every case, in the order of the references.                    *)
(***************************************************************************)

Current == order[position]
TotalOver(column(_), numbers) == SumFunctionOnSet([p \in Numbers |-> column(p)], numbers)
Total(column(_)) == TotalOver(column, Numbers)

\* The charges the kept cases had when the run began.
EarlierCharges ==
  LET ChargesOf(p) == dataset.rows[p].charges
  IN  Total(ChargesOf)

\* _retry_actions_used counts the charges of all the merchant's cases, the kept
\* ones too.
\* Mutant: those of this run's other cases are not counted.
ChargesOfOthersForgotten == EarlierCharges
ChargesOfOthers ==
  LET ChargesOf(p) == rows[p].charges
  IN  Total(ChargesOf)

\* load_case_full, and a VirtualClock at t0.
LoadCase ==
  /\ phase = "between"
  /\ position <= Len(order)
  /\ ~IsTerminal(rows[Current].status)
  /\ phase' = "advancing"
  /\ facts' = [dataset.payments[Current] EXCEPT !.otherCharges = ChargesOfOthers]
  /\ payment' = "failed"
  /\ status' = "DETECTED"
  /\ diagnosis' = "none"
  /\ retryCount' = rows[Current].retries
  /\ lastAttempt' = NoAttempt
  /\ outcome' = "none"
  /\ recovered' = 0
  /\ decision' = NoDecision
  /\ gate' = NoGate
  /\ charges' = 0
  /\ contacts' = 0
  /\ escalation' = [open |-> 0, expired |-> 0]
  /\ roll' = "unrolled"
  /\ age' = dataset.payments[Current].age
  /\ steps' = 0
  /\ pc' = "stepping"
  /\ UNCHANGED <<dataset, position, ledger, duplicates, order, rows, report>>

\* advance_case has nothing to do for a case that is terminal already.
SkipEnded ==
  /\ phase = "between"
  /\ position <= Len(order)
  /\ IsTerminal(rows[Current].status)
  /\ position' = position + 1
  /\ UNCHANGED <<vars, dataset, phase, ledger, duplicates, order, rows, report>>

AdvanceCase ==
  /\ phase = "advancing"
  /\ PrepareStep \/ PolicyStep \/ ExecuteStep \/ VerifyStep \/ EndStep
  /\ UNCHANGED run

CaseAdvanced ==
  /\ phase = "advancing"
  /\ pc = "done"
  /\ rows' = [rows EXCEPT ![Current] =
       [status |-> status, outcome |-> outcome, recovered |-> recovered,
        retries |-> retryCount, charges |-> charges, contacts |-> contacts]]
  /\ phase' = "between"
  /\ position' = position + 1
  /\ UNCHANGED <<vars, dataset, ledger, duplicates, order, report>>

-----------------------------------------------------------------------------
(***************************************************************************)
(* Phase 3: _score, of every case and action in the database.              *)
(***************************************************************************)

Having(s) == Cardinality({p \in Numbers : rows[p].status = s})
SelfHealed == Cardinality({p \in Numbers : rows[p].outcome = "SELF_HEALED"})

Score ==
  LET Booked(p) == IF rows[p].status = "RECOVERED" THEN rows[p].recovered ELSE 0
      Actions(p) == rows[p].charges + rows[p].contacts
  IN  /\ phase = "between"
      /\ position > Len(order)
      /\ phase' = "scored"
      /\ report' =
           [total |-> Len(order), recovered |-> Having("RECOVERED"),
            selfHealed |-> SelfHealed,
            agentRecovered |-> Having("RECOVERED") - SelfHealed,
            unrecovered |-> Having("CLOSED_UNRECOVERED"),
            escalated |-> Having("ESCALATED"), blocked |-> Having("BLOCKED"),
            amount |-> Total(Booked), actions |-> Total(Actions)]
      /\ UNCHANGED <<vars, dataset, position, ledger, duplicates, order, rows>>

\* The report is written, or the exception has ended the process.
Over == (phase = "scored" \/ pc = "raised") /\ UNCHANGED runVars

RunNext ==
  \/ SkipDuplicate \/ OpenCase \/ SelfHeal \/ Ingested
  \/ LoadCase \/ SkipEnded \/ AdvanceCase \/ CaseAdvanced
  \/ Score \/ Over

\* The run is one sequential program.
RunSpec == RunInit /\ [][RunNext]_runVars /\ WF_runVars(RunNext)
-----------------------------------------------------------------------------
(***************************************************************************)
(* Properties.                                                             *)
(***************************************************************************)

PaysAlone(p) ==
  \E i \in DOMAIN dataset.events :
    dataset.events[i].of = p /\ dataset.events[i].event = "payment.captured"

\* simulation_max_calls_per_run holds of the run as a whole, although each case
\* is gated with the charges of the others as they were when it was loaded: the
\* run adds none that would take all the charges kept in the database above it.
RunWithinBudget ==
  LET ChargesOf(p) ==
        IF phase = "advancing" /\ Current = p THEN charges ELSE rows[p].charges
      made == Total(ChargesOf)
  IN  made > EarlierCharges => made <= SimulationBudget

\* The report's numbers, drawn from statuses and outcomes, agree with what was
\* ever delivered and done (tests/test_eval.py: "Honest recovery attribution",
\* "Outcome partition is complete"): one case per failed payment of the database
\* however often it was delivered, in one run or several; the agent is credited
\* with exactly the payments its actions brought in; the amount is that of the
\* payments that were captured or answered an action.  The duplicates are those
\* of this run's deliveries: all that brought no new id.
ReportAddsUp ==
  phase = "scored" =>
    LET healed == {p \in Numbers : PaysAlone(p)}
        acted == {p \in Numbers : rows[p].charges + rows[p].contacts > 0}
        paid == {p \in acted : rows[p].status = "RECOVERED"}
        AmountOf(p) == dataset.payments[p].amount
    IN  /\ report.total = Cardinality(Numbers)
        /\ duplicates = (Len(dataset.events) - dataset.before) - Cardinality(ledger \ KeptIds)
        /\ report.recovered + report.unrecovered + report.escalated + report.blocked
             = report.total
        /\ report.selfHealed = Cardinality(healed)
        /\ report.agentRecovered = Cardinality(paid)
        /\ report.amount = TotalOver(AmountOf, healed \cup paid)

\* The run ends with every case in a terminal status (tests/test_eval.py: "every
\* case must reach a terminal state"): no case raises, whatever the run has used.
RunFinishes ==
  <>(phase = "scored" /\ \A p \in Numbers : IsTerminal(rows[p].status))

-----------------------------------------------------------------------------
\* The run implements RunPromise: each of its payments keeps RecoveryPromise, also
\* while others have their turn, and nobody who pays unprompted (self-heals) is
\* charged or sent a link.
Now(p) ==
  IF phase = "advancing" /\ Current = p
  THEN [status |-> status, recovered |-> recovered, retries |-> retryCount,
        contacts |-> contacts]
  ELSE rows[p]

Promises ==
  INSTANCE RunPromise WITH
    ChargeBudget <- MaxRetries, ContactBudget <- ContactCap,
    unprompted <- {p \in Numbers : PaysAlone(p)},
    stage <- [p \in Numbers |-> StageOf(Now(p).status)],
    due <- [p \in Numbers |-> dataset.payments[p].amount],
    charged <- [p \in Numbers |-> Now(p).retries],
    contacted <- [p \in Numbers |-> Now(p).contacts],
    booked <- [p \in Numbers |-> Now(p).recovered]

KeepsPromises == Promises!Safe
=============================================================================
