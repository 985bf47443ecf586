# A verified model of the AI Revenue Recovery Agent

The program takes failed payments, reported by Razorpay webhooks, and tries to
recover the money: an agent (a language model, or a deterministic table when
there is no model or it answers badly) diagnoses the failure and proposes a
strategy, a policy engine of fourteen rules permits or refuses it, executors
charge again, send a payment link or call a human, and a verification service
books the money.  A case moves through an explicit state machine until it is
terminal.

This directory holds TLA+ modules that model that loop, TLC configurations that
check it on finite instances, and theorems about it for all instances.
`src/` below is the repository, `app/` is `src/app/`.

## 1. Inventory

| part | state | operations | interacts with | what is hard |
|---|---|---|---|---|
| Case FSM, `app/domain/fsm.py` | none (a table) | `can_transition`, `assert_transition` | every write of a status | callers make several moves in one step, and one caller closes a case from whatever status the loop stopped in |
| Diagnosis and strategies, `app/domain/` | none (tables) | `diagnose`, `select_strategy`, `cooldown_minutes` | the agent | 48 h and amount thresholds stated differently from the policy's |
| Policy engine, `app/policy/` | none | `evaluate`: P01..P14 in order, first failure decides | pipeline | rules read counters that executors move two steps later |
| Agent, `app/agent/decide.py` | `agent_decisions` | `decide_and_persist`, with a validation of the model's answer | pipeline, the model over HTTP | a decision is asked for up to three times per round; parameters are not validated |
| Executors, `app/executors/actions.py` | `recovery_actions`, `escalations`, `notifications`, `retry_count` | retry charge, link, escalation, stop | gateway, pipeline | partial effects, refusals and exceptions |
| Verification, `app/verification/service.py` | payment mirror, money and outcome columns | `record_capture`, `close_unrecovered` | executors, webhooks | must agree with status, twice-delivered captures |
| Pipeline, `app/services/pipeline.py` | the case row, the injected clock | `advance_case`, `_step` | all of the above | termination, step budget, batch and live behaviour in the same code |
| Simulated gateway, `app/integrations/simulated_gateway.py` | `_rolls`: one latent roll per payment | `attempt_retry`, `attempt_link_payment` | executors | the first answer is the answer for ever |
| Razorpay adapter, `app/integrations/razorpay.py` | circuit breaker (failures, opened at) | `create_payment_link` with retries | executors | a POST that timed out may have been served |
| Worker, `app/worker.py` | one session per tick | claims up to 20 cases, advances each, commits | pipeline | one transaction for all of them; no lock on claimed rows |
| Ingestion, `app/services/ingest.py` | events, customers, payments, cases | `ingest_event` | verification, case service | duplicates, reordering, unique keys, rejected signatures |
| Case service, `app/services/case_service.py` | cases, ref counters | `create_case`, `transition`, `next_ref` | everything that writes a status | read-modify-write of a counter |
| Escalation decisions, `app/main.py` | `escalations`, case status | `decide_escalation` | a human, the worker | a second decision, a decision on an escalation a batch has expired |
| Audit chain, `app/services/audit.py` | `audit_events` | `append_event`, `validate_chain` | all writers | two writers chain onto the same predecessor |
| Risk engine, `app/risk/engine.py` | none | `score` | analysing a case | none of its results is read by a branch |
| Batch evaluation, `app/batch/run_eval.py` | one session for a whole run, a virtual clock per case | replay of a dataset, one `advance_case` per case, `_score`, baselines | ingestion, pipeline | one exception loses the whole run; cases share a budget; attribution of money |
| Database, `app/db/` | the tables | sessions | everything | unique keys are the last line of defence |
| Settings, scripts, frontend | - | - | - | I/O and presentation |

What makes each correct, in a sentence: the FSM is never asked for an illegal
move; the table never proposes what the policy forbids; an ALLOW means the
rules held of the case that is charged; no answer of a model leads past the
gate; budgets hold of the rows written and not only of the counters read; money,
outcome, payment and status agree; a human's queue holds exactly the cases that
wait; every case ends; ingesting any order of deliveries opens at most one case
per payment and forgets no failure; a run of the evaluation ends, and its report
agrees with what was delivered and done; references have no gaps and audit chains
verify after any interleaving; a Razorpay that is down is left alone, and asked
again when it is back.

`PROJECT.json` lists every component with its status and every hazard at its
line, with the properties that would catch it or the reason why none does.

## 2. Modules and how they correspond to the code

    Strategies ──> Policy ──┐
                  CaseFSM ──┴──> Pipeline ──> MCPipeline                     (TLC)
                     │              │  ├── INSTANCE RecoveryPromise
                     │              │  ├──> BatchEval ──> MCBatch            (TLC)
                     │              │  │       └── INSTANCE RunPromise
                     │              │  └──> PipelineProofs ──> TableProofs   (TLAPS)
                     │              └──> BatchEval, TableProofs ──> BatchProofs
                     │                                                       (TLAPS)
                     ├──> LiveRecovery ──> MCLive                            (TLC)
                     │        ├── INSTANCE Sessions
                     │        └──> LiveProofs ──> LiveMoneyProofs            (TLAPS)
                     └──> CaseLedger ──> MCLedger                            (TLC)
                              ├── INSTANCE Sessions
                              ├── INSTANCE AuditLog
                              └──> LedgerProofs ──> AuditProofs              (TLAPS)
    RazorpayAdapter (TLC) ──> AdapterProofs                                  (TLAPS)

**CaseFSM** is the transition table of `fsm.py` as a function from a status to
the set of its successors.

**Strategies** is `diagnose` and `select_strategy`.  Reason and code strings
are kept, because which string wins is the diagnosis; rationale texts are not.
Confidences are percentages, times are minutes.

**Policy** is `rules.py` and `engine.py`: one operator per rule, the tuple
`RULE_ORDER`, and `TriggeredRule` as the first rule in that order that fails.
Thresholds are constants, constrained by `PolicyConfigAssumption` alone.
`EvaluateRaises` is the `TypeError` that P13 meets when a delay is text.

**Pipeline** is one call of `advance_case` on one case.  Its variables are
columns (`status`, `retryCount`, `lastAttempt`, `outcome`, `recovered`,
`payment`, `diagnosis`), the latest rows of `agent_decisions` and
`policy_decisions` (`decision`, `gate`), counts of rows that only counts are
read of (`charges`, `contacts`, `escalation`), the gateway's `roll`, the clock
(`age`) and the loop's own `steps` and `pc`.  Each action is a branch of
`_step` with everything the branch calls:

| action | branch |
|---|---|
| `Detected`, `Analyzing`, `Diagnosed`, `Planned` | the four preparing statuses; `Analyzing`, and `Diagnosed` after a retry, decide |
| `Allow`, `Escalate`, `Wait`, `BlockAndSwap`, `Block`, `PolicyRaises` | POLICY_CHECK by verdict, and its exception |
| `ExecuteRetry`, `ExecuteSimulatedLink`, `ExecuteRealLink`, `RealLinkRaises`, `ExecuteEscalation`, `ExecuteStop` | APPROVED by strategy, through EXECUTING to the status the branch leaves |
| `LadderCloses`, `LadderEscalates`, `LadderRepeats` | VERIFYING: end, forced escalation, next round |
| `AwaitingApproval` | the elapsed approval window (batch) or parking (live) |
| `Return`, `CloseAndReturn`, `CloseRaises` | the end of `advance_case` |

`advance_case` runs in the caller's transaction, so no other session sees a
step; an exception rolls it back and is the terminal value `pc = "raised"`.

The constants tell the code's two drivers apart: `FastForward` (the batch's
virtual clock against the worker's real one), `LLMConfigured`, `RealLinks`.
`Cases` are the failed payments the case may be about; they stand for
`ingest_event` and `create_case`, which are modelled in `LiveRecovery` and
`BatchEval`.  `otherCharges` is what P12 counts of the merchant's other cases.

Abstractions, each with its reason:

- A model's answer is any member of `LLMOutputs`, at each request anew, or no
  usable answer, in which case the table decides.  The HTTP exchange, its two
  attempts and its timeouts have no other effect.
- The gateway's roll is possible/impossible instead of a probability, and is
  kept for the payment once drawn, as `_rolls` does.
- Amounts are small numbers around the approval limit, which is scaled to 5.
- Two branches of `_step` are no actions: EXECUTING (no step rests there
  inside one session; `TypeOK` states it) and VERIFYING with a captured
  payment (every capture is followed by RECOVERED in the same step;
  `MoneyIsCaptured` states it).
- Risk columns and audit rows are written and never read by these branches.
- No downtime is active, no other payment of the order is captured, no
  notification channel or idempotency key is passed: `_build_policy_ctx`
  passes these constants, and P02, P07, P09, P13 and P14 read them.

**RecoveryPromise** is the abstract specification: an open case, two budgets,
and an ending that is reached once.  `Pipeline` implements it under the mapping
`stage <- StageOf(status)`, `charged <- retryCount`, `contacted <- contacts`,
`booked <- recovered`, `due <- facts.amount`.

**BatchEval** is one run of `run_eval.run` around `Pipeline`: a dataset of
deliveries is replayed (`SkipDuplicate`, `OpenCase`, `SelfHeal`), then every case
is loaded in the order of its reference (`LoadCase` resets the pipeline's
variables to the row and to a fresh clock, with the charges of the other cases
as `otherCharges`), advanced by the actions of `Pipeline` (`AdvanceCase`), or
skipped because a capture has ended it (`SkipEnded`), put back
(`CaseAdvanced`), and at the end the report is drawn from the rows (`Score`).
There is one transaction and one thread, so nothing comes between; what is hard
is what cases share, and what an exception loses.

A dataset comes with the database it meets.  Nothing is kept unless `run_eval` is
given `--keep-db`; then `webhook_events`, `recovery_cases` and `recovery_actions` are all
kept, and `_score` counts the cases and actions of the whole database.  So `events` are
all deliveries ever, the first `before` of them those of the past; `rows` and `order`
are the kept cases; `RunInit` starts with their ids in the ledger, and `Score` and P12 count
them with those of this run.  `Deliveries` says what the generator can emit, `Kept` what
can be kept: a case that an earlier run has ended (`EndedRow`, `HealedRow`), or one that
`scripts/load_dataset.py` has only ingested (`OpenedRow`), which this run then advances.
The generator makes ids from the case's key, so every delivery of a kept payment comes
again as a duplicate.  That a run leaves such a database is a theorem
(`RunsFollowEachOther`).  A database that the live system or a human has touched is
left out.

**RunPromise** is the promise of `RecoveryPromise` for many payments, one moving
at a time, some of which pay unprompted and must then be neither charged nor
reminded, and some of which ended in earlier runs and must stay as they are.
`BatchEval` implements it.

**Sessions** is the database as concurrent transactions see it:
`session_scope` over PostgreSQL at READ COMMITTED.  `committed` maps a key to a
row, `pending` maps a session to the rows it has flushed.  A read sees one's own
writes and otherwise what is committed; a flush waits for the row's lock and
changes columns of the row as it is then, not as it was read; commit and
rollback are atomic.

**LiveRecovery** is the live system without a model: webhook requests
(`ingest_event`) and workers (`tick`), each in a session, over the ledger of
deliveries, the customers, the payment mirror and the case.  What a session has read is kept in
`handler` and `worker`, because the ORM objects it works with are copies.

| action | code |
|---|---|
| `Duplicate`, `Receive`, `Reject` | the ledger lookup of `ingest_event`; recording the delivery; a signature that does not verify |
| `InsertCustomer`, `CustomerConflicts` | `_upsert_customer`, and the unique key on the contact |
| `UpsertPayment`, `UpsertConflicts` | `_upsert_payment`, and the unique key it can violate |
| `LookForCase`, `OpenCase`, `NothingToDo`, `SelfHeal`, `CaptureTooLate` | the rest of `ingest_event`; `record_capture`; the transition the FSM refuses |
| `Finish`, `HandlerFails` | commit and the 200, which may be lost; a crash |
| `Claim`, `Load`, `LoadPayment`, `TickEnds` | `tick`: the ids, then each case and its payment, the commit |
| `Skip`, `Start`, `EndWithoutAttempt`, `Attempt`, `LinkRefused`, `BookMoney`, `HumanNeeded` | `advance_case` on one claimed case |
| `WorkerFails`, `BreakDeadlock` | a crash; the deadlock between a tick (case, then payment) and a capture (payment, then case) |
| `CustomerPays`, `GrowOld` | the world: money with its webhook, and time |

What `advance_case` does with a case is taken from `Pipeline`, in two facts.
With a real clock the loop parks instead of going round again and is then closed
(`doc_live_parks`), so a case gets at most one attempt per call and a tick
commits only DETECTED or terminal cases; and a case that must go to a human
raises (the same run).  It is cut in steps only where another session can
come between.  The gateway's answer is free.  References minted by `next_ref`
and audit rows are in `CaseLedger`: here they would add locks and unique keys whose
violation is one of the failures.  The merchant's row is taken to exist (its
insertion by the very first deliveries conflicts and is repeated like that of a
customer).  `Escalating` names the payments whose case the policy
sends to a human; a case past 48 h is stopped instead, and past 72 h blocked.

**CaseLedger** is the case service and the audit log under all their callers,
each in a session: requests that open and heal cases, a worker, humans.  It has
what `LiveRecovery` leaves out, and leaves out payments and money.

| action | code |
|---|---|
| `ReadCounter`, `MintRef`, `MintConflicts` | `next_ref`: `session.get`, the insert of a missing counter, the write of the value read plus one |
| `InsertCase`, `CaseConflicts` | `create_case`, with the unique keys on `payment_id` and `case_ref` |
| `Heal`, `HealCase`, `Load`, `StartCase`, `EndCase` | `transition`, by a capture's request and by a worker: the status that was loaded is judged, the flush locks the row |
| `ReadLastHash`, `InsertEvent` | `append_event`: two statements |
| `ReadEscalation`, `Reject`, `Approve` | `decide_escalation` on an escalation an earlier batch left expired |
| `Commit`, `Crash` | the ends of a session |

A tick's moves of a case are cut to the first and the last.  `created_at` of an
event is its position in real time, counted per case; processes are taken to
share one clock, which is what the code's ordering needs and what one host
gives.

**AuditLog** is what the audit log promises: per case a set of committed events,
each chained onto the latest before it, that is only ever extended.
`CaseLedger` implements it (`KeepsAuditLog`), the committed events mapped to
`log`.

**RazorpayAdapter** is one `create_payment_link` after another through
`_request`, cut at its awaits, with the breaker that outlives them, in seconds.
Razorpay goes down and comes back at any time; a request that fails may have made
a link.  `quiet` and `burst` are history.

| action | code |
|---|---|
| `Call`, `RaiseOpen`, `Send` | the call, the test of the breaker before every attempt, which may close it |
| `Answered`, `Failed` | a status below 500 (429 too) is a success for the breaker; 5xx, timeout and broken connection are failures |
| `Retry`, `GiveUp` | after the sleep, which follows the last attempt too |
| `TimePasses`, `GoesDownOrUp` | the world |

## 3. Runs

| run | question | instance |
|---|---|---|
| `batch_fallback` | Does a whole evaluation without a model end with every case terminal, within the run's budget, with a report that adds up and every promise kept, and without the table ever proposing what the policy forbids? | every evidence, 3 amounts, both tokens, prior attempts 0/2, six ages, alone, in a fresh database or beside kept cases whose charges leave one of the budget or none; pairs of payments in five orders of delivery, in a fresh database, beside kept cases, or only loaded before |
| `batch_model` | Whatever a model answers, do budgets, gating, spacing of charges and the promise's safety hold? | 31 answers, among them unknown strategies, wrong confidences, delays on the four sides of P13, and text; `CooldownBase = 100`, longer than the ladder's schedule |
| `live_real` | With real links, refusals and exceptions, is every status change legal? | live, a model, links |
| `live_races` | With deliveries lost, repeated, rejected and reordered, two requests beside a tick, a crash, deadlocks: does RECOVERED mean paid and booked, is any accepted failure forgotten, does one worker attempt a case once? | two payments of one customer, one needing a human; one worker; two requests |
| `live_progress` | Does every failed payment get its case in the end, although deliveries conflict, and does every case end? | the same, with one customer who pays, and fairness |
| `gateway_calls` | Is a Razorpay that is down left alone, is the number of unreported links bounded, and is service resumed? | the settings' threshold 5, cooldown 60 s, 2 retries |
| `case_ledger` | Do references stay without gaps and chains valid, although both are a read and then a write? | two new payments, with or without one escalated by an earlier batch; two requests, a worker, two humans, one crash |

`batch_fallback` shows eleven properties, of which these need explanation.
`BlockedOnlyByAgeOrRunBudget` relates the table with the policy: over all
rounds of the ladder only age (P11) and the run's budget (P12) can block.
`WaitNeverNeeded` says that 30 m / 2 h / 8 h is never shorter than
`30 * 2^retries`; it is true only because the retry budget ends the case before
the doubling overtakes the flat 8 h, and the first link meets it with equality.
`batch_model` has thresholds for which it is false: there WAIT is needed, and
`ChargesAreSpaced` shows that it keeps charges apart.
`CeilingNeedsHuman` says that an amount on the limit, which P05 lets pass, is
not charged: the table escalates it.  `InvalidInstrumentNotifiedOnce` holds
over re-decisions.  `QueueMatchesCase` ties the escalation rows, written in two
places and expired in a third, to the status.  `RunWithinBudget` sums the charges
of all cases of the database: each case is gated with the others' charges as they were
when it was loaded, and a run makes none that takes the sum above the budget, which
what is kept may have passed (under another limit).  `ReportAddsUp` compares the report,
which is drawn from statuses and outcomes by subtraction, with every delivery there ever
was and with who acted, in this run or before; the duplicates it compares with this run's
deliveries alone, as the code counts them.  `LoopEndsByItself` says that no case raises and that the 32 steps of `MAX_STEPS`
never cut a ladder short, which would book a case as unrecovered, or lose the
run, with attempts left; `RunFinishes` is the liveness: every case ends.

`RecoveredMeansPaid` is about two sessions that write the columns of one case
from different copies; `AcceptedFailureHasCase` about the order of ledger,
mirror and case in one request that may fail, conflict, be aborted as a deadlock
victim, rejected or lose its answer; `AttemptedOnce` about a worker that meets its own
case again after every kind of rollback.  `EveryCaseEnds` holds in spite of the
poisoned tick: a case that needs a human rolls back everything the tick did for
the other cases, until it is 48 h old.  `EveryFailureGetsItsCase` is about deliveries
that conflict: two requests find no customer, or no payment, and both insert;
the second rolls back everything, its ledger row too, and comes again.  In this run
the failures of both payments insert the one customer (`CustomerConflicts`), the
failure and the capture of one payment insert the customer or the payment
(`CustomerConflicts`, `UpsertConflicts`), and its capture and a tick deadlock
(`BreakDeadlock`).  A delivery stored as rejected opens no case, now or later, and is
excepted; and it needs Razorpay's customer ids, without which the conflict would repeat
for ever (`doc_capture_heals`).

`RefsAreGapless` and `KeepsAuditLog` hold although `next_ref` and
`append_event` are not atomic.  A lost update of the counter gives two sessions one
number, and the unique key of `case_ref` then refuses the second, whose increment
is rolled back with it.  Chains do not fork because whoever appends holds a row
lock, taken by the flush just before (of the case, or of its escalation); the
order of flush and append is what the code relies on without saying so.

Five runs show where the code and what is written about it disagree; each
checks one property and is expected to violate it.  The findings in
`PROJECT.json` quote both sides.

| run | disagreement |
|---|---|
| `doc_batch_terminates` | with a model a case can spend its 32 steps swapping and laddering and stop in a status that cannot be closed; `advance_case` raises |
| `doc_live_parks` | where the worker means to leave a case to a human it raises, and where it means to wait for the cooldown it closes the case as unrecovered |
| `doc_two_workers` | two workers select the same case; the second waits for the row and attempts it again |
| `doc_replays` | a worker killed after an attempt makes the attempt again when it restarts |
| `doc_capture_heals` | the capture of a customer without a Razorpay id is refused by the contact key on every delivery, and its active case never healed |

Met while modelling, without a run of their own:

- a blocked decision is replaced by asking the model again, not by the table
  (comment at `app/services/pipeline.py:318`);
- a case at the contact cap can end BLOCKED instead of with a human, because
  the re-decision replaces the ladder's forced one (`pipeline.py:384`);
- a planned delay is validated and never waited for
  (`docs/RECOVERY_STRATEGIES.md:20`);
- nothing enters EXPIRED (P11 blocks, `docs/GUARDRAILS.md:39` says EXPIRE);
- a payment exactly on the approval limit may be charged on a model's proposal
  (`docs/PRODUCT_SPEC.md:68` says at or above);
- BANK_DOWNTIME without a token is charged (`docs/RECOVERY_STRATEGIES.md:7`
  forbids it);
- a session with a stale copy can take a case out of RECOVERED again, since the
  FSM judges the copy;
- a capture that comes after its case was closed is refused on every delivery;
- the failed payment of a contact without a customer id gets no case when that
  contact has had an event before (`ingest.py:100`, as in `doc_capture_heals`);
- a model's delay that is text passes validation and makes P13 raise a TypeError
  (`policy/rules.py:168`; `docs/AGENT_DESIGN.md:64` says every exit path produces a
  valid record or the fallback);
- a case is attempted although the capture of its payment was accepted since the
  tick loaded it (`pipeline.py:252`; `docs/FAILURE_HANDLING.md:16` says a live
  re-check comes before the gateway call);
- a delivery with a bad signature is recorded and answered 200
  (`ingest.py:166`), and its genuine redelivery is then a duplicate;
  `docs/TESTING.md:20` says 401 and no rows;
- the breaker does not half-open (`razorpay.py:22`): after the cooldown it closes
  and forgets its failures, so a Razorpay that is still down gets the whole threshold
  again; a 429 counts as an answer (`docs/FAILURE_HANDLING.md:11` says two retries
  that honour Retry-After);
- `next_ref` does not mint atomically (`case_service.py:18`): two sessions can mint
  one number, and the later one fails;
- a decision on an escalation that was decided or has expired overwrites it
  (`main.py:254`; `docs/API_DESIGN.md:70` says 409);
- the do-nothing baseline counts S08 payments with a capture probability above 0
  (`run_eval.py:123`), which the generator sets to 0, so it is always 0
  (`docs/EVALUATION.md:65` says it is the self-heals);
- with `--keep-db` the report mixes two sets: cases, actions and the recovered amount are
  of the whole database (`run_eval.py:180`, `:221`, `:283`), the events, the duplicates and
  the baselines of this run's dataset, so `agent_marginal_inr` (`:210`) credits this run with
  what earlier ones recovered; the docstring at `run_eval.py:89` says both are measured on
  the same dataset.

### Bounds

- Ages 0, 2830, 2880, 2881, 4319, 4320 minutes: the two sides of 48 h
  (`age > 48 h`) and of 72 h (`age < 72 h`), and 2830, which crosses 48 h when
  the ladder fast-forwards; 4200 in `batch_model` crosses 72 h.  The program
  compares the age with nothing else.
- Amounts 1, 5, 6 with the limit 5; nothing else compares amounts.
- `priorAttempts` 0 and 2: what `scripts/generate_dataset.py` makes; live
  payments have 0.
- `SimulationBudget` 4, in a run of one case with kept charges of 0, 3 and 4
  (`otherCharges` in `batch_model` and `live_real`): untouched, one left, spent; in a pair, a
  fresh database, one with a charged and a self-healed case, or the pair itself only
  loaded, so that the first case can leave the second any of these.
- Pairs of payments: what cases share is a budget, the ledger and the report, none of
  which tells a third case from a second.
- `MaxSteps` 32 is the code's.  Without a model a case needs at most 22 with three
  contacts (`LadderFitsLoop`); with a model it may use them all.
- Retry and contact caps and the confidence floor are the code's defaults.
- Every counter is bounded by a budget or by `MaxSteps`, so no state
  constraint is needed.
- `live_races`: two payments suffice for a tick that handles one case after
  another and is rolled back by the second, two requests for a failure beside
  its capture; `MaxFailures = 1` is one crash or lost answer at any point, while
  refusals, conflicts and deadlock victims are not counted; `CountLimit = 2`
  tells once from more than once.  The requests are interchangeable, and only
  they are permuted (`Symmetry`), in a run without liveness.
- `live_progress` has `CountLimit = 0`, because its properties do not count attempts, and
  `PaidLater = {p1}`: only the customer of the case that needs no human may pay after all,
  which is enough for a capture beside its failure, beside the other payment's failure
  and beside a tick.  `PaidLater` bounds the world and not the code; the run of `live_races`
  lets both pay.
- `case_ledger`: `MaxEvents = 2` stops humans from deciding one case for ever;
  `MaxFailures = 1` is one crash anywhere.  Requests and humans are interchangeable.
- `gateway_calls`: times are counted up to one more than the cooldown, which is
  all the code compares.  A call has at most 3 attempts, the breaker takes 5
  failures, so a burst crosses calls.
- `Cardinality(Payments) <= 20`, an assumption, is `CLAIM_BATCH`: a tick claims
  every active case.

Deadlock is checked everywhere: `Returned` stutters once the call is over, so a
deadlock would be a status no branch handles.

### Fairness

In `Pipeline`, `FairSpec` has `WF_vars(Next)` and nothing else: `advance_case` is a sequential
loop in one thread, and while it can take a step it takes one.  No fairness is
put on a choice: a payment may decline for ever, a model may answer badly for
ever.

In `LiveRecovery`, `FairSpec` has `SF` for each request, each worker and the receipt of
failed deliveries, `WF` for breaking deadlocks and for growing old.  The worker is a `while True` loop
and a request runs until it returns; strong fairness stands for PostgreSQL
granting a row lock in the order of waiting, since a lock that is released and
taken again by others disables the waiter again and again.  PostgreSQL aborts a
victim after `deadlock_timeout`.  Razorpay repeats a delivery until it gets its 200,
and captures do not crowd failures out.  Nothing is assumed of customers, of failures,
or of the gateway's answers.

`RunSpec` of `BatchEval` is `WF` of the one program it is.  In `RazorpayAdapter`
the worker goes on calling (`WF` of `Call`), a call goes on (`WF` of `Request`), and
time passes between them (`SF` of `TimePasses`, which steps of a call disable); nothing
is assumed of Razorpay, and `ServiceResumes` speaks of the case that it stays up.

## 4. Proofs

For every value of the constants that satisfies the module's assumptions: for
`Pipeline` `PolicyConfigAssumption` (the thresholds are numbers) and
`PipelineAssumption` (cases are well-formed, `priorAttempts <= MaxRetries`, delays
are delays), and so for every set of cases and every model; for `BatchEval` also
`DatasetAssumption` (the datasets and what they meet in the database are well-formed, and a
run is configured like `evaluate.py`), and so for every number of payments, every order of
deliveries the generator can emit and everything that runs before may have left;
for `LiveRecovery`
`LiveAssumption` and for `CaseLedger` `LedgerAssumption` (finitely many payments,
and nobody is two sessions); for `RazorpayAdapter` `AdapterAssumption`
(the settings are numbers, the threshold at least one); for `AuditLog` nothing.

Every safety invariant, action property and refinement that a passing run checks
is stated by a theorem.

| theorem | statement |
|---|---|
| `TypeCorrect` | only members of the closed enums are ever stored |
| `BudgetsHold` | the rows written stay within P03, P08, P12 |
| `GateBeforeEffects` | no charge or contact without an ALLOW of that very decision, at an age below the TTL |
| `StepsAreLegal` | every status change is one the FSM allows |
| `QueueIsExact` | one escalation is open exactly while the case waits for a human |
| `MoneyIsExact` | with simulated links the money columns agree, and money comes with the first attempt |
| `SpacingHolds` | two charges of a case are a cooldown of P04 apart |
| `PipelineKeepsPromise` | `Spec => Abstract!Safe` |
| `CeilingHolds` | without a model, an amount on or above the approval limit reaches no charge and no customer |
| `NotifiedOnceHolds` | without a model, the customer of an invalid instrument is contacted once |
| `TableIsNeverBlocked` | `TableFitsPolicy`: the gate refuses a case only for its age or for the charges of the whole run |
| `ScheduleOutlastsCooldown` | without a model, `CooldownBase <= 60`, a contact to make: the gate never says WAIT |
| `LadderFitsLoop` | `TableFitsLoop`: no case raises, and none is cut short by `MAX_STEPS` |
| `RunKeepsBudget` | a run makes no charge that takes those of all payments, kept ones too, above the simulation budget |
| `ReportsAddUp` | the report counts every failed payment of the database once and credits money to who brought it |
| `RunsFollowEachOther` | the database a run leaves is one the next run with `--keep-db` may find, so all this holds of a series of runs |
| `RunKeepsItsPromises` | `RunSpec => Promises!Safe` |
| `EveryCaseOfARun`, `RunNotifiesOnce`, `RunRespectsCeiling`, `RunNeverBlocksTable`, `RunNeverWaits`, `RunLosesNoCase` | what holds of one case holds of every case of a run, whatever the others do |
| `FailuresAreKept` | a webhook that was answered is in the ledger, and an accepted failure has its case and its customer |
| `MoneyIsReal` | a case is RECOVERED only with its money booked and really in |
| `OneWorkerAttemptsOnce` | one worker attempts a case once |
| `ReferencesHaveNoGap` | n cases are numbered 1..n, and the counter says n |
| `AuditIsAppendOnly` | `Spec => Log!Spec`: the sessions of `CaseLedger` keep an append-only log of chains |
| `EveryChainValidates` | and so every chain validates, in every state of `CaseLedger` |
| `LogStaysValid` | a log that is only extended as `append_event` does validates for ever |
| `BurstsBounded` | between two rests of a cooldown Razorpay gets at most the threshold of failed requests |
| `LinksBounded` | one call leaves at most one link per attempt |

### One case (`PipelineProofs`)

`WithinBudgets` is not inductive: the gate reads the counters in POLICY_CHECK
and the executor moves them from APPROVED, and the gate reads a decision that
may be replaced.  `BudgetInv` adds `ApprovedHasRoom` (an approved case still has
the room, and is still the age, that the gate saw, and `gate` is about the
current `decision`) and `Decided` (there is a decision from DIAGNOSED on).
`ApprovedHasRoom` is established only by `Allow`, through `AllowMeansRulesHold` (an
ALLOW of the short-circuiting evaluator means that the rules held of the
context), and destroyed by every executor; no step in between decides again, which
is the reason the program is right.  One lemma per group of actions
(`PrepareKeepsBudget`, `PolicyKeepsBudget`, ...) and `StepKeepsBudget` combines
them.  `QueueIsExact` strengthens with one more conjunct on the expired rows;
`MoneyIsExact` with `MoneyInv`, whose extra part says that the first attempt
rolls and a recovered case stops, so that a second attempt always meets a roll
that declined.  `SpacingHolds` needs `ApprovedIsSpaced`, which like the room is
established by `Allow` alone.  `PipelineKeepsPromise` maps initial states and steps
under `BudgetInv`; the executor's budgets are the guards of the abstract `Charge`
and `Contact`.

### The table (`TableProofs`)

Without a model every decision is a row of `select_strategy` or a forced
escalation, and `TableInv` says what follows: whether a payment is retried or
its customer sent a link depends on the payment alone (`Retriable`), so a case has
charges or contacts and never both (`OneKindOfAttempt`); a retry is the first or the
second, because the table is asked again before every other and turns to a human
at two (`RetryIsFirstOrSecond`).  From that:

- the ladder closes an invalid instrument after its first notice
  (`NotifiedIsLast`), although every re-decision stamps the diagnosis anew;
- P01, P02, P03, P07, P08, P09, P10, P13 and P14 cannot fail at the gate
  (`TableFitsRules`), and P04, P05 and P06 do not block;
- a second charge comes after the 120 minutes of the schedule, and P04 asks for
  twice the base (`PlannedIsSpaced`, `SecondCooldown`); the doubling would overtake
  the schedule only at a retry the table does not make;
- a round of the ladder is five steps and consumes a charge or a contact, two
  steps come before it and the last round ends within seven (`StepsCounted`), so 17
  steps, and 7 and 5 for each contact, suffice; the code's 32 allow five contacts.

The hypotheses are about thresholds and settings, all satisfied by the program's
defaults, and their bounds are sharp.  On the instance of `batch_fallback` TLC finds
that the gate waits with `CooldownBase = 61` or with `ContactCap = 0`, that the
contact cap blocks a case with one prior attempt (which neither a webhook nor the
generator gives), and that a case is cut short with `MaxSteps` 21, or 16 with one
contact; with a real clock every case that parks raises or is closed
(`doc_live_parks`).

### A run (`BatchProofs`)

A run has any number of payments, so its properties are sums and cardinalities over
a set of any size.  `SumFunctionOnSet` of the library adds in the order `CHOOSE`
gives.  `SumExists` and `SumIsUnique` show that its equations have one solution,
`SumOfRest` that the order is indifferent, and `SumOfUpdate` and `SumOfSubset` what
a sum becomes when a row changes or rows are left out.  Each is by a smallest
counterexample (`SetInduction`, `SmallestSubset`), since the induction theorems of
the library cannot be instantiated.

`RunInv` has five parts.  `IngestInv`: the ledger has counted every delivery seen, of this
run and before (`LedgerCounts`), `order` opens every payment once and only when it failed
(`OrderOpens`), and each row tells what was delivered and done to its payment
(`RowsTell`, where the turn of a case that was kept ended is over from the start).
`CaseInv`: the case that is advancing satisfies the invariants of
one case.  `CaseIsCurrent`: its facts are those of the payment at `position`, and
`otherCharges` is still the sum of the others' charges, because only one case moves.
`SpentWithinBudget`: if the rows say more was charged than when the run began, it is
within the budget; the gate's room for one case, with the others' charges as they were
when it was loaded, is the room of the run.
`ReportIsScore` ties the report to the rows it was drawn from.  `ReportsAddUp` then
compares cardinalities of disjoint sets of payments (ended by status, paid, healed),
`RunKeepsItsPromises` maps a step of the run to a step of the payment that moves, and
`RunsFollowEachOther` reads off `RowsTell` at the end of a run that every case has ended.

The other theorems about a run are lifted: a step of the run is a step of the case,
the load of a new case, or nothing to the case (`RunMovesCase`), so an invariant of
one case that a new case satisfies is one of the run.

### Sessions (`LiveProofs`, `LiveMoneyProofs`, `LedgerProofs`, `AuditProofs`)

`FailuresAreKept` and `MoneyIsReal` are about any number of sessions over the same
rows.  `AcceptedInv` says of every request what it has written, or found, by the
point of its handler where it is (the entry of its event, the customer, the case),
and of the rows that nobody takes one away: what one session sees stays there
for it whatever another flushes, commits or rolls back (`FlushKeeps`,
`CommitKeeps`, `RollbackKeeps`), so that at the commit of a request its case and
customer are still there.  `OtherRequests` and `OtherWorkers` are the frame: a
step of one session leaves the invariant of the others.  `MoneyInv` (of
`LiveMoneyProofs`) adds that every row of a case, committed or pending, that says
RECOVERED has its amount and outcome, and that who writes it has heard of the
money; it needs no order of the sessions at all.

`OneWorkerAttemptsOnce` does need one.  A tick reads without a lock, and a request may
commit the case between the load and the first flush; but a written row is
locked (`Locked`), a request writes no attempts, and a case whose attempt was
committed has ended.  Only another worker could commit one in between, which is the
hypothesis, and what `doc_two_workers` shows.

`ReferencesHaveNoGap` is about a read-modify-write.  `LedgerInv` says that at most
one session holds the counter's row, that a number read is at most the counter's,
and that from the insertion of the case on the number is the next one.  Only the
unique key of `case_ref` gives the last part (`InsertCaseKeeps`): it refuses every
number up to the counter's, and one that was read is not above it.

`AuditIsAppendOnly` is about another: `append_event` reads the last hash and inserts
later.  `ChainInv` says that whoever is between the two, or has inserted and not
committed, holds the row of the case it moved or of the escalation it decided;
that two sessions never do so for one case, although these are two rows, because a
case with an escalation is ESCALATED, where no session moves it; and that the
predecessor read is therefore still the latest when the event is committed.
`EveryChainValidates` follows with `LogStaysValid`, which is by `ExtensionIsValid` and
`BeforeIsStable`: an event with a later time is nobody's predecessor.

### The adapter (`AdapterProofs`)

`BurstsBounded` strengthens with `BreakerRemembers` (a closed circuit has counted fewer
failures than the threshold, and unless Razorpay has rested it has counted every
one of the burst), `LinksBounded` with `LinksByAttempt` (a link per attempt before the
present one, and one more when the present one has been answered).

### Only model-checked

Liveness: `RunFinishes`, `EveryCaseEnds`, `EveryFailureGetsItsCase`, `ServiceResumes`.
Fairness and ENABLED are out of the prover's reach.  Of `RunFinishes` the safety half is
proved (`RunLosesNoCase`, and `ReportsAddUp`, whose statuses are a partition); what is
left to TLC is that the program goes on.  The properties of the `doc_` runs are false, and
their counterexamples are TLC's.

## 5. Not modelled, and why

- The risk score: floating-point weights and a logarithm, which TLC does not
  have, and no branch reads the result.
- The accuracy figures and the baselines of the evaluation: comparisons with the
  ground truth that nothing reads back.
- Webhooks of other types, which are recorded and change nothing else, and the
  insertion of the one merchant's row.
- A live system with a model and many cases: a model changes what one case does
  (`batch_model`, `live_real`), and sessions change what cases do to each other
  (`LiveRecovery`, `CaseLedger`); the product of the two is out of TLC's reach.
- Decision, action and escalation references share `next_ref` with case references and
  are read by nothing.
- Links at Razorpay after they were made: that a customer pays one is
  `CustomerPays`, which does not ask which.
- HTTP and SQL themselves, the read-only endpoints, settings from the environment,
  the scripts and the frontend.
