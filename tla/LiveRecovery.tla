---------------------------- MODULE LiveRecovery ----------------------------
(***************************************************************************)
(* The live system without a model: Razorpay delivers webhooks             *)
(* (app/main.py, app/services/ingest.py) while workers (app/worker.py)     *)
(* claim active cases and advance them, each in a transaction of its own   *)
(* over the same rows.                                                     *)
(*                                                                         *)
(* What advance_case does with one case is Pipeline; here it is cut where  *)
(* another session can come between: the read of the rows, the first       *)
(* flush (which locks the case until the tick ends), the attempt at the    *)
(* gateway, the flush of the result.  With a real clock a case gets at     *)
(* most one attempt per call, because the loop parks and then closes.      *)
(*                                                                         *)
(* Left out: refs minted by next_ref and audit rows.  A collision of refs  *)
(* between two sessions raises, and is one of the failures below.          *)
(***************************************************************************)
EXTENDS CaseFSM, Naturals, FiniteSetsExt

CONSTANTS Payments,     \* failed payments of the merchant
          Contacts,     \* contact details, as contact_hash tells them apart
          NoContact,    \* a payload without contact and email
          ContactOf,    \* the contact in the webhooks of a payment
          Registered,   \* payments whose webhooks carry Razorpay's customer_id
          Escalating,   \* those the policy sends to a human while they are young
          PaidLater,    \* those whose customers may pay after all, unprompted
          Workers,      \* worker processes
          Handlers,     \* webhook requests that can be in progress at once
          MaxFailures,  \* bound on crashes, lost replies and failing calls
          CountLimit    \* attempts are counted up to here

ASSUME LiveAssumption ==
  /\ Escalating \subseteq Payments
  /\ Registered \subseteq Payments
  /\ PaidLater \subseteq Payments
  /\ NoContact \notin Contacts
  /\ ContactOf \in [Payments -> Contacts \cup {NoContact}]
  /\ Workers \cap Handlers = {}
  /\ MaxFailures \in Nat
  /\ CountLimit \in Nat
  /\ IsFiniteSet(Payments) /\ Cardinality(Payments) <= 20   \* CLAIM_BATCH

VARIABLES
  committed, pending,   \* the database: see Sessions
  unanswered,   \* webhooks Razorpay has sent and got no 200 for
  sent,         \* webhooks Razorpay has sent
  old,          \* payments whose case is past the 48 h of strategies.py
  money,        \* payments for which the money has come in
  attempts,     \* charges and links made at the gateway, per payment
  worker,       \* what each worker is doing, with the rows it has loaded
  handler,      \* what each webhook request is doing, with what it has loaded
  failures

world == <<unanswered, sent, old, money, attempts, failures>>
vars == <<committed, pending, world, worker, handler>>

\* The rows, by table and by the payment they belong to.  A webhook is named
\* like the row of webhook_events that records it.
Webhook(kind, p) == [table |-> kind, payment |-> p]
Webhooks == {Webhook(kind, p) :
               kind \in {"payment.failed", "payment.captured"}, p \in Payments}
PaymentKey(p) == [table |-> "payments", payment |-> p]
CaseKey(p) == [table |-> "cases", payment |-> p]
CustomerKey(p) == [table |-> "customers", contact |-> ContactOf[p]]
Keys == [table : {"payment.failed", "payment.captured", "payments", "cases"},
         payment : Payments]
          \cup [table : {"customers"}, contact : Contacts]

DB == INSTANCE Sessions WITH Session <- Workers \cup Handlers, Key <- Keys

NoCase == [status |-> "none", outcome |-> "none", booked |-> FALSE,
           actions |-> 0, created |-> 0]
CaseOf(s, p) == DB!Sees(s, CaseKey(p))
MirrorOf(s, p) == DB!Sees(s, PaymentKey(p))
CustomerOf(s, p) == DB!Sees(s, CustomerKey(p))

\* created_at: later than every case any session has created so far.
CreationTimes ==
  {committed[CaseKey(p)].created : p \in Payments}
    \cup UNION {{CaseOf(s, p).created : p \in Payments} : s \in Handlers}
NewCase == [NoCase EXCEPT !.status = "DETECTED", !.created = Max(CreationTimes) + 1]

Nobody == CHOOSE p \in Payments : TRUE
IdleWorker == [at |-> "idle", todo |-> {}, payment |-> Nobody,
               status |-> "none", mirror |-> "absent"]
IdleHandler == [at |-> "idle", event |-> Webhook("payment.failed", Nobody),
                status |-> "none", mirror |-> "absent"]

Init ==
  /\ committed = [k \in Keys |-> IF k.table = "cases" THEN NoCase ELSE "absent"]
  /\ pending = [s \in Workers \cup Handlers |-> DB!NoWrites]
  /\ sent = {Webhook("payment.failed", p) : p \in Payments}
  /\ unanswered = sent
  /\ old = {}
  /\ money = {}
  /\ attempts = [p \in Payments |-> 0]
  /\ worker = [w \in Workers |-> IdleWorker]
  /\ handler = [h \in Handlers |-> IdleHandler]
  /\ failures = 0

Fails == failures < MaxFailures /\ failures' = failures + 1

-----------------------------------------------------------------------------
(***************************************************************************)
(* A webhook request: ingest_event in one transaction.  An exception       *)
(* answers 500, and Razorpay delivers again.                               *)
(***************************************************************************)

HandlerDoes(h, from, to) ==
  /\ handler[h].at = from
  /\ handler' = [handler EXCEPT ![h].at = to]
  /\ UNCHANGED <<worker, world>>

\* Mutant: the exception is swallowed inside session_scope.
RaisesCommitting(h) ==
  /\ DB!Commit(h)
  /\ handler' = [handler EXCEPT ![h] = IdleHandler]
  /\ UNCHANGED worker
Raises(h) ==
  /\ DB!Rollback(h)
  /\ handler' = [handler EXCEPT ![h] = IdleHandler]
  /\ UNCHANGED worker

\* The answer 200, which may be lost.
Answers(h, event) ==
  /\ handler' = [handler EXCEPT ![h] = IdleHandler]
  /\ \/ unanswered' = unanswered \ {event} /\ UNCHANGED failures
     \/ Fails /\ UNCHANGED unanswered
  /\ UNCHANGED <<worker, sent, old, money, attempts>>

\* The delivery is in webhook_events already: skipped.
Duplicate(h, event) ==
  /\ event \in unanswered
  /\ handler[h].at = "idle"
  /\ DB!Sees(h, event) # "absent"
  /\ Answers(h, event)
  /\ UNCHANGED <<committed, pending>>

\* The signature does not verify, as after a change of the secret: the delivery
\* is recorded, and answered 200 like the others.
Reject(h) ==
  \E event \in unanswered :
    /\ handler[h].at = "idle"
    /\ DB!Sees(h, event) = "absent"
    /\ Fails
    /\ DB!Flush(h, event, "rejected")
    /\ handler' = [handler EXCEPT ![h].at = "finished", ![h].event = event]
    /\ UNCHANGED <<worker, unanswered, sent, old, money, attempts>>

\* A customer is looked up by Razorpay's id only; without one a row is inserted
\* every time.  Mutant: it is not looked up at all.
NeedsCustomerAlways(h, p) == ContactOf[p] # NoContact
NeedsCustomer(h, p) ==
  /\ ContactOf[p] # NoContact
  /\ p \in Registered => CustomerOf(h, p) # "registered"

\* Record the delivery, look for the customer, then for the payment.
Receive(h, event) ==
  LET p == event.payment
      needed == NeedsCustomer(h, p)
  IN  /\ event \in unanswered
      /\ handler[h].at = "idle"
      /\ DB!Sees(h, event) = "absent"
      /\ DB!Flush(h, event, "recorded")
      /\ handler' = [handler EXCEPT ![h] =
           [at |-> IF needed THEN "recorded" ELSE "known", event |-> event,
            status |-> "none",
            mirror |-> IF needed THEN "absent" ELSE MirrorOf(h, p)]]
      /\ UNCHANGED <<worker, world>>

InsertCustomer(h) ==
  LET p == handler[h].event.payment
  IN  /\ handler[h].at = "recorded"
      /\ CustomerOf(h, p) = "absent"
      /\ DB!Flush(h, CustomerKey(p),
                  IF p \in Registered THEN "registered" ELSE "anonymous")
      /\ handler' = [handler EXCEPT ![h].at = "known", ![h].mirror = MirrorOf(h, p)]
      /\ UNCHANGED <<worker, world>>

\* uq_customer_merchant_contact is violated.
CustomerConflicts(h) ==
  /\ handler[h].at = "recorded"
  /\ CustomerOf(h, handler[h].event.payment) # "absent"
  /\ Raises(h)
  /\ UNCHANGED world

StatusIn(event) == IF event.table = "payment.failed" THEN "failed" ELSE "captured"

\* _upsert_payment: the mirror takes the status of the event, whichever event
\* is the newer.  A column that has its value already is not written, and a
\* payment another session has inserted meanwhile violates the unique key.
UpsertPayment(h) ==
  LET p == handler[h].event.payment
      status == StatusIn(handler[h].event)
      read == handler[h].mirror
  IN  /\ HandlerDoes(h, "known", "upserted")
      /\ IF read = status
         THEN UNCHANGED <<committed, pending>>
         ELSE /\ read = "absent" => MirrorOf(h, p) = "absent"
              /\ DB!Flush(h, PaymentKey(p), status)

UpsertConflicts(h) ==
  LET p == handler[h].event.payment
  IN  /\ handler[h].at = "known"
      /\ handler[h].mirror = "absent"
      /\ MirrorOf(h, p) # "absent"
      /\ Raises(h)
      /\ UNCHANGED world

\* get_case_by_payment.
LookForCase(h) ==
  /\ handler[h].at = "upserted"
  /\ handler' = [handler EXCEPT ![h].at = "looked",
                   ![h].status = CaseOf(h, handler[h].event.payment).status]
  /\ UNCHANGED <<committed, pending, worker, world>>

\* "payment.failed -> exactly one case per payment."
NeedsCase(event, status) == event.table = "payment.failed" /\ status = "none"

OpenCase(h) ==
  /\ NeedsCase(handler[h].event, handler[h].status)
  /\ HandlerDoes(h, "looked", "finished")
  /\ DB!Flush(h, CaseKey(handler[h].event.payment), NewCase)

NothingToDo(h) ==
  /\ IF handler[h].event.table = "payment.failed"
     THEN handler[h].status # "none"
     ELSE handler[h].status = "none"
  /\ HandlerDoes(h, "looked", "finished")
  /\ UNCHANGED <<committed, pending>>

\* record_capture, by a webhook or by an executor.
\* Mutant: the amount is not written.
RecoveredUnbooked(row, outcome) ==
  [row EXCEPT !.status = "RECOVERED", !.outcome = outcome]
Recovered(row, outcome) ==
  [row EXCEPT !.status = "RECOVERED", !.outcome = outcome, !.booked = TRUE]

\* The capture heals the case, judged by the status the request has read; the
\* stamped diagnosis locks the row of a case that is RECOVERED already.
SelfHeal(h) ==
  LET p == handler[h].event.payment
      row == CaseOf(h, p)
  IN  /\ handler[h].event.table = "payment.captured"
      /\ handler[h].status # "none"
      /\ CanTransition(handler[h].status, "RECOVERED")
      /\ HandlerDoes(h, "looked", "finished")
      /\ DB!Flush(h, CaseKey(p), IF handler[h].status = "RECOVERED" THEN row
                                 ELSE Recovered(row, "SELF_HEALED"))

\* The FSM refuses: the case has ended without the money.
CaptureTooLate(h) ==
  /\ handler[h].at = "looked"
  /\ handler[h].event.table = "payment.captured"
  /\ handler[h].status # "none"
  /\ ~CanTransition(handler[h].status, "RECOVERED")
  /\ Raises(h)
  /\ UNCHANGED world

Finish(h) ==
  /\ handler[h].at = "finished"
  /\ DB!Commit(h)
  /\ Answers(h, handler[h].event)

HandlerFails(h) ==
  /\ handler[h].at # "idle"
  /\ Fails
  /\ Raises(h)
  /\ UNCHANGED <<unanswered, sent, old, money, attempts>>

-----------------------------------------------------------------------------
(***************************************************************************)
(* A tick of a worker: all the active cases in one transaction, the oldest *)
(* first.                                                                  *)
(***************************************************************************)

Claimable == ActiveStatuses

Claim(w) ==
  LET claimed == {p \in Payments : CaseOf(w, p).status \in Claimable}
  IN  /\ worker[w].at = "idle"
      /\ claimed # {}
      /\ worker' = [worker EXCEPT ![w] = [IdleWorker EXCEPT !.at = "claimed",
                                                           !.todo = claimed]]
      /\ UNCHANGED <<committed, pending, world, handler>>

\* load_case_full reads the case, then its payment, in two statements.  Nothing
\* is locked.
Load(w) ==
  \E p \in worker[w].todo :
    /\ worker[w].at = "claimed"
    /\ \A q \in worker[w].todo : CaseOf(w, p).created <= CaseOf(w, q).created
    /\ worker' = [worker EXCEPT ![w] =
         [at |-> "loading", todo |-> @.todo \ {p}, payment |-> p,
          status |-> CaseOf(w, p).status, mirror |-> "absent"]]
    /\ UNCHANGED <<committed, pending, world, handler>>

LoadPayment(w) ==
  /\ worker[w].at = "loading"
  /\ worker' = [worker EXCEPT ![w].at = "loaded",
                              ![w].mirror = MirrorOf(w, worker[w].payment)]
  /\ UNCHANGED <<committed, pending, world, handler>>

\* Nothing active: the worker sleeps for POLL_INTERVAL_S.
Sleep(w) ==
  /\ worker[w].at = "idle"
  /\ \A p \in Payments : CaseOf(w, p).status \notin Claimable
  /\ UNCHANGED vars

\* What was loaded of one case is not used for the next.
WorkerDoes(w, from, to) ==
  /\ worker[w].at = from
  /\ worker' = [worker EXCEPT ![w] =
       IF to = "claimed" THEN [IdleWorker EXCEPT !.at = to, !.todo = worker[w].todo]
       ELSE [@ EXCEPT !.at = to]]
  /\ UNCHANGED <<handler, sent, unanswered, old, failures>>

\* advance_case returns at once when the case it was given is terminal.
Skip(w) ==
  /\ IsTerminal(worker[w].status)
  /\ WorkerDoes(w, "loaded", "claimed")
  /\ UNCHANGED <<committed, pending, money, attempts>>

\* The first transition is flushed; its FSM check is on the status loaded.
Start(w) ==
  LET p == worker[w].payment
  IN  /\ ~IsTerminal(worker[w].status)
      /\ WorkerDoes(w, "loaded", "started")
      /\ DB!Flush(w, CaseKey(p), [CaseOf(w, p) EXCEPT !.status = "ANALYZING"])
      /\ UNCHANGED <<money, attempts>>

\* Where the policy and the table let an attempt through (Pipeline,
\* BlockedOnlyByAgeOrRunBudget): P01 and P02 judge the payment as loaded.
MayAttempt(w) ==
  LET p == worker[w].payment
  IN  p \notin Escalating \cup old /\ worker[w].mirror = "failed"

\* close_unrecovered.  Mutant: the case is left VERIFYING, to be claimed again.
UnrecoveredParks(row) == [row EXCEPT !.status = "VERIFYING"]
Unrecovered(row) == [row EXCEPT !.status = "CLOSED_UNRECOVERED",
                                !.outcome = "UNRECOVERED"]

\* S6, or a refusal: by P01 and P02, P11 (a case past 48 h may be past 72 h) or P12
\* (the run's budget).
EndWithoutAttempt(w) ==
  LET p == worker[w].payment
      row == CaseOf(w, p)
      captured == worker[w].mirror = "captured"
  IN  /\ WorkerDoes(w, "started", "claimed")
      /\ \/ /\ p \in old /\ ~captured
            /\ DB!Flush(w, CaseKey(p), Unrecovered(row))
         \/ /\ p \in old \/ p \notin Escalating \/ captured
            /\ DB!Flush(w, CaseKey(p), [row EXCEPT !.status = "BLOCKED"])
      /\ UNCHANGED <<money, attempts>>

\* The gateway is asked, and answers that the customer has paid, or not.
Attempt(w) ==
  LET p == worker[w].payment
      row == [CaseOf(w, p) EXCEPT !.actions = @ + 1]
  IN  /\ MayAttempt(w)
      /\ attempts' = [attempts EXCEPT ![p] = IF @ < CountLimit THEN @ + 1 ELSE @]
      /\ \/ /\ WorkerDoes(w, "started", "paid")
            /\ money' = money \cup {p}
            /\ DB!Flush(w, CaseKey(p), row)
         \/ /\ WorkerDoes(w, "started", "claimed")
            /\ UNCHANGED money
            /\ DB!Flush(w, CaseKey(p), Unrecovered(row))

\* Razorpay refuses the link.
LinkRefused(w) ==
  LET p == worker[w].payment
  IN  /\ MayAttempt(w)
      /\ WorkerDoes(w, "started", "claimed")
      /\ DB!Flush(w, CaseKey(p), [CaseOf(w, p) EXCEPT !.status = "FAILED",
                                                      !.actions = @ + 1])
      /\ UNCHANGED <<money, attempts>>

\* record_capture needs the payment's row besides the case's.
BookMoney(w) ==
  LET p == worker[w].payment
  IN  /\ WorkerDoes(w, "paid", "claimed")
      /\ ~DB!Blocked(w, PaymentKey(p))
      /\ pending' = [pending EXCEPT ![w] =
           DB!Written(DB!Written(@, CaseKey(p), Recovered(CaseOf(w, p), "RECOVERED")),
                      PaymentKey(p), "captured")]
      /\ UNCHANGED <<committed, money, attempts>>

TickEnds(w) ==
  /\ worker[w].todo = {}
  /\ worker[w].at = "claimed"
  /\ worker' = [worker EXCEPT ![w] = IdleWorker]
  /\ DB!Commit(w)
  /\ UNCHANGED <<handler, world>>

TickRaises(w) ==
  /\ DB!Rollback(w)
  /\ worker' = [worker EXCEPT ![w] = IdleWorker]
  /\ UNCHANGED <<handler, sent, unanswered, old, money, attempts>>

\* A case that waits for a human raises (Pipeline, CloseRaises), and takes the
\* other cases of the tick with it.
HumanNeeded(w) ==
  /\ worker[w].at = "started"
  /\ worker[w].payment \in Escalating \ old
  /\ worker[w].mirror = "failed"
  /\ TickRaises(w)
  /\ UNCHANGED failures

WorkerFails(w) ==
  /\ worker[w].at # "idle"
  /\ Fails
  /\ TickRaises(w)

-----------------------------------------------------------------------------
\* A request that holds the payment's row and wants the case's, and a tick that
\* holds the case's and wants the payment's: the database aborts one of them.
Deadlocked(w, h) ==
  /\ worker[w].at = "paid"
  /\ handler[h].at = "looked"
  /\ handler[h].event.payment = worker[w].payment
  /\ PaymentKey(worker[w].payment) \in DOMAIN pending[h]

BreakDeadlock(w, h) ==
  /\ Deadlocked(w, h)
  /\ \/ TickRaises(w) /\ UNCHANGED failures
     \/ Raises(h) /\ UNCHANGED world

\* The customer pays after all, and Razorpay says so.
CustomerPays(p) ==
  /\ p \in PaidLater \ money
  /\ money' = money \cup {p}
  /\ sent' = sent \cup {Webhook("payment.captured", p)}
  /\ unanswered' = unanswered \cup {Webhook("payment.captured", p)}
  /\ UNCHANGED <<committed, pending, old, attempts, failures, worker, handler>>

GrowOld(p) ==
  /\ p \notin old
  /\ old' = old \cup {p}
  /\ UNCHANGED <<committed, pending, unanswered, sent, money, attempts, failures,
                 worker, handler>>

HandlerStep(h) ==
  \/ \E event \in Webhooks : Duplicate(h, event) \/ Receive(h, event)
  \/ InsertCustomer(h) \/ CustomerConflicts(h)
  \/ UpsertPayment(h) \/ UpsertConflicts(h)
  \/ LookForCase(h) \/ OpenCase(h) \/ NothingToDo(h) \/ SelfHeal(h)
  \/ CaptureTooLate(h) \/ Finish(h)
WorkerStep(w) ==
  \/ Claim(w) \/ Load(w) \/ LoadPayment(w) \/ Skip(w) \/ Start(w)
  \/ EndWithoutAttempt(w) \/ Attempt(w) \/ LinkRefused(w) \/ BookMoney(w) \/ TickEnds(w)
  \/ HumanNeeded(w)

Next ==
  \/ \E h \in Handlers : HandlerStep(h) \/ HandlerFails(h) \/ Reject(h)
  \/ \E w \in Workers : WorkerStep(w) \/ WorkerFails(w) \/ Sleep(w)
  \/ \E w \in Workers, h \in Handlers : BreakDeadlock(w, h)
  \/ \E p \in Payments : CustomerPays(p) \/ GrowOld(p)

Spec == Init /\ [][Next]_vars

\* Requests and ticks keep going; a row lock is granted to those who wait for
\* it in turn; the database breaks deadlocks; time passes; Razorpay delivers
\* again until it is answered, and captures do not crowd the failures out.
FairSpec ==
  /\ Spec
  /\ \A h \in Handlers : SF_vars(HandlerStep(h))
  /\ SF_vars(\E h \in Handlers, p \in Payments :
               Receive(h, Webhook("payment.failed", p)))
  /\ \A w \in Workers : SF_vars(WorkerStep(w))
  /\ \A w \in Workers, h \in Handlers : WF_vars(BreakDeadlock(w, h))
  /\ \A p \in Payments : WF_vars(GrowOld(p))
-----------------------------------------------------------------------------
(***************************************************************************)
(* Properties.                                                             *)
(***************************************************************************)

\* A case is RECOVERED only when the money has come in and is booked on it
\* (verification/service.py: "Capture is the only source of truth for
\* RECOVERED"), although two sessions may overwrite each other's columns.
RecoveredMeansPaid ==
  \A p \in Payments :
    committed[CaseKey(p)].status = "RECOVERED" =>
      /\ p \in money
      /\ committed[CaseKey(p)].booked
      /\ committed[CaseKey(p)].outcome \in {"RECOVERED", "SELF_HEALED"}

\* A webhook that got its 200 is in the ledger, and a failure whose signature
\* verified has its case and its customer: whatever order, loss, repetition or
\* crash, no failed payment that was accepted is forgotten.
AcceptedFailureHasCase ==
  /\ \A e \in sent \ unanswered : committed[e] # "absent"
  /\ \A p \in Payments :
       committed[Webhook("payment.failed", p)] = "recorded" =>
         /\ committed[CaseKey(p)].status # "none"
         /\ ContactOf[p] # NoContact => committed[CustomerKey(p)] # "absent"

\* No case is attempted twice by ticks that commit (FAILURE_HANDLING.md 11:
\* "Duplicate retry race (two workers)": the loser exits cleanly).
AttemptedOnce == \A p \in Payments : committed[CaseKey(p)].actions <= 1

\* Every case that is opened ends, although a case that needs a human makes
\* every tick it is in raise, until it is 48 h old.
EveryCaseEnds ==
  \A p \in Payments :
    committed[CaseKey(p)].status \in ActiveStatuses
      ~> IsTerminal(committed[CaseKey(p)].status)

\* Every failed payment gets its case in the end: deliveries that conflict over the
\* customer or the payment, fail, or lose their answer come again, and one of them
\* goes through.  One stored as rejected opens no case, now or later.  It needs
\* Razorpay's customer ids (see CaptureHealsCase).
EveryFailureGetsItsCase ==
  <>(\A p \in Payments :
       committed[Webhook("payment.failed", p)] # "rejected" =>
         committed[CaseKey(p)].status # "none")

-----------------------------------------------------------------------------
(***************************************************************************)
(* What docs say and the code does not do.                                 *)
(***************************************************************************)

\* FAILURE_HANDLING.md 7: "captured arrives while case active" -> "verification
\* closes case SELF_HEALED / RECOVERED"; here, while no worker interferes.
CaptureHealsCase ==
  \A p \in Payments :
    /\ Webhook("payment.captured", p) \in unanswered
    /\ committed[CaseKey(p)].status \in ActiveStatuses
    ~> committed[CaseKey(p)].status = "RECOVERED"

\* TESTING.md 36: "restart -> no duplicate charge (idempotency), case converges".
ReplaysConverge == \A p \in Payments : attempts[p] <= 1
=============================================================================
