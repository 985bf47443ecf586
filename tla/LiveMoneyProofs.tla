-------------------------- MODULE LiveMoneyProofs --------------------------
(***************************************************************************)
(* Proofs about LiveRecovery: a case is RECOVERED only with its money, and *)
(* one worker attempts it once.  Any session may write any case, over      *)
(* columns another has just committed; but whoever writes RECOVERED writes *)
(* the amount and the outcome with it, and knows of the money.  What the   *)
(* rows look like is the invariant of LiveProofs.                          *)
(***************************************************************************)
EXTENDS LiveProofs

PaidRow(p, row, funds) ==
  /\ DOMAIN row = {"status", "outcome", "booked", "actions", "created"}
  /\ row.status = "RECOVERED" =>
       p \in funds /\ row.booked /\ row.outcome \in {"RECOVERED", "SELF_HEALED"}

CasesPaid ==
  /\ \A p \in Payments : PaidRow(p, committed[CaseKey(p)], money)
  /\ \A s \in AllSessions : \A p \in Payments :
       CaseKey(p) \in DOMAIN pending[s] => PaidRow(p, pending[s][CaseKey(p)], money)

\* Who knows of the money: a capture that was sent, and a worker that was told.
MoneyKnown ==
  /\ unanswered \subseteq sent
  /\ \A p \in Payments : Webhook("payment.captured", p) \in sent => p \in money
  /\ \A h \in Handlers : handler[h].at # "idle" => handler[h].event \in sent
  /\ \A w \in Workers : worker[w].at = "paid" => worker[w].payment \in money

MoneyInv == AcceptedInv /\ CasesPaid /\ MoneyKnown

LEMMA CaseKeys == \A p, q \in Payments : CaseKey(p) = CaseKey(q) => p = q
  BY DEF CaseKey

LEMMA CasesPaidSeen ==
  ASSUME CasesPaid, NEW s \in AllSessions, NEW p \in Payments
  PROVE  PaidRow(p, CaseOf(s, p), money)
  BY DEF CasesPaid, CaseOf, DB!Sees

LEMMA FlushPaid ==
  ASSUME RowsOK, CasesPaid, NEW s \in AllSessions, NEW k \in Keys, NEW row,
         DB!Flush(s, k, row), money \subseteq money',
         \A p \in Payments : k = CaseKey(p) => PaidRow(p, row, money')
  PROVE  CasesPaid'
<1>1. /\ committed' = committed
      /\ pending' = [pending EXCEPT ![s] = DB!Written(pending[s], k, row)]
  BY DEF DB!Flush
<1>2. /\ pending'[s] = DB!Written(pending[s], k, row)
      /\ \A t \in AllSessions \ {s} : pending'[t] = pending[t]
  BY <1>1 DEF RowsOK
<1> QED
  BY <1>1, <1>2 DEF CasesPaid, PaidRow, DB!Written

LEMMA FlushOther ==
  ASSUME RowsOK, CasesPaid, NEW s \in AllSessions, NEW k \in Keys, NEW row,
         DB!Flush(s, k, row), money' = money, k.table # "cases"
  PROVE  CasesPaid'
<1>1. \A p \in Payments : k # CaseKey(p)
  BY KeyFacts
<1> QED
  BY <1>1, FlushPaid

LEMMA FlushCase ==
  ASSUME RowsOK, CasesPaid, NEW s \in AllSessions, NEW p \in Payments, NEW row,
         DB!Flush(s, CaseKey(p), row), money \subseteq money', PaidRow(p, row, money')
  PROVE  CasesPaid'
  BY KeyFacts, CaseKeys, FlushPaid

LEMMA NoWritePaid ==
  ASSUME RowsOK, CasesPaid, NEW s \in AllSessions, money \subseteq money',
         UNCHANGED <<committed, pending>> \/ DB!Commit(s) \/ DB!Rollback(s)
  PROVE  CasesPaid'
<1>1. CASE UNCHANGED <<committed, pending>>
  BY <1>1 DEF CasesPaid, PaidRow
<1>2. CASE DB!Commit(s)
  <2>1. /\ \A p \in Payments : committed'[CaseKey(p)] = CaseOf(s, p)
        /\ pending'[s] = DB!NoWrites
        /\ \A t \in AllSessions \ {s} : pending'[t] = pending[t]
    BY <1>2, KeyFacts DEF DB!Commit, RowsOK, CaseOf
  <2> QED
    BY <2>1, CasesPaidSeen DEF CasesPaid, PaidRow, DB!NoWrites
<1>3. CASE DB!Rollback(s)
  <2>1. /\ committed' = committed /\ pending'[s] = DB!NoWrites
        /\ \A t \in AllSessions \ {s} : pending'[t] = pending[t]
    BY <1>3 DEF DB!Rollback, RowsOK
  <2> QED
    BY <2>1 DEF CasesPaid, PaidRow, DB!NoWrites
<1> QED
  BY <1>1, <1>2, <1>3

LEMMA RequestKnows ==
  ASSUME MoneyInv, NEW h \in Handlers, UNCHANGED <<worker, sent, money>>,
         unanswered' \subseteq unanswered,
         NEW next, handler' = [handler EXCEPT ![h] = next],
         next.at = "idle" \/ next.event \in sent
  PROVE  MoneyKnown'
  BY DEF MoneyInv, MoneyKnown, AcceptedInv, HandlersOK

LEMMA RequestPays ==
  ASSUME MoneyInv, NEW h \in Handlers,
         HandlerStep(h) \/ HandlerFails(h) \/ Reject(h)
  PROVE  CasesPaid' /\ MoneyKnown'
<1> DEFINE event == handler[h].event
           p == event.payment
<1>0. /\ RowsOK /\ CasesPaid /\ MoneyKnown /\ HandlerOK(h) /\ h \in AllSessions
      /\ handler = [g \in Handlers |-> handler[g]]
      /\ DOMAIN handler[h] = {"at", "event", "status", "mirror"}
  BY DEF MoneyInv, AcceptedInv, HandlersOK, HandlerOK, AllSessions
<1>1. IdleHandler.at = "idle"
  BY DEF IdleHandler
<1>2. ASSUME Raises(h), UNCHANGED <<sent, money, unanswered>>
      PROVE  CasesPaid' /\ MoneyKnown'
  BY <1>0, <1>1, <1>2, RequestKnows, NoWritePaid DEF Raises
<1>3. ASSUME NEW e \in Webhooks, Duplicate(h, e) PROVE CasesPaid' /\ MoneyKnown'
  <2>1. /\ UNCHANGED <<committed, pending, worker, sent, money>>
        /\ unanswered' \subseteq unanswered
        /\ handler' = [handler EXCEPT ![h] = IdleHandler]
    BY <1>3 DEF Duplicate, Answers
  <2> QED
    BY <1>0, <1>1, <2>1, RequestKnows, NoWritePaid
<1>4. ASSUME NEW e \in Webhooks, Receive(h, e) PROVE CasesPaid' /\ MoneyKnown'
  <2> DEFINE next ==
        [at |-> IF NeedsCustomer(h, e.payment) THEN "recorded" ELSE "known", event |-> e,
         status |-> "none",
         mirror |-> IF NeedsCustomer(h, e.payment) THEN "absent" ELSE MirrorOf(h, e.payment)]
  <2>1. /\ DB!Flush(h, e, "recorded") /\ handler' = [handler EXCEPT ![h] = next]
        /\ UNCHANGED <<worker, sent, unanswered, money>> /\ e \in unanswered
    BY <1>4 DEF Receive, world
  <2>2. next.event = e /\ e \in sent
    BY <1>0, <2>1 DEF MoneyKnown
  <2>3. e \in Keys /\ e.table # "cases"
    BY WebhookFacts
  <2> HIDE DEF next
  <2> QED
    BY <1>0, <2>1, <2>2, <2>3, RequestKnows, FlushOther
<1>5. CASE Reject(h)
  <2>1. PICK e \in unanswered :
          /\ DB!Flush(h, e, "rejected")
          /\ handler' = [handler EXCEPT ![h].at = "finished", ![h].event = e]
          /\ UNCHANGED <<worker, sent, unanswered, money>>
    BY <1>5 DEF Reject
  <2> DEFINE next == [handler[h] EXCEPT !.at = "finished", !.event = e]
  <2>2. handler' = [handler EXCEPT ![h] = next] /\ next.event = e
    BY <1>0, <2>1
  <2>3. e \in Keys /\ e.table # "cases" /\ e \in sent
    BY <1>0, WebhookFacts DEF MoneyInv, AcceptedInv, MoneyKnown
  <2> HIDE DEF next
  <2> QED
    BY <1>0, <2>1, <2>2, <2>3, RequestKnows, FlushOther
<1>6. CASE Finish(h)
  <2>1. /\ DB!Commit(h) /\ UNCHANGED <<worker, sent, money>>
        /\ unanswered' \subseteq unanswered
        /\ handler' = [handler EXCEPT ![h] = IdleHandler]
    BY <1>6 DEF Finish, Answers
  <2> QED
    BY <1>0, <1>1, <2>1, RequestKnows, NoWritePaid
<1>7. ASSUME handler[h].at # "idle", UNCHANGED <<worker, sent, money, unanswered>>,
             NEW next, handler' = [handler EXCEPT ![h] = next], next.event = event
      PROVE  MoneyKnown'
  BY <1>0, <1>7, RequestKnows DEF MoneyKnown
<1>8. CASE InsertCustomer(h)
  <2> DEFINE next == [handler[h] EXCEPT !.at = "known", !.mirror = MirrorOf(h, p)]
  <2>1. /\ handler[h].at = "recorded" /\ handler' = [handler EXCEPT ![h] = next]
        /\ UNCHANGED <<worker, sent, unanswered, money>>
        /\ \E row : DB!Flush(h, CustomerKey(p), row)
    BY <1>0, <1>8 DEF InsertCustomer, world
  <2>2. next.event = event
    BY <1>0
  <2>3. CustomerKey(p) \in Keys /\ CustomerKey(p).table # "cases"
    BY <1>0, <2>1, WebhookFacts, KeyFacts DEF HandlerOK, Progress
  <2> HIDE DEF next
  <2> QED
    BY <1>0, <1>7, <2>1, <2>2, <2>3, FlushOther
<1>9. CASE UpsertPayment(h)
  <2> DEFINE next == [handler[h] EXCEPT !.at = "upserted"]
  <2>1. /\ handler[h].at = "known" /\ handler' = [handler EXCEPT ![h] = next]
        /\ UNCHANGED <<worker, sent, unanswered, money>>
        /\ \/ UNCHANGED <<committed, pending>>
           \/ DB!Flush(h, PaymentKey(p), StatusIn(event))
    BY <1>0, <1>9 DEF UpsertPayment, HandlerDoes, world
  <2>2. next.event = event
    BY <1>0
  <2>3. PaymentKey(p) \in Keys /\ PaymentKey(p).table # "cases"
    BY <1>0, <2>1, WebhookFacts, KeyFacts DEF HandlerOK
  <2> HIDE DEF next
  <2> QED
    BY <1>0, <1>7, <2>1, <2>2, <2>3, FlushOther, NoWritePaid
<1>10. CASE LookForCase(h) \/ NothingToDo(h)
  <2>1. PICK next :
          /\ handler[h].at # "idle" /\ handler' = [handler EXCEPT ![h] = next]
          /\ next.event = event
          /\ UNCHANGED <<committed, pending, worker, sent, unanswered, money>>
    <3>1. CASE LookForCase(h)
      <4> DEFINE next == [handler[h] EXCEPT !.at = "looked", !.status = CaseOf(h, p).status]
      <4>1. next.event = event /\ handler' = [handler EXCEPT ![h] = next]
        BY <1>0, <3>1 DEF LookForCase
      <4> QED
        BY <3>1, <4>1 DEF LookForCase, world
    <3>2. CASE NothingToDo(h)
      <4> DEFINE next == [handler[h] EXCEPT !.at = "finished"]
      <4>1. next.event = event /\ handler' = [handler EXCEPT ![h] = next]
        BY <1>0, <3>2 DEF NothingToDo, HandlerDoes
      <4> QED
        BY <3>2, <4>1 DEF NothingToDo, HandlerDoes, world
    <3> QED
      BY <1>10, <3>1, <3>2
  <2> QED
    BY <1>0, <1>7, <2>1, NoWritePaid
<1>11. CASE OpenCase(h) \/ SelfHeal(h)
  <2> DEFINE next == [handler[h] EXCEPT !.at = "finished"]
             row == CaseOf(h, p)
  <2>1. /\ handler[h].at = "looked" /\ handler' = [handler EXCEPT ![h] = next]
        /\ UNCHANGED <<worker, sent, unanswered, money>>
    BY <1>0, <1>11 DEF OpenCase, SelfHeal, HandlerDoes, world
  <2>2. next.event = event
    BY <1>0
  <2>3. p \in Payments /\ event \in sent /\ event = Webhook(event.table, p)
    BY <1>0, <2>1, WebhookFacts DEF HandlerOK, MoneyKnown
  <2>4. PaidRow(p, NewCase, money)
    BY DEF PaidRow, NewCase, NoCase
  <2>5. SelfHeal(h) => p \in money
    BY <1>0, <2>3 DEF SelfHeal, MoneyKnown
  <2>6. PaidRow(p, row, money)
    BY <1>0, <2>3, CasesPaidSeen
  <2>7. SelfHeal(h) => PaidRow(p, Recovered(row, "SELF_HEALED"), money)
    BY <2>5, <2>6 DEF PaidRow, Recovered
  <2>8. \E new : DB!Flush(h, CaseKey(p), new) /\ PaidRow(p, new, money)
    BY <1>11, <2>4, <2>6, <2>7 DEF OpenCase, SelfHeal
  <2>9. CasesPaid'
    BY <1>0, <2>1, <2>3, <2>8, FlushCase
  <2> HIDE DEF next
  <2> QED
    BY <1>7, <2>1, <2>2, <2>9
<1>12. CASE CustomerConflicts(h) \/ UpsertConflicts(h) \/ CaptureTooLate(h) \/ HandlerFails(h)
  BY <1>2, <1>12 DEF CustomerConflicts, UpsertConflicts, CaptureTooLate, HandlerFails, world
<1> QED
  BY <1>3, <1>4, <1>5, <1>6, <1>8, <1>9, <1>10, <1>11, <1>12 DEF HandlerStep

LEMMA WorkerKnows ==
  ASSUME MoneyInv, NEW w \in Workers, UNCHANGED <<handler, sent, unanswered>>,
         money \subseteq money',
         NEW next, worker' = [worker EXCEPT ![w] = next],
         next.at = "paid" => next.payment \in money'
  PROVE  MoneyKnown'
  BY DEF MoneyInv, MoneyKnown, AcceptedInv, WorkersOK

LEMMA WorkerPays ==
  ASSUME MoneyInv, NEW w \in Workers, WorkerStep(w) \/ WorkerFails(w)
  PROVE  CasesPaid' /\ MoneyKnown'
<1> DEFINE p == worker[w].payment
           row == CaseOf(w, p)
<1>0. /\ AcceptedInv /\ RowsOK /\ CasesPaid /\ MoneyKnown /\ WorkerOK(w) /\ w \in AllSessions
      /\ worker = [v \in Workers |-> worker[v]]
  BY DEF MoneyInv, AcceptedInv, WorkersOK, AllSessions
<1>1. IdleWorker.at = "idle"
  BY DEF IdleWorker
<1>2. CASE Claim(w) \/ Load(w) \/ LoadPayment(w)
  <2>1. worker' = [worker EXCEPT ![w] = worker'[w]] /\ worker'[w].at # "paid"
    <3>1. CASE Claim(w)
      BY <1>0, <3>1 DEF Claim, IdleWorker
    <3>2. CASE Load(w)
      BY <1>0, <3>2 DEF Load
    <3>3. CASE LoadPayment(w)
      BY <1>0, <3>3 DEF LoadPayment, WorkerOK
    <3> QED
      BY <1>2, <3>1, <3>2, <3>3
  <2>2. UNCHANGED <<committed, pending, handler, sent, unanswered, money>>
    BY <1>2 DEF Claim, Load, LoadPayment, world
  <2> QED
    BY <1>0, <2>1, <2>2, WorkerKnows, NoWritePaid
<1>3. CASE TickEnds(w)
  <2>1. /\ DB!Commit(w) /\ UNCHANGED <<handler, sent, unanswered, money>>
        /\ worker' = [worker EXCEPT ![w] = IdleWorker]
    BY <1>3 DEF TickEnds, world
  <2> QED
    BY <1>0, <1>1, <2>1, WorkerKnows, NoWritePaid
<1>4. CASE HumanNeeded(w) \/ WorkerFails(w)
  <2>1. /\ DB!Rollback(w) /\ UNCHANGED <<handler, sent, unanswered, money>>
        /\ worker' = [worker EXCEPT ![w] = IdleWorker]
    BY <1>4 DEF HumanNeeded, WorkerFails, TickRaises
  <2> QED
    BY <1>0, <1>1, <2>1, WorkerKnows, NoWritePaid
<1>5. ASSUME NEW from \in {"loaded", "started", "paid"},
             NEW to \in {"started", "paid", "claimed"}, WorkerDoes(w, from, to),
             money \subseteq money', to = "paid" => p \in money'
      PROVE  MoneyKnown' /\ p \in Payments
  <2>1. /\ p \in Payments /\ worker' = [worker EXCEPT ![w] = After(w, to)]
        /\ After(w, to).at = to
        /\ After(w, to).payment = p \/ After(w, to).at = "claimed"
        /\ UNCHANGED <<handler, sent, unanswered>>
    BY <1>0, <1>5, WorkerGoesTo
  <2> QED
    BY <1>5, <2>1, WorkerKnows
<1>6. CASE Skip(w)
  BY <1>0, <1>5, <1>6, NoWritePaid DEF Skip
<1>7. p \in Payments => PaidRow(p, row, money)
  BY <1>0, CasesPaidSeen
<1>8. ASSUME PaidRow(p, row, money)
      PROVE  \A status \in {"ANALYZING", "BLOCKED"} :
               PaidRow(p, [row EXCEPT !.status = status], money)
  BY <1>8 DEF PaidRow
<1>9. ASSUME PaidRow(p, row, money) PROVE PaidRow(p, Unrecovered(row), money)
  BY <1>9 DEF PaidRow, Unrecovered
<1>10. CASE Start(w)
  <2>1. /\ WorkerDoes(w, "loaded", "started") /\ money' = money
        /\ DB!Flush(w, CaseKey(p), [row EXCEPT !.status = "ANALYZING"])
    BY <1>10 DEF Start
  <2>2. MoneyKnown' /\ p \in Payments
    BY <1>5, <2>1
  <2> QED
    BY <1>0, <1>7, <1>8, <2>1, <2>2, FlushCase
<1>11. CASE EndWithoutAttempt(w)
  <2>1. /\ WorkerDoes(w, "started", "claimed") /\ money' = money
        /\ \/ DB!Flush(w, CaseKey(p), Unrecovered(row))
           \/ DB!Flush(w, CaseKey(p), [row EXCEPT !.status = "BLOCKED"])
    BY <1>11 DEF EndWithoutAttempt
  <2>2. MoneyKnown' /\ p \in Payments
    BY <1>5, <2>1
  <2> QED
    BY <1>0, <1>7, <1>8, <1>9, <2>1, <2>2, FlushCase
<1>12. CASE Attempt(w)
  <2> DEFINE new == [row EXCEPT !.actions = @ + 1]
  <2>1. \/ /\ WorkerDoes(w, "started", "paid") /\ money' = money \cup {p}
           /\ DB!Flush(w, CaseKey(p), new)
        \/ /\ WorkerDoes(w, "started", "claimed") /\ money' = money
           /\ DB!Flush(w, CaseKey(p), Unrecovered(new))
    BY <1>12 DEF Attempt
  <2>2. MoneyKnown' /\ p \in Payments
    BY <1>5, <2>1
  <2>3. PaidRow(p, new, money')
    BY <1>7, <2>1, <2>2 DEF PaidRow
  <2>4. PaidRow(p, Unrecovered(new), money')
    BY <2>3 DEF PaidRow, Unrecovered
  <2> HIDE DEF new
  <2> QED
    BY <1>0, <2>1, <2>2, <2>3, <2>4, FlushCase
<1>13. CASE LinkRefused(w)
  <2> DEFINE new == [row EXCEPT !.status = "FAILED", !.actions = @ + 1]
  <2>1. /\ WorkerDoes(w, "started", "claimed") /\ money' = money
        /\ DB!Flush(w, CaseKey(p), new)
    BY <1>13 DEF LinkRefused
  <2>2. MoneyKnown' /\ p \in Payments
    BY <1>5, <2>1
  <2>3. PaidRow(p, new, money)
    BY <1>7, <2>2 DEF PaidRow
  <2> HIDE DEF new
  <2> QED
    BY <1>0, <2>1, <2>2, <2>3, FlushCase
<1>14. CASE BookMoney(w)
  <2> DEFINE new == Recovered(row, "RECOVERED")
             both == DB!Written(DB!Written(pending[w], CaseKey(p), new),
                                PaymentKey(p), "captured")
  <2>1. /\ WorkerDoes(w, "paid", "claimed") /\ money' = money /\ committed' = committed
        /\ pending' = [pending EXCEPT ![w] = both] /\ p \in money
    BY <1>0, <1>14 DEF BookMoney, WorkerDoes, MoneyKnown
  <2>2. MoneyKnown' /\ p \in Payments
    BY <1>5, <2>1
  <2>3. PICK q \in Payments : q = p
    BY <2>2
  <2>4. PaidRow(q, new, money)
    BY <1>7, <2>1, <2>3 DEF PaidRow, Recovered
  <2> HIDE DEF new
  <2>5. /\ pending'[w] = both /\ \A t \in AllSessions \ {w} : pending'[t] = pending[t]
    BY <1>0, <2>1 DEF RowsOK
  <2>6. \A r \in Payments :
          /\ CaseKey(r) \in DOMAIN both => r = q \/ CaseKey(r) \in DOMAIN pending[w]
          /\ both[CaseKey(q)] = new
          /\ CaseKey(r) \in DOMAIN both /\ r # q => both[CaseKey(r)] = pending[w][CaseKey(r)]
    BY <2>3, KeyFacts, CaseKeys DEF DB!Written
  <2> HIDE DEF both
  <2>7. CasesPaid'
    BY <1>0, <2>1, <2>4, <2>5, <2>6 DEF CasesPaid
  <2> QED
    BY <2>2, <2>7
<1> QED
  BY <1>2, <1>3, <1>4, <1>6, <1>10, <1>11, <1>12, <1>13, <1>14 DEF WorkerStep

LEMMA MoneyInit == Init => MoneyInv
<1> SUFFICES ASSUME Init PROVE MoneyInv
  OBVIOUS
<1>1. AcceptedInv
  BY InitHolds
<1>2. \A p \in Payments : committed[CaseKey(p)] = NoCase
  BY KeyFacts DEF Init
<1>3. \A s \in AllSessions : DOMAIN pending[s] = {}
  BY DEF Init, AllSessions, DB!NoWrites
<1>4. \A p \in Payments : PaidRow(p, NoCase, money)
  BY DEF PaidRow, NoCase
<1>5. CasesPaid
  BY <1>2, <1>3, <1>4 DEF CasesPaid
<1>6. \A p \in Payments : Webhook("payment.captured", p) \notin sent
  BY DEF Init, Webhook
<1>7. MoneyKnown
  BY <1>6 DEF Init, MoneyKnown, IdleHandler, IdleWorker
<1> QED
  BY <1>1, <1>5, <1>7 DEF MoneyInv

LEMMA MoneyNext == MoneyInv /\ [Next]_vars => MoneyInv'
<1> SUFFICES ASSUME MoneyInv, [Next]_vars PROVE CasesPaid' /\ MoneyKnown'
  BY NextKeeps DEF MoneyInv
<1>0. RowsOK /\ CasesPaid /\ MoneyKnown
  BY DEF MoneyInv, AcceptedInv
<1>1. ASSUME NEW h \in Handlers, HandlerStep(h) \/ HandlerFails(h) \/ Reject(h)
      PROVE  CasesPaid' /\ MoneyKnown'
  BY <1>1, RequestPays
<1>2. ASSUME NEW w \in Workers, WorkerStep(w) \/ WorkerFails(w)
      PROVE  CasesPaid' /\ MoneyKnown'
  BY <1>2, WorkerPays
<1>3. ASSUME NEW w \in Workers, NEW h \in Handlers, BreakDeadlock(w, h)
      PROVE  CasesPaid' /\ MoneyKnown'
  <2>1. CASE TickRaises(w) /\ UNCHANGED failures
    <3>1. w \in AllSessions /\ IdleWorker.at = "idle"
      BY DEF AllSessions, IdleWorker
    <3> QED
      BY <1>0, <2>1, <3>1, WorkerKnows, NoWritePaid DEF TickRaises
  <2>2. CASE Raises(h) /\ UNCHANGED world
    <3>1. h \in AllSessions /\ IdleHandler.at = "idle"
      BY DEF AllSessions, IdleHandler
    <3> QED
      BY <1>0, <2>2, <3>1, RequestKnows, NoWritePaid DEF Raises, world
  <2> QED
    BY <1>3, <2>1, <2>2 DEF BreakDeadlock
<1>4. CASE UNCHANGED <<committed, pending, handler, worker, sent, unanswered, money>>
  BY <1>0, <1>4 DEF CasesPaid, MoneyKnown
<1>5. ASSUME NEW p \in Payments, CustomerPays(p) PROVE CasesPaid' /\ MoneyKnown'
  <2>1. /\ UNCHANGED <<committed, pending, handler, worker>>
        /\ money' = money \cup {p}
        /\ sent' = sent \cup {Webhook("payment.captured", p)}
        /\ unanswered' = unanswered \cup {Webhook("payment.captured", p)}
    BY <1>5 DEF CustomerPays
  <2>2. CasesPaid'
    BY <1>0, <2>1 DEF CasesPaid, PaidRow
  <2>3. \A q \in Payments : Webhook("payment.captured", q) \in sent' => q \in money'
    BY <1>0, <2>1 DEF MoneyKnown, Webhook
  <2> QED
    BY <1>0, <2>1, <2>2, <2>3 DEF MoneyKnown
<1>6. ASSUME NEW p \in Payments, GrowOld(p) PROVE CasesPaid' /\ MoneyKnown'
  BY <1>4, <1>6 DEF GrowOld
<1>7. ASSUME NEW w \in Workers, Sleep(w) PROVE CasesPaid' /\ MoneyKnown'
  BY <1>4, <1>7 DEF Sleep, vars, world
<1>8. CASE UNCHANGED vars
  BY <1>4, <1>8 DEF vars, world
<1> QED
  BY <1>1, <1>2, <1>3, <1>5, <1>6, <1>7, <1>8 DEF Next

\* RECOVERED means that the money came in and is booked (record_capture in
\* app/verification/service.py), for any number of sessions that write the same
\* cases over each other.
THEOREM MoneyIsReal == Spec => []RecoveredMeansPaid
<1>1. MoneyInv => RecoveredMeansPaid
  BY DEF MoneyInv, CasesPaid, PaidRow, RecoveredMeansPaid
<1> QED
  BY <1>1, MoneyInit, MoneyNext, PTL DEF Spec

-----------------------------------------------------------------------------
(***************************************************************************)
(* One worker attempts a case once.  The reads of a tick are not locked:   *)
(* between the load of a case and its first flush a request may commit the *)
(* same row.  But a request does not count attempts, a case whose attempt  *)
(* was counted has ended, and only another worker could count one between  *)
(* the load and the flush (doc_two_workers).                               *)
(***************************************************************************)

OneWorker == \A v, w \in Workers : v = w

\* A written row is locked until its session ends.
Locked == \A s, t \in AllSessions : s # t => DOMAIN pending[s] \cap DOMAIN pending[t] = {}

\* A counted attempt has ended the case.
Counted(row) ==
  /\ row.actions \in {0, 1}
  /\ row.actions = 1 => IsTerminal(row.status)

\* The gateway has answered, and the result is not flushed yet.
Paying(s, p) ==
  /\ s \in Workers /\ worker[s].at = "paid" /\ worker[s].payment = p
  /\ pending[s][CaseKey(p)].actions = 1

CasesCounted ==
  /\ \A p \in Payments : Counted(committed[CaseKey(p)])
  /\ \A s \in AllSessions : \A p \in Payments :
       CaseKey(p) \in DOMAIN pending[s] =>
         Counted(pending[s][CaseKey(p)]) \/ Paying(s, p)

\* A request copies the count of the row it rewrites.
CountsCopied ==
  \A h \in Handlers : \A p \in Payments :
    CaseKey(p) \in DOMAIN pending[h] =>
      pending[h][CaseKey(p)].actions \in {0, committed[CaseKey(p)].actions}

\* What a worker is about to attempt was not attempted before.
Fresh(w) ==
  /\ worker[w].at \in {"loading", "loaded", "started"} /\ ~IsTerminal(worker[w].status)
       => CaseOf(w, worker[w].payment).actions = 0
  /\ worker[w].at = "started" => ~IsTerminal(worker[w].status)
  /\ worker[w].at = "paid" => Paying(w, worker[w].payment)

OnceInv == /\ MoneyInv /\ Locked /\ CasesCounted /\ CountsCopied
           /\ \A w \in Workers : Fresh(w)

\* What a step of a session writes, as far as locks and cases are concerned.
LEMMA StaysLocked ==
  ASSUME Locked, NEW s \in AllSessions, OthersKeepWrites(s),
         \A k \in DOMAIN pending'[s] \ DOMAIN pending[s] : ~DB!Blocked(s, k)
  PROVE  Locked'
<1>1. ASSUME NEW t \in AllSessions \ {s}
      PROVE  DOMAIN pending'[s] \cap DOMAIN pending'[t] = {}
  <2>1. pending'[t] = pending[t] /\ DOMAIN pending[s] \cap DOMAIN pending[t] = {}
    BY DEF OthersKeepWrites, Locked
  <2>2. \A k \in DOMAIN pending'[s] \ DOMAIN pending[s] : k \notin DOMAIN pending[t]
    BY DEF DB!Blocked, AllSessions
  <2> QED
    BY <2>1, <2>2
<1>2. ASSUME NEW t \in AllSessions \ {s}, NEW u \in AllSessions \ {s}, t # u
      PROVE  DOMAIN pending'[t] \cap DOMAIN pending'[u] = {}
  BY <1>2 DEF OthersKeepWrites, Locked
<1> QED
  BY <1>1, <1>2 DEF Locked

LEMMA CaseSeenCounted ==
  ASSUME CasesCounted, NEW s \in AllSessions, NEW p \in Payments
  PROVE  Counted(CaseOf(s, p)) \/ Paying(s, p)
  BY DEF CasesCounted, CaseOf, DB!Sees

\* A case is committed only by the session that holds its lock.
LEMMA CommitCounted ==
  ASSUME OnceInv, NEW s \in AllSessions, DB!Commit(s), \A p \in Payments : ~Paying(s, p),
         \A v \in Workers \ {s} : worker'[v] = worker[v]
  PROVE  Locked' /\ CasesCounted' /\ CountsCopied'
<1>1. /\ \A p \in Payments : committed'[CaseKey(p)] = CaseOf(s, p)
      /\ DOMAIN pending'[s] = {} /\ OthersKeepWrites(s)
  BY KeyFacts DEF DB!Commit, DB!NoWrites, OnceInv, MoneyInv, AcceptedInv, RowsOK, CaseOf,
                  OthersKeepWrites
<1>2. Locked'
  BY <1>1, StaysLocked DEF OnceInv
<1>3. CasesCounted'
  <2>1. \A p \in Payments : Counted(committed'[CaseKey(p)])
    BY <1>1, CaseSeenCounted DEF OnceInv
  <2>2. ASSUME NEW t \in AllSessions, NEW p \in Payments, CaseKey(p) \in DOMAIN pending'[t]
        PROVE  Counted(pending'[t][CaseKey(p)]) \/ Paying(t, p)'
    <3>1. t # s /\ pending'[t] = pending[t]
      BY <1>1, <2>2 DEF OthersKeepWrites
    <3> QED
      BY <2>2, <3>1 DEF OnceInv, CasesCounted, Paying
  <2> QED
    BY <2>1, <2>2 DEF CasesCounted
<1>4. CountsCopied'
  <2> SUFFICES ASSUME NEW h \in Handlers, NEW p \in Payments, CaseKey(p) \in DOMAIN pending'[h]
               PROVE  pending'[h][CaseKey(p)].actions \in {0, committed'[CaseKey(p)].actions}
    BY DEF CountsCopied
  <2>1. h # s /\ h \in AllSessions /\ pending'[h] = pending[h]
    BY <1>1 DEF OthersKeepWrites, AllSessions
  <2>2. CaseKey(p) \notin DOMAIN pending[s]
    BY <2>1 DEF OnceInv, Locked
  <2>3. committed'[CaseKey(p)] = committed[CaseKey(p)]
    BY <1>1, <2>2 DEF CaseOf, DB!Sees
  <2> QED
    BY <2>1, <2>3 DEF OnceInv, CountsCopied
<1> QED
  BY <1>2, <1>3, <1>4

-----------------------------------------------------------------------------
\* A request writes other tables, opens a case, or copies the count of one.
LEMMA RequestWrites ==
  ASSUME NEW h \in Handlers, HandlerOK(h), unanswered \subseteq Webhooks,
         HandlerStep(h) \/ HandlerFails(h) \/ Reject(h)
  PROVE  /\ UNCHANGED worker
         /\ \/ UNCHANGED <<committed, pending>>
            \/ DB!Commit(h) \/ DB!Rollback(h)
            \/ \E k, row : k.table # "cases" /\ DB!Flush(h, k, row)
            \/ \E p \in Payments : \E row \in {NewCase, CaseOf(h, p),
                                              Recovered(CaseOf(h, p), "SELF_HEALED")} :
                 DB!Flush(h, CaseKey(p), row)
<1> DEFINE p == handler[h].event.payment
<1>1. ASSUME NEW e \in Webhooks PROVE e.table # "cases"
  BY WebhookFacts
<1>2. CustomerKey(p).table # "cases" /\ PaymentKey(p).table # "cases"
  BY DEF CustomerKey, PaymentKey
<1>3. handler[h].at # "idle" => p \in Payments
  BY WebhookFacts DEF HandlerOK
<1>4. ASSUME NEW e \in Webhooks, Duplicate(h, e) \/ Receive(h, e)
      PROVE  /\ UNCHANGED worker
             /\ UNCHANGED <<committed, pending>> \/ DB!Flush(h, e, "recorded")
  BY <1>4 DEF Duplicate, Receive, Answers
<1>5. CASE InsertCustomer(h) \/ UpsertPayment(h)
  BY <1>2, <1>5 DEF InsertCustomer, UpsertPayment, HandlerDoes
<1>6. CASE LookForCase(h) \/ NothingToDo(h)
  BY <1>6 DEF LookForCase, NothingToDo, HandlerDoes
<1>7. CASE OpenCase(h) \/ SelfHeal(h)
  <2>1. p \in Payments /\ UNCHANGED worker
    BY <1>3, <1>7 DEF OpenCase, SelfHeal, HandlerDoes
  <2>2. \E row \in {NewCase, CaseOf(h, p), Recovered(CaseOf(h, p), "SELF_HEALED")} :
          DB!Flush(h, CaseKey(p), row)
    BY <1>7 DEF OpenCase, SelfHeal
  <2> QED
    BY <2>1, <2>2
<1>8. CASE Finish(h)
  BY <1>8 DEF Finish, Answers
<1>9. CASE CustomerConflicts(h) \/ UpsertConflicts(h) \/ CaptureTooLate(h) \/ HandlerFails(h)
  BY <1>9 DEF CustomerConflicts, UpsertConflicts, CaptureTooLate, HandlerFails, Raises
<1>10. CASE Reject(h)
  <2>1. PICK e \in unanswered : DB!Flush(h, e, "rejected") /\ UNCHANGED worker
    BY <1>10 DEF Reject
  <2> QED
    BY <1>1, <2>1
<1> QED
  BY <1>1, <1>4, <1>5, <1>6, <1>7, <1>8, <1>9, <1>10 DEF HandlerStep

LEMMA RequestCounts ==
  ASSUME OnceInv, NEW h \in Handlers, UNCHANGED worker,
         \/ UNCHANGED <<committed, pending>>
         \/ DB!Commit(h) \/ DB!Rollback(h)
         \/ \E k, row : k.table # "cases" /\ DB!Flush(h, k, row)
         \/ \E p \in Payments : \E row \in {NewCase, CaseOf(h, p),
                                           Recovered(CaseOf(h, p), "SELF_HEALED")} :
              DB!Flush(h, CaseKey(p), row)
  PROVE  Locked' /\ CasesCounted' /\ CountsCopied' /\ \A w \in Workers : Fresh(w)'
<1>0. /\ h \in AllSessions /\ h \notin Workers /\ RowsOK /\ CasesPaid
      /\ Locked /\ CasesCounted /\ CountsCopied /\ \A w \in Workers : Fresh(w)
      /\ Workers \subseteq AllSessions /\ \A w \in Workers : w # h
  BY LiveAssumption DEF LiveAssumption, AllSessions, OnceInv, MoneyInv, AcceptedInv
<1>1. \A w \in Workers : WorkerOK(w)
  BY DEF OnceInv, MoneyInv, AcceptedInv, WorkersOK
<1>2. CASE UNCHANGED <<committed, pending>>
  BY <1>0, <1>2 DEF Locked, CasesCounted, CountsCopied, Fresh, Paying, CaseOf, DB!Sees
<1> DEFINE Small(p, row) == Counted(row) /\ row.actions \in {0, committed[CaseKey(p)].actions}
\* A request that writes small counts and commits nothing.
<1>3. ASSUME committed' = committed, OthersKeepWrites(h),
             \A k \in DOMAIN pending'[h] \ DOMAIN pending[h] : ~DB!Blocked(h, k),
             \A p \in Payments : CaseKey(p) \in DOMAIN pending'[h] =>
               Small(p, pending'[h][CaseKey(p)])
      PROVE  Locked' /\ CasesCounted' /\ CountsCopied' /\ \A w \in Workers : Fresh(w)'
  <2>1. Locked'
    BY <1>0, <1>3, StaysLocked
  <2>2. ASSUME NEW s \in AllSessions \ {h} PROVE pending'[s] = pending[s]
    BY <1>3 DEF OthersKeepWrites
  <2>3. CasesCounted'
    <3>1. ASSUME NEW s \in AllSessions, NEW p \in Payments, CaseKey(p) \in DOMAIN pending'[s]
          PROVE  Counted(pending'[s][CaseKey(p)]) \/ Paying(s, p)'
      <4>1. CASE s = h
        BY <1>3, <3>1, <4>1
      <4>2. CASE s # h
        BY <1>0, <2>2, <3>1, <4>2 DEF CasesCounted, Paying
      <4> QED
        BY <4>1, <4>2
    <3> QED
      BY <1>0, <1>3, <3>1 DEF CasesCounted
  <2>4. CountsCopied'
    <3>1. ASSUME NEW g \in Handlers, NEW p \in Payments, CaseKey(p) \in DOMAIN pending'[g]
          PROVE  pending'[g][CaseKey(p)].actions \in {0, committed[CaseKey(p)].actions}
      <4>1. CASE g = h
        BY <1>3, <3>1, <4>1
      <4>2. CASE g # h
        BY <1>0, <2>2, <3>1, <4>2 DEF CountsCopied, AllSessions
      <4> QED
        BY <4>1, <4>2
    <3> QED
      BY <1>3, <3>1 DEF CountsCopied
  <2>5. ASSUME NEW w \in Workers PROVE Fresh(w)'
    BY <1>0, <1>3, <2>2 DEF Fresh, Paying, CaseOf, DB!Sees
  <2> QED
    BY <2>1, <2>3, <2>4, <2>5
<1>4. ASSUME NEW k, NEW row, DB!Flush(h, k, row),
             \A p \in Payments : k = CaseKey(p) => Small(p, row)
      PROVE  Locked' /\ CasesCounted' /\ CountsCopied' /\ \A w \in Workers : Fresh(w)'
  <2>1. /\ committed' = committed /\ OthersKeepWrites(h) /\ ~DB!Blocked(h, k)
        /\ pending'[h] = DB!Written(pending[h], k, row)
    BY <1>0, <1>4 DEF DB!Flush, RowsOK, OthersKeepWrites
  <2>2. /\ DOMAIN pending'[h] = DOMAIN pending[h] \cup {k}
        /\ pending'[h][k] = row
        /\ \A x \in DOMAIN pending[h] : x # k => pending'[h][x] = pending[h][x]
    BY <2>1 DEF DB!Written
  <2>3. ASSUME NEW p \in Payments, CaseKey(p) \in DOMAIN pending'[h]
        PROVE  Small(p, pending'[h][CaseKey(p)])
    <3>1. CASE CaseKey(p) = k
      BY <1>4, <2>2, <3>1
    <3>2. CASE CaseKey(p) # k
      BY <1>0, <2>2, <2>3, <3>2 DEF CasesCounted, CountsCopied, Paying
    <3> QED
      BY <3>1, <3>2
  <2> QED
    BY <1>3, <2>1, <2>2, <2>3
<1>5. CASE DB!Commit(h)
  <2>1. Locked' /\ CasesCounted' /\ CountsCopied'
    BY <1>0, <1>5, CommitCounted DEF Paying
  <2>2. ASSUME NEW w \in Workers PROVE Fresh(w)'
    <3> DEFINE p == worker[w].payment
    <3>1. pending'[w] = pending[w] /\ \A q \in Payments : committed'[CaseKey(q)] = CaseOf(h, q)
      BY <1>0, <1>5, KeyFacts DEF DB!Commit, RowsOK, CaseOf
    <3>2. Fresh(w) /\ (Paying(w, p) => Paying(w, p)')
      BY <1>0, <3>1 DEF Paying
    <3>3. ASSUME p \in Payments, CaseOf(w, p).actions = 0 PROVE CaseOf(w, p)'.actions = 0
      <4>1. CASE CaseKey(p) \in DOMAIN pending[w]
        BY <3>1, <3>3, <4>1 DEF CaseOf, DB!Sees
      <4>2. CASE CaseKey(p) \notin DOMAIN pending[w]
        <5>1. committed[CaseKey(p)].actions = 0
          BY <3>3, <4>2 DEF CaseOf, DB!Sees
        <5>2. CaseOf(h, p).actions = 0
          BY <1>0, <3>3, <5>1 DEF CaseOf, DB!Sees, CountsCopied
        <5> QED
          BY <3>1, <3>3, <4>2, <5>2 DEF CaseOf, DB!Sees
      <4> QED
        BY <4>1, <4>2
    <3>4. worker[w].at \in {"loading", "loaded", "started", "paid"} => p \in Payments
      BY <1>1 DEF WorkerOK
    <3> QED
      BY <3>2, <3>3, <3>4 DEF Fresh
  <2> QED
    BY <2>1, <2>2
<1>6. CASE DB!Rollback(h)
  <2>1. committed' = committed /\ OthersKeepWrites(h) /\ DOMAIN pending'[h] = {}
    BY <1>0, <1>6, RollbackKeeps
  <2> QED
    BY <1>3, <2>1
<1>7. CASE \E k, row : k.table # "cases" /\ DB!Flush(h, k, row)
  BY <1>4, <1>7, KeyFacts
<1>8. CASE \E p \in Payments : \E row \in {NewCase, CaseOf(h, p),
                                         Recovered(CaseOf(h, p), "SELF_HEALED")} :
             DB!Flush(h, CaseKey(p), row)
  <2>1. PICK p \in Payments :
          \E row \in {NewCase, CaseOf(h, p), Recovered(CaseOf(h, p), "SELF_HEALED")} :
            DB!Flush(h, CaseKey(p), row)
    BY <1>8
  <2>2. Small(p, NewCase)
    BY DEF NewCase, NoCase, Counted
  <2>3. Small(p, CaseOf(h, p))
    BY <1>0, CaseSeenCounted DEF CaseOf, DB!Sees, CountsCopied, Counted, CasesCounted, Paying
  <2>4. Small(p, Recovered(CaseOf(h, p), "SELF_HEALED"))
    <3>1. DOMAIN CaseOf(h, p) = {"status", "outcome", "booked", "actions", "created"}
      BY <1>0, CasesPaidSeen DEF PaidRow
    <3> QED
      BY <2>3, <3>1 DEF Recovered, Counted, IsTerminal, TerminalStatuses
  <2> HIDE DEF Small
  <2> QED
    BY <1>4, <2>1, <2>2, <2>3, <2>4, CaseKeys
<1> QED
  BY <1>2, <1>5, <1>6, <1>7, <1>8

-----------------------------------------------------------------------------
\* What the only worker writes: the case it is at, and perhaps its payment.
LEMMA WorkerWrites ==
  ASSUME OneWorker, OnceInv, NEW w \in Workers, NEW p \in Payments,
         worker[w].payment = p, committed' = committed, handler' = handler,
         OthersKeepWrites(w),
         \A k \in DOMAIN pending'[w] \ DOMAIN pending[w] : ~DB!Blocked(w, k),
         CaseKey(p) \in DOMAIN pending'[w],
         \A q \in Payments \ {p} : CaseKey(q) \in DOMAIN pending'[w] =>
           CaseKey(q) \in DOMAIN pending[w] /\ pending'[w][CaseKey(q)] = pending[w][CaseKey(q)],
         \/ Counted(pending'[w][CaseKey(p)])
         \/ Paying(w, p)'
  PROVE  Locked' /\ CasesCounted' /\ CountsCopied'
<1>0. w \in AllSessions /\ w \notin Handlers
  BY LiveAssumption DEF LiveAssumption, AllSessions
<1>1. Locked'
  BY <1>0, StaysLocked DEF OnceInv
<1>2. CasesCounted'
  <2>1. ASSUME NEW s \in AllSessions, NEW q \in Payments, CaseKey(q) \in DOMAIN pending'[s]
        PROVE  Counted(pending'[s][CaseKey(q)]) \/ Paying(s, q)'
    <3>1. CASE s = w /\ q = p
      BY <3>1
    <3>2. CASE s = w /\ q # p
      BY <2>1, <3>2 DEF OnceInv, CasesCounted, Paying
    <3>3. CASE s # w
      <4>1. pending'[s] = pending[s] /\ s \notin Workers
        BY <3>3 DEF OthersKeepWrites, OneWorker
      <4> QED
        BY <2>1, <4>1 DEF OnceInv, CasesCounted, Paying
    <3> QED
      BY <3>1, <3>2, <3>3
  <2> QED
    BY <2>1 DEF OnceInv, CasesCounted
<1>3. CountsCopied'
  BY <1>0 DEF OnceInv, CountsCopied, OthersKeepWrites, AllSessions
<1> QED
  BY <1>1, <1>2, <1>3

LEMMA WorkerFlushes ==
  ASSUME OneWorker, OnceInv, NEW w \in Workers, NEW p \in Payments, NEW row,
         worker[w].payment = p, handler' = handler, DB!Flush(w, CaseKey(p), row),
         \/ Counted(row)
         \/ row.actions = 1 /\ worker'[w].at = "paid" /\ worker'[w].payment = p
  PROVE  /\ Locked' /\ CasesCounted' /\ CountsCopied'
         /\ CaseOf(w, p)' = row
         /\ worker'[w].at = "paid" /\ worker'[w].payment = p /\ row.actions = 1 => Paying(w, p)'
<1>1. RowsOK /\ w \in AllSessions
  BY DEF OnceInv, MoneyInv, AcceptedInv, AllSessions
<1>2. /\ committed' = committed /\ OthersKeepWrites(w) /\ ~DB!Blocked(w, CaseKey(p))
      /\ pending'[w] = DB!Written(pending[w], CaseKey(p), row)
  BY <1>1 DEF DB!Flush, RowsOK, OthersKeepWrites
<1>3. /\ DOMAIN pending'[w] = DOMAIN pending[w] \cup {CaseKey(p)}
      /\ pending'[w][CaseKey(p)] = row
      /\ \A x \in DOMAIN pending[w] : x # CaseKey(p) => pending'[w][x] = pending[w][x]
  BY <1>2 DEF DB!Written
<1>4. Counted(pending'[w][CaseKey(p)]) \/ Paying(w, p)'
  BY <1>3 DEF Paying
<1>5. Locked' /\ CasesCounted' /\ CountsCopied'
  BY <1>2, <1>3, <1>4, CaseKeys, WorkerWrites
<1> QED
  BY <1>3, <1>5 DEF CaseOf, DB!Sees, Paying

\* Reading writes nothing.
LEMMA WorkerReads ==
  ASSUME OneWorker, OnceInv, NEW w \in Workers, handler' = handler,
         UNCHANGED <<committed, pending>>, worker[w].at # "paid"
  PROVE  /\ Locked' /\ CasesCounted' /\ CountsCopied'
         /\ \A p \in Payments : CaseOf(w, p)' = CaseOf(w, p) /\ Counted(CaseOf(w, p))
<1>1. \A s \in AllSessions : \A p \in Payments : ~Paying(s, p)
  BY DEF OneWorker, Paying
<1>2. \A p \in Payments : Counted(CaseOf(w, p))
  BY <1>1, CaseSeenCounted DEF OnceInv, AllSessions
<1> QED
  BY <1>1, <1>2 DEF OnceInv, Locked, CasesCounted, CountsCopied, CaseOf, DB!Sees

LEMMA WorkerCounts ==
  ASSUME OneWorker, OnceInv, NEW w \in Workers,
         \/ WorkerStep(w) \/ TickRaises(w)
  PROVE  Locked' /\ CasesCounted' /\ CountsCopied' /\ Fresh(w)'
<1> DEFINE p == worker[w].payment
           row == CaseOf(w, p)
<1>0. /\ AcceptedInv /\ RowsOK /\ CasesPaid /\ WorkerOK(w) /\ w \in AllSessions
      /\ worker = [v \in Workers |-> worker[v]] /\ Fresh(w) /\ CasesCounted
      /\ \A v \in Workers \ {w} : FALSE
  BY DEF OnceInv, MoneyInv, AcceptedInv, WorkersOK, AllSessions, OneWorker
<1>1. CASE Claim(w) \/ Load(w) \/ LoadPayment(w)
  <2>1. Locked' /\ CasesCounted' /\ CountsCopied'
    BY <1>1, WorkerReads DEF Claim, Load, LoadPayment
  <2>2. \A q \in Payments : CaseOf(w, q)' = CaseOf(w, q) /\ Counted(CaseOf(w, q))
    BY <1>1, WorkerReads DEF Claim, Load, LoadPayment
  <2>3. CASE Claim(w)
    BY <1>0, <2>1, <2>3 DEF Claim, Fresh, IdleWorker
  <2>4. CASE Load(w)
    <3>1. PICK q \in Payments : worker'[w] = [at |-> "loading", todo |-> worker[w].todo \ {q},
                  payment |-> q, status |-> CaseOf(w, q).status, mirror |-> "absent"]
      BY <1>0, <2>4 DEF Load, WorkerOK
    <3>2. Counted(CaseOf(w, q)) /\ CaseOf(w, q)' = CaseOf(w, q)
      BY <2>2
    <3> HIDE DEF row
    <3> QED
      BY <2>1, <3>1, <3>2 DEF Fresh, Counted
  <2>5. CASE LoadPayment(w)
    <3>1. /\ worker'[w].at = "loaded" /\ worker'[w].payment = p
          /\ worker'[w].status = worker[w].status /\ worker[w].at = "loading" /\ p \in Payments
      BY <1>0, <2>5 DEF LoadPayment, WorkerOK
    <3> QED
      BY <1>0, <2>1, <2>2, <3>1 DEF Fresh
  <2> QED
    BY <1>1, <2>1, <2>3, <2>4, <2>5
<1>2. CASE TickEnds(w)
  <2>1. Locked' /\ CasesCounted' /\ CountsCopied'
    BY <1>0, <1>2, CommitCounted DEF TickEnds, Paying
  <2>2. worker'[w].at = "idle"
    BY <1>0, <1>2 DEF TickEnds, IdleWorker
  <2> QED
    BY <2>1, <2>2 DEF Fresh
<1>3. CASE HumanNeeded(w) \/ TickRaises(w)
  <2>1. DB!Rollback(w) /\ handler' = handler /\ worker'[w].at = "idle"
    BY <1>0, <1>3 DEF HumanNeeded, TickRaises, IdleWorker
  <2>2. committed' = committed /\ OthersKeepWrites(w) /\ DOMAIN pending'[w] = {}
    BY <1>0, <2>1, RollbackKeeps
  <2>3. Locked'
    BY <1>0, <2>2, StaysLocked DEF OnceInv
  <2>4. CasesCounted'
    <3>1. ASSUME NEW s \in AllSessions, NEW q \in Payments, CaseKey(q) \in DOMAIN pending'[s]
          PROVE  Counted(pending'[s][CaseKey(q)])
      <4>1. s # w /\ pending'[s] = pending[s] /\ s \notin Workers
        BY <1>0, <2>2, <3>1 DEF OthersKeepWrites
      <4> QED
        BY <1>0, <3>1, <4>1 DEF CasesCounted, Paying
    <3> QED
      BY <1>0, <2>2, <3>1 DEF CasesCounted
  <2>5. CountsCopied'
    <3>1. \A h \in Handlers : h # w /\ h \in AllSessions
      BY LiveAssumption DEF LiveAssumption, AllSessions
    <3> QED
      BY <2>2, <3>1 DEF OnceInv, CountsCopied, OthersKeepWrites
  <2> QED
    BY <2>1, <2>3, <2>4, <2>5 DEF Fresh
<1>4. ASSUME NEW from \in {"loaded", "started", "paid"},
             NEW to \in {"started", "paid", "claimed"}, WorkerDoes(w, from, to)
      PROVE  /\ p \in Payments /\ worker[w].at = from /\ handler' = handler
             /\ worker'[w].at = to
             /\ to # "claimed" => worker'[w].payment = p /\ worker'[w].status = worker[w].status
  <2>1. /\ p \in Payments /\ worker[w].at = from /\ handler' = handler
        /\ worker'[w] = After(w, to)
    BY <1>0, <1>4, WorkerGoesTo
  <2> QED
    BY <1>0, <2>1 DEF After, WorkerOK, IdleWorker
<1>5. CASE Skip(w)
  <2>1. worker[w].at = "loaded" /\ handler' = handler /\ worker'[w].at = "claimed"
    BY <1>4, <1>5 DEF Skip
  <2> QED
    BY <1>5, <2>1, WorkerReads DEF Skip, Fresh
<1>6. p \in Payments => DOMAIN row = {"status", "outcome", "booked", "actions", "created"}
  BY <1>0, CasesPaidSeen DEF PaidRow
<1>7. CASE Start(w)
  <2> DEFINE new == [row EXCEPT !.status = "ANALYZING"]
  <2>1. /\ WorkerDoes(w, "loaded", "started") /\ DB!Flush(w, CaseKey(p), new)
        /\ ~IsTerminal(worker[w].status)
    BY <1>7 DEF Start
  <2>2. /\ p \in Payments /\ worker[w].at = "loaded" /\ handler' = handler
        /\ worker'[w].at = "started" /\ worker'[w].payment = p
        /\ worker'[w].status = worker[w].status
    BY <1>4, <2>1
  <2>3. row.actions = 0
    BY <1>0, <2>1, <2>2 DEF Fresh
  <2>4. new.actions = 0
    BY <1>6, <2>2, <2>3
  <2>5. Counted(new)
    BY <2>4 DEF Counted
  <2> HIDE DEF new
  <2>6. Locked' /\ CasesCounted' /\ CountsCopied' /\ CaseOf(w, p)' = new
    BY <2>1, <2>2, <2>5, WorkerFlushes
  <2> QED
    BY <2>1, <2>2, <2>4, <2>6 DEF Fresh
<1>8. CASE EndWithoutAttempt(w) \/ LinkRefused(w)
  <2> DEFINE failed == [row EXCEPT !.status = "FAILED", !.actions = @ + 1]
             blocked == [row EXCEPT !.status = "BLOCKED"]
  <2>1. /\ WorkerDoes(w, "started", "claimed")
        /\ \/ DB!Flush(w, CaseKey(p), Unrecovered(row))
           \/ DB!Flush(w, CaseKey(p), blocked)
           \/ DB!Flush(w, CaseKey(p), failed)
    BY <1>8 DEF EndWithoutAttempt, LinkRefused
  <2>2. /\ p \in Payments /\ worker[w].at = "started" /\ handler' = handler
        /\ worker'[w].at = "claimed"
    BY <1>4, <2>1
  <2>3. row.actions = 0
    BY <1>0, <2>2 DEF Fresh
  <2>4. Counted(Unrecovered(row)) /\ Counted(blocked) /\ Counted(failed)
    BY <1>6, <2>2, <2>3 DEF Counted, Unrecovered, IsTerminal, TerminalStatuses
  <2> HIDE DEF failed, blocked, row
  <2>5. Locked' /\ CasesCounted' /\ CountsCopied'
    BY <2>1, <2>2, <2>4, WorkerFlushes
  <2> QED
    BY <2>2, <2>5 DEF Fresh
<1>9. CASE Attempt(w)
  <2> DEFINE new == [row EXCEPT !.actions = @ + 1]
  <2>1. \/ WorkerDoes(w, "started", "paid") /\ DB!Flush(w, CaseKey(p), new)
        \/ WorkerDoes(w, "started", "claimed") /\ DB!Flush(w, CaseKey(p), Unrecovered(new))
    BY <1>9 DEF Attempt
  <2>2. p \in Payments /\ worker[w].at = "started" /\ handler' = handler
    BY <1>4, <2>1
  <2>3. row.actions = 0
    BY <1>0, <2>2 DEF Fresh
  <2>4. new.actions = 1 /\ Counted(Unrecovered(new))
    BY <1>6, <2>2, <2>3 DEF Counted, Unrecovered, IsTerminal, TerminalStatuses
  <2> HIDE DEF new
  <2>5. CASE WorkerDoes(w, "started", "paid") /\ DB!Flush(w, CaseKey(p), new)
    <3>1. worker'[w].at = "paid" /\ worker'[w].payment = p
      BY <1>4, <2>5
    <3>2. Locked' /\ CasesCounted' /\ CountsCopied' /\ Paying(w, p)'
      BY <2>2, <2>4, <2>5, <3>1, WorkerFlushes
    <3> QED
      BY <3>1, <3>2 DEF Fresh
  <2>6. CASE WorkerDoes(w, "started", "claimed") /\ DB!Flush(w, CaseKey(p), Unrecovered(new))
    <3>1. worker'[w].at = "claimed"
      BY <1>4, <2>6
    <3>2. Locked' /\ CasesCounted' /\ CountsCopied'
      BY <2>2, <2>4, <2>6, WorkerFlushes
    <3> QED
      BY <3>1, <3>2 DEF Fresh
  <2> QED
    BY <2>1, <2>5, <2>6
<1>10. CASE BookMoney(w)
  <2> DEFINE new == Recovered(row, "RECOVERED")
             both == DB!Written(DB!Written(pending[w], CaseKey(p), new),
                                PaymentKey(p), "captured")
  <2>1. /\ WorkerDoes(w, "paid", "claimed") /\ committed' = committed
        /\ pending' = [pending EXCEPT ![w] = both] /\ ~DB!Blocked(w, PaymentKey(p))
    BY <1>10 DEF BookMoney
  <2>2. /\ p \in Payments /\ worker[w].at = "paid" /\ handler' = handler
        /\ worker'[w].at = "claimed"
    BY <1>4, <2>1
  <2>3. CaseKey(p) \in DOMAIN pending[w] /\ row.actions = 1
    BY <1>0, <2>2 DEF WorkerOK, Fresh, Paying, CaseOf, DB!Sees
  <2>4. Counted(new)
    BY <1>6, <2>2, <2>3 DEF Counted, Recovered, IsTerminal, TerminalStatuses
  <2> HIDE DEF new
  <2>5. OthersKeepWrites(w) /\ pending'[w] = both
    BY <1>0, <2>1 DEF RowsOK, OthersKeepWrites
  <2>6. /\ DOMAIN both = DOMAIN pending[w] \cup {PaymentKey(p)}
        /\ both[CaseKey(p)] = new
        /\ \A q \in Payments \ {p} : CaseKey(q) \in DOMAIN both =>
             CaseKey(q) \in DOMAIN pending[w] /\ both[CaseKey(q)] = pending[w][CaseKey(q)]
    BY <2>2, <2>3, KeyFacts, CaseKeys DEF DB!Written
  <2> HIDE DEF both
  <2>7. Locked' /\ CasesCounted' /\ CountsCopied'
    BY <2>1, <2>2, <2>3, <2>4, <2>5, <2>6, WorkerWrites
  <2> QED
    BY <2>2, <2>7 DEF Fresh
<1> QED
  BY <1>1, <1>2, <1>3, <1>5, <1>7, <1>8, <1>9, <1>10 DEF WorkerStep

LEMMA OnceInit == Init => OnceInv
<1> SUFFICES ASSUME Init PROVE OnceInv
  OBVIOUS
<1>1. MoneyInv
  BY MoneyInit
<1>2. \A p \in Payments : committed[CaseKey(p)] = NoCase
  BY KeyFacts DEF Init
<1>3. \A s \in AllSessions : DOMAIN pending[s] = {}
  BY DEF Init, AllSessions, DB!NoWrites
<1>4. \A w \in Workers : worker[w].at = "idle"
  BY DEF Init, IdleWorker
<1>5. Handlers \subseteq AllSessions
  BY DEF AllSessions
<1>6. CasesCounted /\ CountsCopied /\ Locked
  BY <1>2, <1>3, <1>5 DEF CasesCounted, CountsCopied, Locked, Counted, NoCase
<1>7. \A w \in Workers : Fresh(w)
  BY <1>4 DEF Fresh
<1> QED
  BY <1>1, <1>6, <1>7 DEF OnceInv

LEMMA OnceNext == ASSUME OneWorker PROVE OnceInv /\ [Next]_vars => OnceInv'
<1> SUFFICES ASSUME OnceInv, [Next]_vars
             PROVE  Locked' /\ CasesCounted' /\ CountsCopied' /\ \A w \in Workers : Fresh(w)'
  BY MoneyNext DEF OnceInv
<1> DEFINE Kept == Locked' /\ CasesCounted' /\ CountsCopied' /\ \A w \in Workers : Fresh(w)'
<1>1. ASSUME NEW h \in Handlers, HandlerStep(h) \/ HandlerFails(h) \/ Reject(h) PROVE Kept
  <2>1. HandlerOK(h) /\ unanswered \subseteq Webhooks
    BY DEF OnceInv, MoneyInv, AcceptedInv, HandlersOK
  <2> QED
    BY <1>1, <2>1, RequestWrites, RequestCounts
<1>2. ASSUME NEW w \in Workers, WorkerStep(w) \/ TickRaises(w) PROVE Kept
  <2>1. Locked' /\ CasesCounted' /\ CountsCopied' /\ Fresh(w)'
    BY <1>2, WorkerCounts
  <2> QED
    BY <2>1 DEF OneWorker
<1>3. ASSUME NEW h \in Handlers, Raises(h) PROVE Kept
  BY <1>3, RequestCounts DEF Raises
<1>4. CASE UNCHANGED <<committed, pending, worker>>
  BY <1>4 DEF OnceInv, Locked, CasesCounted, CountsCopied, Fresh, Paying, CaseOf, DB!Sees
<1>5. ASSUME NEW p \in Payments, CustomerPays(p) \/ GrowOld(p) PROVE Kept
  BY <1>4, <1>5 DEF CustomerPays, GrowOld
<1>6. ASSUME NEW w \in Workers, Sleep(w) PROVE Kept
  BY <1>4, <1>6 DEF Sleep, vars
<1>7. CASE UNCHANGED vars
  BY <1>4, <1>7 DEF vars
<1> QED
  BY <1>1, <1>2, <1>3, <1>5, <1>6, <1>7 DEF Next, WorkerFails, BreakDeadlock

\* A single worker never attempts a case twice in ticks that commit, whatever
\* requests run beside it and whatever crashes (app/worker.py claims without a
\* lock: two workers may, as doc_two_workers shows).
THEOREM OneWorkerAttemptsOnce == OneWorker => (Spec => []AttemptedOnce)
<1> SUFFICES ASSUME OneWorker PROVE Spec => []AttemptedOnce
  OBVIOUS
<1>1. OnceInv => AttemptedOnce
  BY DEF OnceInv, CasesCounted, Counted, AttemptedOnce
<1> QED
  BY <1>1, OnceInit, OnceNext, PTL DEF Spec
=============================================================================
