----------------------------- MODULE LiveProofs -----------------------------
(***************************************************************************)
(* Proofs about LiveRecovery: no failed payment that was accepted is       *)
(* forgotten, for any number of payments, customers, requests, workers and *)
(* failures.  The argument is what each request has written, or found, at  *)
(* each point of its handler, and that rows are never taken away.          *)
(***************************************************************************)
EXTENDS LiveRecovery, TLAPS

AllSessions == Workers \cup Handlers

\* Rows never go away again: "there" and "seen" stay true.
There(k, row) == IF k.table = "cases" THEN row.status # "none" ELSE row # "absent"
Seen(s, k) == There(k, DB!Sees(s, k))

\* A case has a status, and what a session has written is there.
RowShape(k, row) == k.table = "cases" => "status" \in DOMAIN row
Writes(s) ==
  /\ DOMAIN pending[s] \subseteq Keys
  /\ \A k \in DOMAIN pending[s] :
       RowShape(k, pending[s][k]) /\ There(k, pending[s][k])
RowsOK ==
  /\ DOMAIN committed = Keys
  /\ \A k \in Keys : RowShape(k, committed[k])
  /\ pending = [s \in AllSessions |-> pending[s]]
  /\ \A s \in AllSessions : Writes(s)

\* What a request has seen to when it is at a point of its handler.
HasCustomer(h) ==
  LET p == handler[h].event.payment
  IN  ContactOf[p] # NoContact => Seen(h, CustomerKey(p))
HasCase(h) == Seen(h, CaseKey(handler[h].event.payment))
Progress(h) ==
  LET at == handler[h].at
  IN  /\ at = "idle" => DOMAIN pending[h] = {}
      /\ at = "recorded" => ContactOf[handler[h].event.payment] # NoContact
      /\ at \in {"known", "upserted", "looked"} => HasCustomer(h)
      /\ at = "looked" /\ handler[h].status # "none" => HasCase(h)
      /\ at = "finished" /\ pending[h][handler[h].event] = "recorded" =>
           /\ HasCustomer(h)
           /\ handler[h].event.table = "payment.failed" => HasCase(h)

\* A request writes one row of the ledger, that of its event; a worker none.
HandlerOK(h) ==
  /\ DOMAIN handler[h] = {"at", "event", "status", "mirror"}
  /\ handler[h].at # "idle" => handler[h].event \in Webhooks \cap DOMAIN pending[h]
  /\ DOMAIN pending[h] \cap Webhooks \subseteq {handler[h].event}
  /\ Progress(h)

\* An attempt, which leaves the status as it is, finds the case started.
WorkerOK(w) ==
  /\ DOMAIN worker[w] = {"at", "todo", "payment", "status", "mirror"}
  /\ worker[w].todo \subseteq Payments
  /\ worker[w].at \notin {"idle", "claimed"} => worker[w].payment \in Payments
  /\ DOMAIN pending[w] \cap Webhooks = {}
  /\ worker[w].at \in {"started", "paid"} =>
       CaseKey(worker[w].payment) \in DOMAIN pending[w]

HandlersOK == handler = [h \in Handlers |-> handler[h]] /\ \A h \in Handlers : HandlerOK(h)
WorkersOK == worker = [w \in Workers |-> worker[w]] /\ \A w \in Workers : WorkerOK(w)

AcceptedInv == /\ RowsOK /\ HandlersOK /\ WorkersOK /\ sent \cup unanswered \subseteq Webhooks
               /\ AcceptedFailureHasCase

-----------------------------------------------------------------------------
(***************************************************************************)
(* The keys of the rows, and what a flush, a commit and a rollback keep.   *)
(***************************************************************************)

LEMMA WebhookFacts ==
  ASSUME NEW e \in Webhooks
  PROVE  /\ e \in Keys /\ e.payment \in Payments
         /\ e.table \in {"payment.failed", "payment.captured"}
         /\ e = Webhook(e.table, e.payment)
  BY DEF Keys, Webhooks, Webhook

LEMMA KeyFacts ==
  ASSUME NEW p \in Payments
  PROVE  /\ CaseKey(p) \in Keys \ Webhooks /\ CaseKey(p).table = "cases"
         /\ PaymentKey(p) \in Keys \ Webhooks /\ PaymentKey(p).table = "payments"
         /\ CustomerKey(p) \notin Webhooks /\ CustomerKey(p).table = "customers"
         /\ ContactOf[p] # NoContact => CustomerKey(p) \in Keys
<1>1. /\ CaseKey(p).table = "cases" /\ PaymentKey(p).table = "payments"
      /\ CustomerKey(p).table = "customers"
  BY DEF CaseKey, PaymentKey, CustomerKey
<1>2. CaseKey(p) \notin Webhooks /\ PaymentKey(p) \notin Webhooks /\ CustomerKey(p) \notin Webhooks
  BY <1>1, WebhookFacts
<1>3. CaseKey(p) \in Keys /\ PaymentKey(p) \in Keys
  BY DEF CaseKey, PaymentKey, Keys
<1>4. ASSUME ContactOf[p] # NoContact PROVE CustomerKey(p) \in Keys
  <2>1. ContactOf[p] \in Contacts
    BY <1>4, LiveAssumption DEF LiveAssumption
  <2> QED
    BY <2>1 DEF CustomerKey, Keys
<1> QED
  BY <1>1, <1>2, <1>3, <1>4

\* What is there stays there, for every session but one whose writes are undone.
StaysThere(s) == \A k \in Keys : Seen(s, k) => Seen(s, k)'
OthersKeepWrites(s) == \A t \in AllSessions \ {s} : pending'[t] = pending[t]

LEMMA WriteKeeps ==
  ASSUME RowsOK, NEW s \in AllSessions, NEW rows,
         pending' = [pending EXCEPT ![s] = rows], committed' = committed,
         DOMAIN pending[s] \subseteq DOMAIN rows, DOMAIN rows \subseteq Keys,
         \A k \in DOMAIN rows : RowShape(k, rows[k]) /\ There(k, rows[k])
  PROVE  /\ RowsOK'
         /\ \A t \in AllSessions : StaysThere(t)
         /\ \A k \in DOMAIN rows : Seen(s, k)'
         /\ OthersKeepWrites(s)
         /\ pending'[s] = rows
<1>1. /\ pending' = [t \in AllSessions |-> pending'[t]]
      /\ OthersKeepWrites(s)
      /\ pending'[s] = rows
  BY DEF RowsOK, OthersKeepWrites
<1>2. Writes(s)'
  BY <1>1 DEF Writes
<1>3. ASSUME NEW t \in AllSessions \ {s} PROVE Writes(t)'
  BY <1>1 DEF RowsOK, Writes, OthersKeepWrites
<1>4. RowsOK'
  BY <1>1, <1>2, <1>3 DEF RowsOK
<1>5. ASSUME NEW t \in AllSessions PROVE StaysThere(t)
  BY <1>1 DEF StaysThere, Seen, DB!Sees, OthersKeepWrites
<1>6. ASSUME NEW k \in DOMAIN rows PROVE Seen(s, k)'
  BY <1>1 DEF Seen, DB!Sees
<1> QED
  BY <1>1, <1>4, <1>5, <1>6

LEMMA FlushKeeps ==
  ASSUME RowsOK, NEW s \in AllSessions, NEW k \in Keys, NEW row,
         RowShape(k, row), There(k, row), DB!Flush(s, k, row)
  PROVE  /\ RowsOK'
         /\ \A t \in AllSessions : StaysThere(t)
         /\ Seen(s, k)'
         /\ OthersKeepWrites(s)
         /\ DOMAIN pending'[s] = DOMAIN pending[s] \cup {k}
         /\ pending'[s][k] = row
         /\ \A x \in DOMAIN pending[s] \ {k} : pending'[s][x] = pending[s][x]
         /\ committed' = committed
<1> DEFINE rows == DB!Written(pending[s], k, row)
<1>1. /\ pending' = [pending EXCEPT ![s] = rows]
      /\ committed' = committed
  BY DEF DB!Flush
<1>2. /\ DOMAIN rows = DOMAIN pending[s] \cup {k}
      /\ rows[k] = row
      /\ \A x \in DOMAIN pending[s] \ {k} : rows[x] = pending[s][x]
  BY DEF DB!Written
<1>3. /\ DOMAIN rows \subseteq Keys
      /\ \A x \in DOMAIN rows : RowShape(x, rows[x]) /\ There(x, rows[x])
  BY <1>2 DEF RowsOK, Writes
<1> HIDE DEF rows
<1> QED
  BY <1>1, <1>2, <1>3, WriteKeeps

LEMMA CommitKeeps ==
  ASSUME RowsOK, NEW s \in AllSessions, DB!Commit(s)
  PROVE  /\ RowsOK'
         /\ \A t \in AllSessions : StaysThere(t)
         /\ OthersKeepWrites(s)
         /\ DOMAIN pending'[s] = {}
         /\ \A k \in Keys : committed'[k] = DB!Sees(s, k)
<1>1. /\ pending' = [pending EXCEPT ![s] = DB!NoWrites]
      /\ committed' = [k \in Keys |-> DB!Sees(s, k)]
  BY DEF DB!Commit, RowsOK
<1>2. /\ pending' = [t \in AllSessions |-> pending'[t]]
      /\ OthersKeepWrites(s)
      /\ DOMAIN pending'[s] = {}
  BY <1>1 DEF RowsOK, OthersKeepWrites, DB!NoWrites
<1>3. \A k \in Keys : RowShape(k, committed'[k])
  BY <1>1 DEF RowsOK, Writes, DB!Sees
<1>4. ASSUME NEW t \in AllSessions PROVE Writes(t)'
  BY <1>2 DEF RowsOK, Writes, OthersKeepWrites
<1>5. RowsOK'
  BY <1>1, <1>2, <1>3, <1>4 DEF RowsOK
<1>6. ASSUME NEW k \in Keys, There(k, committed[k]) PROVE There(k, committed'[k])
  BY <1>1, <1>6 DEF RowsOK, Writes, DB!Sees
<1>7. ASSUME NEW t \in AllSessions PROVE StaysThere(t)
  BY <1>1, <1>2, <1>6 DEF StaysThere, Seen, DB!Sees, OthersKeepWrites
<1> QED
  BY <1>1, <1>2, <1>5, <1>7

LEMMA RollbackKeeps ==
  ASSUME RowsOK, NEW s \in AllSessions, DB!Rollback(s)
  PROVE  /\ RowsOK'
         /\ \A t \in AllSessions \ {s} : StaysThere(t)
         /\ OthersKeepWrites(s)
         /\ DOMAIN pending'[s] = {}
         /\ committed' = committed
<1>1. /\ pending' = [pending EXCEPT ![s] = DB!NoWrites]
      /\ committed' = committed
  BY DEF DB!Rollback
<1>2. /\ pending' = [t \in AllSessions |-> pending'[t]]
      /\ OthersKeepWrites(s)
      /\ DOMAIN pending'[s] = {}
  BY <1>1 DEF RowsOK, OthersKeepWrites, DB!NoWrites
<1>3. ASSUME NEW t \in AllSessions PROVE Writes(t)'
  BY <1>2 DEF RowsOK, Writes, OthersKeepWrites
<1>4. RowsOK'
  BY <1>1, <1>2, <1>3 DEF RowsOK
<1>5. ASSUME NEW t \in AllSessions \ {s} PROVE StaysThere(t)
  BY <1>1, <1>2 DEF StaysThere, Seen, DB!Sees, OthersKeepWrites
<1> QED
  BY <1>1, <1>2, <1>4, <1>5

-----------------------------------------------------------------------------
(***************************************************************************)
(* A step of one session, as the others see it.                            *)
(***************************************************************************)

LEMMA OtherRequests ==
  ASSUME AcceptedInv, NEW s \in AllSessions, NEW h \in Handlers \ {s},
         OthersKeepWrites(s), StaysThere(h), handler'[h] = handler[h]
  PROVE  HandlerOK(h)'
<1>1. HandlerOK(h) /\ pending'[h] = pending[h]
  BY DEF AcceptedInv, HandlersOK, OthersKeepWrites, AllSessions
<1> DEFINE p == handler[h].event.payment
<1>2. CASE handler[h].at = "idle"
  BY <1>1, <1>2 DEF HandlerOK, Progress
<1>3. CASE handler[h].at # "idle"
  <2>1. p \in Payments /\ CaseKey(p) \in Keys /\ (ContactOf[p] # NoContact => CustomerKey(p) \in Keys)
    BY <1>1, <1>3, WebhookFacts, KeyFacts DEF HandlerOK
  <2>2. (HasCustomer(h) => HasCustomer(h)') /\ (HasCase(h) => HasCase(h)')
    BY <2>1 DEF StaysThere, HasCustomer, HasCase
  <2>3. Progress(h)'
    BY <1>1, <1>3, <2>2 DEF HandlerOK, Progress
  <2> QED
    BY <1>1, <2>3 DEF HandlerOK
<1> QED
  BY <1>2, <1>3

LEMMA OtherWorkers ==
  ASSUME AcceptedInv, NEW s \in AllSessions, NEW w \in Workers \ {s},
         OthersKeepWrites(s), worker'[w] = worker[w]
  PROVE  WorkerOK(w)'
<1>1. WorkerOK(w) /\ pending'[w] = pending[w]
  BY DEF AcceptedInv, WorkersOK, OthersKeepWrites, AllSessions
<1> QED
  BY <1>1 DEF WorkerOK

\* No webhook is answered or entered in the ledger.
LEMMA NothingAccepted ==
  ASSUME AcceptedInv, UNCHANGED <<sent, unanswered>>,
         \A k \in Keys : There(k, committed[k]) => There(k, committed'[k]),
         \A e \in Webhooks : committed'[e] = committed[e]
  PROVE  AcceptedFailureHasCase' /\ (sent \cup unanswered \subseteq Webhooks)'
<1>1. \A e \in (sent \ unanswered)' : committed'[e] # "absent"
  BY DEF AcceptedInv, AcceptedFailureHasCase
<1>2. ASSUME NEW p \in Payments, committed'[Webhook("payment.failed", p)] = "recorded"
      PROVE  /\ committed'[CaseKey(p)].status # "none"
             /\ ContactOf[p] # NoContact => committed'[CustomerKey(p)] # "absent"
  <2>1. Webhook("payment.failed", p) \in Webhooks
    BY DEF Webhooks
  <2>2. /\ committed[CaseKey(p)].status # "none"
        /\ ContactOf[p] # NoContact => committed[CustomerKey(p)] # "absent"
    BY <1>2, <2>1 DEF AcceptedInv, AcceptedFailureHasCase
  <2> QED
    BY <2>2, KeyFacts DEF There
<1> QED
  BY <1>1, <1>2 DEF AcceptedInv, AcceptedFailureHasCase

LEMMA RequestGoesOn ==
  ASSUME AcceptedInv, NEW h \in Handlers,
         RowsOK', committed' = committed, OthersKeepWrites(h),
         \A s \in AllSessions \ {h} : StaysThere(s),
         UNCHANGED <<worker, sent, unanswered>>,
         NEW next, handler' = [handler EXCEPT ![h] = next],
         HandlerOK(h)'
  PROVE  AcceptedInv'
<1>1. /\ handler' = [g \in Handlers |-> handler'[g]]
      /\ \A g \in Handlers \ {h} : handler'[g] = handler[g]
  BY DEF AcceptedInv, HandlersOK
<1>2. HandlersOK'
  BY <1>1, OtherRequests DEF HandlersOK, AllSessions
<1>3. h \notin Workers
  BY LiveAssumption DEF LiveAssumption
<1>4. WorkersOK'
  BY <1>3, OtherWorkers DEF WorkersOK, AllSessions, AcceptedInv
<1>5. AcceptedFailureHasCase' /\ (sent \cup unanswered \subseteq Webhooks)'
  BY NothingAccepted
<1> QED
  BY <1>2, <1>4, <1>5 DEF AcceptedInv

LEMMA WorkerGoesOn ==
  ASSUME AcceptedInv, NEW w \in Workers,
         RowsOK', OthersKeepWrites(w),
         \A s \in AllSessions \ {w} : StaysThere(s),
         \A k \in Keys : There(k, committed[k]) => There(k, committed'[k]),
         \A e \in Webhooks : committed'[e] = committed[e],
         UNCHANGED <<handler, sent, unanswered>>,
         NEW next, worker' = [worker EXCEPT ![w] = next],
         WorkerOK(w)'
  PROVE  AcceptedInv'
<1>1. /\ worker' = [v \in Workers |-> worker'[v]]
      /\ \A v \in Workers \ {w} : worker'[v] = worker[v]
  BY DEF AcceptedInv, WorkersOK
<1>2. WorkersOK'
  BY <1>1, OtherWorkers DEF WorkersOK, AllSessions
<1>3. w \notin Handlers
  BY LiveAssumption DEF LiveAssumption
<1>4. HandlersOK'
  BY <1>3, OtherRequests DEF HandlersOK, AllSessions, AcceptedInv
<1>5. AcceptedFailureHasCase' /\ (sent \cup unanswered \subseteq Webhooks)'
  BY NothingAccepted
<1> QED
  BY <1>2, <1>4, <1>5 DEF AcceptedInv

-----------------------------------------------------------------------------
(***************************************************************************)
(* The steps of a request.                                                 *)
(***************************************************************************)

\* Between its entry in the ledger and its end a request writes other rows, or none.
WritesOrNot(s) ==
  \/ UNCHANGED <<committed, pending>>
  \/ \E k \in Keys \ Webhooks : \E row :
       RowShape(k, row) /\ There(k, row) /\ DB!Flush(s, k, row)

LEMMA WritesOrNotKeeps ==
  ASSUME RowsOK, NEW s \in AllSessions, WritesOrNot(s)
  PROVE  /\ RowsOK'
         /\ \A t \in AllSessions : StaysThere(t)
         /\ OthersKeepWrites(s)
         /\ committed' = committed
         /\ DOMAIN pending[s] \subseteq DOMAIN pending'[s]
         /\ DOMAIN pending'[s] \cap Webhooks = DOMAIN pending[s] \cap Webhooks
         /\ \A k \in DOMAIN pending[s] \cap Webhooks : pending'[s][k] = pending[s][k]
<1>1. CASE UNCHANGED <<committed, pending>>
  BY <1>1 DEF RowsOK, Writes, StaysThere, Seen, DB!Sees, OthersKeepWrites
<1>2. CASE \E k \in Keys \ Webhooks : \E row :
             RowShape(k, row) /\ There(k, row) /\ DB!Flush(s, k, row)
  BY <1>2, FlushKeeps
<1> QED
  BY <1>1, <1>2 DEF WritesOrNot

\* A request that goes on with its event remembers what it has seen to.
LEMMA RequestRemembers ==
  ASSUME AcceptedInv, NEW h \in Handlers, handler[h].at # "idle",
         WritesOrNot(h), handler'[h].event = handler[h].event
  PROVE  /\ handler[h].event.payment \in Payments
         /\ HasCustomer(h) => HasCustomer(h)'
         /\ HasCase(h) => HasCase(h)'
<1>1. handler[h].event.payment \in Payments /\ RowsOK /\ h \in AllSessions
  BY WebhookFacts DEF AcceptedInv, HandlersOK, HandlerOK, AllSessions
<1>2. StaysThere(h)
  BY <1>1, WritesOrNotKeeps
<1> QED
  BY <1>1, <1>2, KeyFacts DEF StaysThere, HasCustomer, HasCase

LEMMA RequestProceeds ==
  ASSUME AcceptedInv, NEW h \in Handlers, handler[h].at # "idle",
         WritesOrNot(h), UNCHANGED <<worker, sent, unanswered>>,
         NEW next, handler' = [handler EXCEPT ![h] = next],
         DOMAIN next = {"at", "event", "status", "mirror"},
         next.event = handler[h].event, next.at # "idle",
         next.at = "recorded" => ContactOf[handler[h].event.payment] # NoContact,
         next.at \in {"known", "upserted", "looked"} => HasCustomer(h)',
         next.at = "looked" /\ next.status # "none" => HasCase(h)',
         next.at = "finished" /\ pending[h][handler[h].event] = "recorded" =>
           /\ HasCustomer(h)'
           /\ handler[h].event.table = "payment.failed" => HasCase(h)'
  PROVE  AcceptedInv'
<1>1. /\ RowsOK /\ h \in AllSessions /\ HandlerOK(h) /\ handler'[h] = next
  BY DEF AcceptedInv, HandlersOK, AllSessions
<1>2. /\ handler[h].event \in DOMAIN pending[h] \cap Webhooks
      /\ DOMAIN pending[h] \cap Webhooks \subseteq {handler[h].event}
  BY <1>1 DEF HandlerOK
<1>3. /\ RowsOK' /\ committed' = committed /\ OthersKeepWrites(h)
      /\ \A t \in AllSessions : StaysThere(t)
      /\ DOMAIN pending'[h] \cap Webhooks = DOMAIN pending[h] \cap Webhooks
      /\ \A k \in DOMAIN pending[h] \cap Webhooks : pending'[h][k] = pending[h][k]
  BY <1>1, WritesOrNotKeeps
<1>4. Progress(h)'
  BY <1>1, <1>2, <1>3 DEF Progress
<1>5. HandlerOK(h)'
  BY <1>1, <1>2, <1>3, <1>4 DEF HandlerOK
<1> QED
  BY <1>3, <1>5, RequestGoesOn

LEMMA RequestRaises ==
  ASSUME AcceptedInv, NEW h \in Handlers, Raises(h), UNCHANGED <<sent, unanswered>>
  PROVE  AcceptedInv'
<1>1. RowsOK /\ h \in AllSessions /\ handler' = [handler EXCEPT ![h] = IdleHandler]
  BY DEF AcceptedInv, AllSessions, Raises
<1>2. /\ RowsOK' /\ committed' = committed /\ OthersKeepWrites(h)
      /\ \A t \in AllSessions \ {h} : StaysThere(t)
      /\ DOMAIN pending'[h] = {}
  BY <1>1, RollbackKeeps DEF Raises
<1>3. handler'[h] = IdleHandler
  BY <1>1 DEF AcceptedInv, HandlersOK
<1>4. HandlerOK(h)'
  BY <1>2, <1>3 DEF HandlerOK, Progress, IdleHandler
<1> QED
  BY <1>1, <1>2, <1>4, RequestGoesOn DEF Raises

\* The first step: the delivery is entered in the ledger.
Enters(h, event, row, next) ==
  /\ handler[h].at = "idle" /\ DB!Flush(h, event, row)
  /\ handler' = [handler EXCEPT ![h] = next]
  /\ UNCHANGED <<worker, sent, unanswered>>

LEMMA RequestEnters ==
  ASSUME AcceptedInv, NEW h \in Handlers, NEW event \in Webhooks, NEW row, NEW next,
         Enters(h, event, row, next), row # "absent",
         DOMAIN next = {"at", "event", "status", "mirror"}, next.event = event,
         next.at \in {"recorded", "known", "finished"},
         next.at = "recorded" => ContactOf[event.payment] # NoContact,
         next.at = "known" => ~NeedsCustomer(h, event.payment),
         next.at = "finished" => row # "recorded"
  PROVE  AcceptedInv'
<1> DEFINE p == event.payment
<1>1. /\ RowsOK /\ h \in AllSessions /\ HandlerOK(h) /\ handler'[h] = next
      /\ DOMAIN pending[h] = {}
  BY DEF AcceptedInv, HandlersOK, HandlerOK, Progress, AllSessions, Enters
<1>2. event \in Keys /\ p \in Payments /\ RowShape(event, row) /\ There(event, row)
  BY WebhookFacts DEF RowShape, There
<1>3. /\ RowsOK' /\ committed' = committed /\ OthersKeepWrites(h)
      /\ \A t \in AllSessions : StaysThere(t)
      /\ DOMAIN pending'[h] = {event} /\ pending'[h][event] = row
  BY <1>1, <1>2, FlushKeeps DEF Enters
<1>4. ASSUME next.at = "known" PROVE HasCustomer(h)'
  <2>1. ASSUME ContactOf[p] # NoContact PROVE Seen(h, CustomerKey(p))
    <3>1. CustomerOf(h, p) # "absent"
      BY <1>4, <2>1 DEF NeedsCustomer
    <3> QED
      BY <1>2, <3>1, KeyFacts DEF CustomerOf, Seen, There
  <2>2. ASSUME ContactOf[p] # NoContact PROVE Seen(h, CustomerKey(p))'
    BY <1>1, <1>2, <1>3, <2>1, <2>2, KeyFacts DEF StaysThere
  <2> QED
    BY <1>1, <2>2 DEF HasCustomer
<1>5. Progress(h)'
  BY <1>1, <1>3, <1>4 DEF Progress
<1>6. HandlerOK(h)'
  BY <1>1, <1>3, <1>5 DEF HandlerOK
<1> QED
  BY <1>3, <1>6, RequestGoesOn DEF Enters

\* The last step: what was seen to is committed with the entry.
LEMMA RequestFinishes ==
  ASSUME AcceptedInv, NEW h \in Handlers, Finish(h)
  PROVE  AcceptedInv'
<1> DEFINE event == handler[h].event
           p == event.payment
<1>1. /\ handler[h].at = "finished" /\ DB!Commit(h) /\ Answers(h, event)
      /\ RowsOK /\ h \in AllSessions /\ HandlerOK(h)
  BY DEF AcceptedInv, HandlersOK, AllSessions, Finish
<1>2. /\ event \in Webhooks /\ event \in DOMAIN pending[h] /\ p \in Payments
      /\ event = Webhook(event.table, p)
      /\ DOMAIN pending[h] \cap Webhooks \subseteq {event}
  BY <1>1, WebhookFacts DEF HandlerOK
<1>3. /\ RowsOK' /\ OthersKeepWrites(h) /\ DOMAIN pending'[h] = {}
      /\ \A t \in AllSessions : StaysThere(t)
      /\ \A k \in Keys : committed'[k] = DB!Sees(h, k)
  BY <1>1, CommitKeeps
<1>4. /\ handler' = [handler EXCEPT ![h] = IdleHandler]
      /\ UNCHANGED <<worker, sent>>
      /\ unanswered' = unanswered \/ unanswered' = unanswered \ {event}
  BY <1>1 DEF Answers
<1>5. /\ handler' = [g \in Handlers |-> handler'[g]] /\ handler'[h] = IdleHandler
      /\ \A g \in Handlers \ {h} : handler'[g] = handler[g]
  BY <1>4 DEF AcceptedInv, HandlersOK
<1>6. HandlersOK'
  <2>1. HandlerOK(h)'
    BY <1>3, <1>5 DEF HandlerOK, Progress, IdleHandler
  <2> QED
    BY <1>3, <1>5, <2>1, OtherRequests DEF HandlersOK, AllSessions
<1>7. WorkersOK'
  <2>1. h \notin Workers
    BY LiveAssumption DEF LiveAssumption
  <2> QED
    BY <1>3, <1>4, <2>1, OtherWorkers DEF WorkersOK, AllSessions, AcceptedInv
<1>8. ASSUME NEW k \in Keys, There(k, committed[k]) PROVE There(k, committed'[k])
  BY <1>1, <1>3, <1>8 DEF RowsOK, Writes, DB!Sees
<1>9. ASSUME NEW e \in (sent \ unanswered)' PROVE committed'[e] # "absent"
  <2>1. e \in Webhooks /\ e \in Keys /\ e.table # "cases"
    BY <1>4, <1>9, WebhookFacts DEF AcceptedInv
  <2>2. CASE e = event
    <3>1. There(e, committed'[e])
      BY <1>1, <1>2, <1>3, <2>1, <2>2 DEF RowsOK, Writes, DB!Sees
    <3> QED
      BY <2>1, <3>1 DEF There
  <2>3. CASE e # event
    <3>1. committed[e] # "absent"
      BY <1>4, <1>9, <2>3 DEF AcceptedInv, AcceptedFailureHasCase
    <3> QED
      BY <1>2, <1>3, <2>1, <2>3, <3>1 DEF DB!Sees
  <2> QED
    BY <2>2, <2>3
<1>10. ASSUME NEW q \in Payments, committed'[Webhook("payment.failed", q)] = "recorded"
       PROVE  /\ There(CaseKey(q), committed'[CaseKey(q)])
              /\ ContactOf[q] # NoContact => There(CustomerKey(q), committed'[CustomerKey(q)])
  <2> DEFINE e == Webhook("payment.failed", q)
  <2>1. e \in Webhooks /\ e \in Keys /\ e.payment = q /\ e.table = "payment.failed"
    BY WebhookFacts DEF Webhooks, Webhook
  <2>2. CASE e = event
    <3>1. pending[h][event] = "recorded"
      BY <1>2, <1>3, <1>10, <2>1, <2>2 DEF DB!Sees
    <3>2. HasCustomer(h) /\ HasCase(h)
      BY <1>1, <2>1, <2>2, <3>1 DEF HandlerOK, Progress
    <3> QED
      BY <1>3, <2>1, <2>2, <3>2, KeyFacts DEF HasCustomer, HasCase, Seen
  <2>3. CASE e # event
    <3>1. committed[e] = "recorded"
      BY <1>2, <1>3, <1>10, <2>1, <2>3 DEF DB!Sees
    <3>2. /\ There(CaseKey(q), committed[CaseKey(q)])
          /\ ContactOf[q] # NoContact => There(CustomerKey(q), committed[CustomerKey(q)])
      BY <3>1, KeyFacts DEF AcceptedInv, AcceptedFailureHasCase, There
    <3> QED
      BY <1>8, <3>2, KeyFacts
  <2> QED
    BY <2>2, <2>3
<1>11. AcceptedFailureHasCase'
  BY <1>9, <1>10, KeyFacts DEF AcceptedFailureHasCase, There
<1> QED
  BY <1>3, <1>4, <1>6, <1>7, <1>11 DEF AcceptedInv

LEMMA RequestSteps ==
  ASSUME AcceptedInv, NEW h \in Handlers,
         HandlerStep(h) \/ HandlerFails(h) \/ Reject(h)
  PROVE  AcceptedInv'
<1> DEFINE event == handler[h].event
           p == event.payment
           IsKept == DOMAIN handler[h] = {"at", "event", "status", "mirror"}
<1>0. /\ RowsOK /\ HandlerOK(h) /\ h \in AllSessions /\ IsKept
      /\ handler = [g \in Handlers |-> handler[g]]
  BY DEF AcceptedInv, HandlersOK, HandlerOK, AllSessions
<1>1. ASSUME NEW e \in Webhooks, Duplicate(h, e) PROVE AcceptedInv'
  <2>1. /\ handler[h].at = "idle" /\ DB!Sees(h, e) # "absent" /\ Answers(h, e)
        /\ UNCHANGED <<committed, pending>> /\ DOMAIN pending[h] = {}
    BY <1>0, <1>1 DEF Duplicate, HandlerOK, Progress
  <2>2. committed[e] # "absent"
    BY <2>1 DEF DB!Sees
  <2>3. /\ handler' = [handler EXCEPT ![h] = IdleHandler]
        /\ UNCHANGED <<worker, sent>>
        /\ unanswered' = unanswered \/ unanswered' = unanswered \ {e}
    BY <2>1 DEF Answers
  <2>4. /\ RowsOK' /\ OthersKeepWrites(h) /\ \A t \in AllSessions : StaysThere(t)
    BY <1>0, <2>1, WritesOrNotKeeps DEF WritesOrNot
  <2>5. /\ handler' = [g \in Handlers |-> handler'[g]] /\ handler'[h] = IdleHandler
        /\ \A g \in Handlers \ {h} : handler'[g] = handler[g]
    BY <1>0, <2>3
  <2>6. HandlersOK'
    <3>1. HandlerOK(h)'
      BY <2>1, <2>5 DEF HandlerOK, Progress, IdleHandler
    <3> QED
      BY <2>4, <2>5, <3>1, OtherRequests DEF HandlersOK, AllSessions
  <2>7. WorkersOK'
    <3>1. h \notin Workers
      BY LiveAssumption DEF LiveAssumption
    <3> QED
      BY <2>3, <2>4, <3>1, OtherWorkers DEF WorkersOK, AllSessions, AcceptedInv
  <2>8. AcceptedFailureHasCase'
    BY <2>1, <2>2, <2>3 DEF AcceptedInv, AcceptedFailureHasCase
  <2> QED
    BY <2>3, <2>4, <2>6, <2>7, <2>8 DEF AcceptedInv
<1>2. ASSUME NEW e \in Webhooks, Receive(h, e) PROVE AcceptedInv'
  <2> DEFINE needed == NeedsCustomer(h, e.payment)
             next == [at |-> IF needed THEN "recorded" ELSE "known", event |-> e,
                      status |-> "none",
                      mirror |-> IF needed THEN "absent" ELSE MirrorOf(h, e.payment)]
  <2>1. Enters(h, e, "recorded", next)
    BY <1>2 DEF Receive, world, Enters
  <2>2. DOMAIN next = {"at", "event", "status", "mirror"} /\ next.event = e
    OBVIOUS
  <2>3. /\ next.at \in {"recorded", "known"}
        /\ next.at = "recorded" => needed
        /\ next.at = "known" => ~needed
    OBVIOUS
  <2>4. needed => ContactOf[e.payment] # NoContact
    BY DEF NeedsCustomer
  <2> HIDE DEF next
  <2> QED
    BY <2>1, <2>2, <2>3, <2>4, RequestEnters
<1>3. CASE InsertCustomer(h)
  <2> DEFINE row == IF p \in Registered THEN "registered" ELSE "anonymous"
             next == [handler[h] EXCEPT !.at = "known", !.mirror = MirrorOf(h, p)]
  <2>1. /\ handler[h].at = "recorded" /\ DB!Flush(h, CustomerKey(p), row)
        /\ handler' = [handler EXCEPT ![h] = next]
        /\ UNCHANGED <<worker, sent, unanswered>>
    BY <1>0, <1>3 DEF InsertCustomer, world
  <2>2. /\ next.at = "known" /\ next.event = event
        /\ DOMAIN next = {"at", "event", "status", "mirror"}
    BY <1>0
  <2>3. /\ p \in Payments /\ ContactOf[p] # NoContact
        /\ CustomerKey(p) \in Keys \ Webhooks /\ CustomerKey(p).table = "customers"
    BY <1>0, <2>1, WebhookFacts, KeyFacts DEF HandlerOK, Progress
  <2>4. RowShape(CustomerKey(p), row) /\ There(CustomerKey(p), row)
    BY <2>3 DEF RowShape, There
  <2>5. Seen(h, CustomerKey(p))'
    BY <1>0, <2>1, <2>3, <2>4, FlushKeeps
  <2>6. handler'[h] = next
    BY <1>0, <2>1
  <2>7. HasCustomer(h)'
    BY <2>2, <2>5, <2>6 DEF HasCustomer
  <2>8. WritesOrNot(h)
    BY <2>1, <2>3, <2>4 DEF WritesOrNot
  <2> HIDE DEF next
  <2> QED
    BY <2>1, <2>2, <2>7, <2>8, RequestProceeds
<1>4. CASE CustomerConflicts(h)
  BY <1>4, RequestRaises DEF CustomerConflicts, world
<1>5. CASE UpsertPayment(h)
  <2> DEFINE next == [handler[h] EXCEPT !.at = "upserted"]
             status == StatusIn(event)
  <2>1. /\ handler[h].at = "known" /\ handler' = [handler EXCEPT ![h] = next]
        /\ UNCHANGED <<worker, sent, unanswered>>
        /\ UNCHANGED <<committed, pending>> \/ DB!Flush(h, PaymentKey(p), status)
    BY <1>0, <1>5 DEF UpsertPayment, HandlerDoes, world
  <2>2. next.at = "upserted" /\ next.event = event /\ DOMAIN next = {"at", "event", "status", "mirror"}
    BY <1>0
  <2>3. /\ PaymentKey(p) \in Keys \ Webhooks
        /\ RowShape(PaymentKey(p), status) /\ There(PaymentKey(p), status)
    BY <1>0, <2>1, WebhookFacts, KeyFacts DEF HandlerOK, RowShape, There, StatusIn
  <2>4. WritesOrNot(h)
    BY <2>1, <2>3 DEF WritesOrNot
  <2>5. HasCustomer(h) /\ handler'[h] = next
    BY <1>0, <2>1 DEF HandlerOK, Progress
  <2>6. HasCustomer(h)'
    BY <2>1, <2>2, <2>4, <2>5, RequestRemembers
  <2> HIDE DEF next
  <2> QED
    BY <2>1, <2>2, <2>4, <2>6, RequestProceeds
<1>6. CASE UpsertConflicts(h)
  BY <1>6, RequestRaises DEF UpsertConflicts, world
<1>7. CASE LookForCase(h)
  <2> DEFINE next == [handler[h] EXCEPT !.at = "looked", !.status = CaseOf(h, p).status]
  <2>1. /\ handler[h].at = "upserted" /\ handler' = [handler EXCEPT ![h] = next]
        /\ UNCHANGED <<worker, sent, unanswered>> /\ UNCHANGED <<committed, pending>>
    BY <1>0, <1>7 DEF LookForCase, world
  <2>2. /\ next.at = "looked" /\ next.event = event /\ next.status = CaseOf(h, p).status
        /\ DOMAIN next = {"at", "event", "status", "mirror"}
    BY <1>0
  <2>3. WritesOrNot(h)
    BY <2>1 DEF WritesOrNot
  <2>4. HasCustomer(h) /\ handler'[h] = next
    BY <1>0, <2>1 DEF HandlerOK, Progress
  <2>5. p \in Payments /\ HasCustomer(h)' /\ (HasCase(h) => HasCase(h)')
    BY <2>1, <2>2, <2>3, <2>4, RequestRemembers
  <2>6. next.status # "none" => HasCase(h)
    BY <2>2, <2>5, KeyFacts DEF HasCase, Seen, There, CaseOf
  <2> HIDE DEF next
  <2> QED
    BY <2>1, <2>2, <2>3, <2>5, <2>6, RequestProceeds
<1>8. CASE OpenCase(h)
  <2> DEFINE next == [handler[h] EXCEPT !.at = "finished"]
  <2>1. /\ handler[h].at = "looked" /\ handler' = [handler EXCEPT ![h] = next]
        /\ UNCHANGED <<worker, sent, unanswered>>
        /\ DB!Flush(h, CaseKey(p), NewCase)
    BY <1>0, <1>8 DEF OpenCase, HandlerDoes, world
  <2>2. next.at = "finished" /\ next.event = event /\ DOMAIN next = {"at", "event", "status", "mirror"}
    BY <1>0
  <2>3. CaseKey(p) \in Keys \ Webhooks /\ CaseKey(p).table = "cases"
    BY <1>0, <2>1, WebhookFacts, KeyFacts DEF HandlerOK
  <2>4. NewCase.status = "DETECTED" /\ "status" \in DOMAIN NewCase
    BY DEF NewCase, NoCase
  <2>5. RowShape(CaseKey(p), NewCase) /\ There(CaseKey(p), NewCase)
    BY <2>3, <2>4 DEF RowShape, There
  <2>6. WritesOrNot(h) /\ Seen(h, CaseKey(p))'
    BY <1>0, <2>1, <2>3, <2>5, FlushKeeps DEF WritesOrNot
  <2>7. HasCustomer(h) /\ handler'[h] = next
    BY <1>0, <2>1 DEF HandlerOK, Progress
  <2>8. HasCustomer(h)' /\ HasCase(h)'
    BY <2>1, <2>2, <2>6, <2>7, RequestRemembers DEF HasCase
  <2> HIDE DEF next
  <2> QED
    BY <2>1, <2>2, <2>6, <2>8, RequestProceeds
<1>9. CASE NothingToDo(h)
  <2> DEFINE next == [handler[h] EXCEPT !.at = "finished"]
  <2>1. /\ handler[h].at = "looked" /\ handler' = [handler EXCEPT ![h] = next]
        /\ UNCHANGED <<worker, sent, unanswered>> /\ UNCHANGED <<committed, pending>>
        /\ event.table = "payment.failed" => handler[h].status # "none"
    BY <1>0, <1>9 DEF NothingToDo, HandlerDoes, world
  <2>2. next.at = "finished" /\ next.event = event /\ DOMAIN next = {"at", "event", "status", "mirror"}
    BY <1>0
  <2>3. WritesOrNot(h)
    BY <2>1 DEF WritesOrNot
  <2>4. /\ HasCustomer(h) /\ handler'[h] = next
        /\ event.table = "payment.failed" => HasCase(h)
    BY <1>0, <2>1 DEF HandlerOK, Progress
  <2>5. HasCustomer(h)' /\ (event.table = "payment.failed" => HasCase(h)')
    BY <2>1, <2>2, <2>3, <2>4, RequestRemembers
  <2> HIDE DEF next
  <2> QED
    BY <2>1, <2>2, <2>3, <2>5, RequestProceeds
<1>10. CASE SelfHeal(h)
  <2> DEFINE next == [handler[h] EXCEPT !.at = "finished"]
             row == CaseOf(h, p)
             healed == IF handler[h].status = "RECOVERED" THEN row
                       ELSE Recovered(row, "SELF_HEALED")
  <2>1. /\ handler[h].at = "looked" /\ handler' = [handler EXCEPT ![h] = next]
        /\ UNCHANGED <<worker, sent, unanswered>>
        /\ event.table = "payment.captured" /\ handler[h].status # "none"
        /\ DB!Flush(h, CaseKey(p), healed)
    BY <1>0, <1>10 DEF SelfHeal, HandlerDoes, world
  <2>2. next.at = "finished" /\ next.event = event /\ DOMAIN next = {"at", "event", "status", "mirror"}
    BY <1>0
  <2>3. /\ HasCustomer(h) /\ HasCase(h) /\ handler'[h] = next
    BY <1>0, <2>1 DEF HandlerOK, Progress
  <2>4. CaseKey(p) \in Keys \ Webhooks /\ CaseKey(p).table = "cases"
    BY <1>0, <2>1, WebhookFacts, KeyFacts DEF HandlerOK
  <2>5. "status" \in DOMAIN row /\ row.status # "none"
    BY <1>0, <2>3, <2>4 DEF HasCase, Seen, There, CaseOf, RowsOK, Writes, RowShape, DB!Sees
  <2>6. "status" \in DOMAIN healed /\ healed.status # "none"
    BY <2>5 DEF Recovered
  <2> HIDE DEF healed
  <2>7. RowShape(CaseKey(p), healed) /\ There(CaseKey(p), healed)
    BY <2>4, <2>6 DEF RowShape, There
  <2>8. WritesOrNot(h)
    BY <2>1, <2>4, <2>7 DEF WritesOrNot
  <2>9. HasCustomer(h)'
    BY <2>1, <2>2, <2>3, <2>8, RequestRemembers
  <2> HIDE DEF next
  <2> QED
    BY <2>1, <2>2, <2>8, <2>9, RequestProceeds
<1>11. CASE CaptureTooLate(h)
  BY <1>11, RequestRaises DEF CaptureTooLate, world
<1>12. CASE Finish(h)
  BY <1>12, RequestFinishes
<1>13. CASE HandlerFails(h)
  BY <1>13, RequestRaises DEF HandlerFails
<1>14. CASE Reject(h)
  <2> PICK e \in unanswered :
        /\ handler[h].at = "idle" /\ DB!Flush(h, e, "rejected")
        /\ handler' = [handler EXCEPT ![h].at = "finished", ![h].event = e]
        /\ UNCHANGED <<worker, sent, unanswered>>
    BY <1>14 DEF Reject
  <2> DEFINE next == [handler[h] EXCEPT !.at = "finished", !.event = e]
  <2>1. Enters(h, e, "rejected", next)
    BY <1>0 DEF Enters
  <2>2. next.at = "finished" /\ next.event = e /\ DOMAIN next = {"at", "event", "status", "mirror"}
    BY <1>0
  <2>3. e \in Webhooks
    BY DEF AcceptedInv
  <2>4. /\ next.at \in {"recorded", "known", "finished"}
        /\ next.at # "recorded" /\ next.at # "known"
    BY <2>2
  <2>5. "rejected" # "absent" /\ "rejected" # "recorded"
    OBVIOUS
  <2> HIDE DEF next
  <2> QED
    BY <2>1, <2>2, <2>3, <2>4, <2>5, RequestEnters
<1> QED
  BY <1>1, <1>2, <1>3, <1>4, <1>5, <1>6, <1>7, <1>8, <1>9, <1>10, <1>11, <1>12, <1>13, <1>14
     DEF HandlerStep

-----------------------------------------------------------------------------
(***************************************************************************)
(* The steps of a worker.                                                  *)
(***************************************************************************)

\* What a worker holds in its memory is about payments.
Holds(next) ==
  /\ DOMAIN next = {"at", "todo", "payment", "status", "mirror"}
  /\ next.todo \subseteq Payments
  /\ next.at \notin {"idle", "claimed"} => next.payment \in Payments

LEMMA WorkerProceeds ==
  ASSUME AcceptedInv, NEW w \in Workers, WritesOrNot(w),
         UNCHANGED <<handler, sent, unanswered>>,
         NEW next, worker' = [worker EXCEPT ![w] = next], Holds(next),
         next.at \in {"started", "paid"} => CaseKey(next.payment) \in DOMAIN pending'[w]
  PROVE  AcceptedInv'
<1>1. RowsOK /\ w \in AllSessions /\ WorkerOK(w) /\ worker'[w] = next
  BY DEF AcceptedInv, WorkersOK, AllSessions
<1>2. /\ RowsOK' /\ committed' = committed /\ OthersKeepWrites(w)
      /\ \A t \in AllSessions : StaysThere(t)
      /\ DOMAIN pending'[w] \cap Webhooks = DOMAIN pending[w] \cap Webhooks
  BY <1>1, WritesOrNotKeeps
<1>3. WorkerOK(w)'
  BY <1>1, <1>2 DEF WorkerOK, Holds
<1> QED
  BY <1>2, <1>3, WorkerGoesOn

\* The first or a later write of the case a tick has loaded.
LEMMA WorkerWritesCase ==
  ASSUME AcceptedInv, NEW w \in Workers, worker[w].payment \in Payments,
         NEW row, "status" \in DOMAIN row, row.status # "none",
         DB!Flush(w, CaseKey(worker[w].payment), row),
         UNCHANGED <<handler, sent, unanswered>>,
         NEW next, worker' = [worker EXCEPT ![w] = next], Holds(next),
         next.payment = worker[w].payment \/ next.at = "claimed"
  PROVE  AcceptedInv'
<1> DEFINE k == CaseKey(worker[w].payment)
<1>1. RowsOK /\ w \in AllSessions
  BY DEF AcceptedInv, AllSessions
<1>2. k \in Keys \ Webhooks /\ RowShape(k, row) /\ There(k, row)
  BY KeyFacts DEF RowShape, There
<1>3. WritesOrNot(w)
  BY <1>2 DEF WritesOrNot
<1>4. k \in DOMAIN pending'[w]
  BY <1>1, <1>2, FlushKeeps
<1> QED
  BY <1>3, <1>4, WorkerProceeds

LEMMA TickRaisesKeeps ==
  ASSUME AcceptedInv, NEW w \in Workers, TickRaises(w)
  PROVE  AcceptedInv'
<1>1. RowsOK /\ w \in AllSessions
  BY DEF AcceptedInv, AllSessions
<1>2. /\ RowsOK' /\ committed' = committed /\ OthersKeepWrites(w)
      /\ \A t \in AllSessions \ {w} : StaysThere(t)
      /\ DOMAIN pending'[w] = {}
  BY <1>1, RollbackKeeps DEF TickRaises
<1>3. worker' = [worker EXCEPT ![w] = IdleWorker] /\ worker'[w] = IdleWorker
  BY DEF TickRaises, AcceptedInv, WorkersOK
<1>4. WorkerOK(w)'
  BY <1>2, <1>3 DEF WorkerOK, IdleWorker
<1> QED
  BY <1>2, <1>3, <1>4, WorkerGoesOn DEF TickRaises

LEMMA TickEndsKeeps ==
  ASSUME AcceptedInv, NEW w \in Workers, TickEnds(w)
  PROVE  AcceptedInv'
<1>1. RowsOK /\ w \in AllSessions /\ WorkerOK(w)
  BY DEF AcceptedInv, AllSessions, WorkersOK
<1>2. /\ RowsOK' /\ OthersKeepWrites(w) /\ DOMAIN pending'[w] = {}
      /\ \A t \in AllSessions : StaysThere(t)
      /\ \A k \in Keys : committed'[k] = DB!Sees(w, k)
  BY <1>1, CommitKeeps DEF TickEnds
<1>3. worker' = [worker EXCEPT ![w] = IdleWorker] /\ worker'[w] = IdleWorker
  BY DEF TickEnds, AcceptedInv, WorkersOK
<1>4. WorkerOK(w)'
  BY <1>2, <1>3 DEF WorkerOK, IdleWorker
<1>5. ASSUME NEW k \in Keys, There(k, committed[k]) PROVE There(k, committed'[k])
  BY <1>1, <1>2, <1>5 DEF RowsOK, Writes, DB!Sees
<1>6. \A e \in Webhooks : committed'[e] = committed[e]
  BY <1>1, <1>2, WebhookFacts DEF WorkerOK, DB!Sees
<1> QED
  BY <1>2, <1>3, <1>4, <1>5, <1>6, WorkerGoesOn DEF TickEnds, world

\* What WorkerDoes leaves of a worker's memory.
After(w, to) ==
  IF to = "claimed" THEN [IdleWorker EXCEPT !.at = to, !.todo = worker[w].todo]
  ELSE [worker[w] EXCEPT !.at = to]

LEMMA WorkerGoesTo ==
  ASSUME AcceptedInv, NEW w \in Workers, NEW from, NEW to, WorkerDoes(w, from, to),
         from \notin {"idle", "claimed"}, to # "idle"
  PROVE  /\ worker[w].at = from /\ worker[w].payment \in Payments
         /\ worker' = [worker EXCEPT ![w] = After(w, to)]
         /\ After(w, to).at = to /\ Holds(After(w, to))
         /\ After(w, to).payment = worker[w].payment \/ After(w, to).at = "claimed"
         /\ UNCHANGED <<handler, sent, unanswered>>
<1>1. WorkerOK(w) /\ worker[w].at = from /\ UNCHANGED <<handler, sent, unanswered>>
  BY DEF AcceptedInv, WorkersOK, WorkerDoes
<1>2. worker' = [worker EXCEPT ![w] = After(w, to)]
  BY DEF WorkerDoes, After, AcceptedInv, WorkersOK
<1>3. CASE to = "claimed"
  BY <1>1, <1>2, <1>3 DEF WorkerOK, After, IdleWorker, Holds
<1>4. CASE to # "claimed"
  BY <1>1, <1>2, <1>4 DEF WorkerOK, After, Holds
<1> QED
  BY <1>3, <1>4

\* A row of a case that may be written again with another status or count.
CaseShape(row) == "status" \in DOMAIN row /\ row.status # "none"

LEMMA WorkerSteps ==
  ASSUME AcceptedInv, NEW w \in Workers, WorkerStep(w) \/ WorkerFails(w)
  PROVE  AcceptedInv'
<1> DEFINE p == worker[w].payment
           row == CaseOf(w, p)
<1>0. /\ RowsOK /\ WorkerOK(w) /\ w \in AllSessions
      /\ worker = [v \in Workers |-> worker[v]]
  BY DEF AcceptedInv, WorkersOK, AllSessions
<1>1. ASSUME worker[w].at \notin {"idle", "claimed"}
      PROVE  CaseKey(p) \in Keys /\ CaseKey(p).table = "cases" /\ "status" \in DOMAIN row
  BY <1>0, <1>1, KeyFacts DEF WorkerOK, RowsOK, Writes, RowShape, CaseOf, DB!Sees
<1>2. ASSUME worker[w].at \in {"started", "paid"} PROVE CaseShape(row)
  BY <1>0, <1>1, <1>2 DEF WorkerOK, RowsOK, Writes, There, CaseOf, DB!Sees, CaseShape
<1>3. CASE Claim(w)
  <2> DEFINE claimed == {q \in Payments : CaseOf(w, q).status \in Claimable}
             next == [IdleWorker EXCEPT !.at = "claimed", !.todo = claimed]
  <2>1. worker' = [worker EXCEPT ![w] = next] /\ UNCHANGED <<handler, sent, unanswered>>
    BY <1>3 DEF Claim, world
  <2>2. next.at = "claimed" /\ Holds(next) /\ WritesOrNot(w)
    BY <1>3 DEF Claim, IdleWorker, Holds, WritesOrNot
  <2> HIDE DEF next
  <2> QED
    BY <2>1, <2>2, WorkerProceeds
<1>4. CASE Load(w)
  <2> PICK q \in worker[w].todo :
        /\ worker' = [worker EXCEPT ![w] =
             [at |-> "loading", todo |-> @.todo \ {q}, payment |-> q,
              status |-> CaseOf(w, q).status, mirror |-> "absent"]]
        /\ UNCHANGED <<committed, pending, handler, sent, unanswered>>
    BY <1>4 DEF Load, world
  <2> DEFINE next == [at |-> "loading", todo |-> worker[w].todo \ {q}, payment |-> q,
                      status |-> CaseOf(w, q).status, mirror |-> "absent"]
  <2>1. worker' = [worker EXCEPT ![w] = next]
    BY <1>0
  <2>2. next.at = "loading" /\ Holds(next) /\ WritesOrNot(w)
    BY <1>0 DEF WorkerOK, Holds, WritesOrNot
  <2> HIDE DEF next
  <2> QED
    BY <2>1, <2>2, WorkerProceeds
<1>5. CASE LoadPayment(w)
  <2> DEFINE next == [worker[w] EXCEPT !.at = "loaded", !.mirror = MirrorOf(w, p)]
  <2>1. /\ worker[w].at = "loading" /\ worker' = [worker EXCEPT ![w] = next]
        /\ UNCHANGED <<committed, pending, handler, sent, unanswered>>
    BY <1>0, <1>5 DEF LoadPayment, world
  <2>2. next.at = "loaded" /\ Holds(next) /\ WritesOrNot(w)
    BY <1>0, <2>1 DEF WorkerOK, Holds, WritesOrNot
  <2> HIDE DEF next
  <2> QED
    BY <2>1, <2>2, WorkerProceeds
<1>6. CASE Skip(w)
  <2>1. WritesOrNot(w) /\ WorkerDoes(w, "loaded", "claimed")
    BY <1>6 DEF Skip, WritesOrNot
  <2> QED
    BY <2>1, WorkerGoesTo, WorkerProceeds
<1>7. CASE Start(w)
  <2> DEFINE new == [row EXCEPT !.status = "ANALYZING"]
  <2>1. WorkerDoes(w, "loaded", "started") /\ DB!Flush(w, CaseKey(p), new)
    BY <1>7 DEF Start
  <2>2. "status" \in DOMAIN new /\ new.status # "none"
    BY <1>1, <2>1 DEF WorkerDoes
  <2> HIDE DEF new
  <2> QED
    BY <2>1, <2>2, WorkerGoesTo, WorkerWritesCase
<1>8. CASE EndWithoutAttempt(w)
  <2>1. /\ WorkerDoes(w, "started", "claimed")
        /\ \/ DB!Flush(w, CaseKey(p), Unrecovered(row))
           \/ DB!Flush(w, CaseKey(p), [row EXCEPT !.status = "BLOCKED"])
    BY <1>8 DEF EndWithoutAttempt
  <2>2. CaseShape(row)
    BY <1>2, <2>1 DEF WorkerDoes
  <2>3. CaseShape(Unrecovered(row)) /\ CaseShape([row EXCEPT !.status = "BLOCKED"])
    BY <2>2 DEF CaseShape, Unrecovered
  <2> QED
    BY <2>1, <2>3, WorkerGoesTo, WorkerWritesCase DEF CaseShape
<1>9. CASE Attempt(w)
  <2> DEFINE new == [row EXCEPT !.actions = @ + 1]
  <2>1. \/ WorkerDoes(w, "started", "paid") /\ DB!Flush(w, CaseKey(p), new)
        \/ WorkerDoes(w, "started", "claimed") /\ DB!Flush(w, CaseKey(p), Unrecovered(new))
    BY <1>9 DEF Attempt
  <2>2. CaseShape(row)
    BY <1>2, <2>1 DEF WorkerDoes
  <2>3. CaseShape(new)
    BY <2>2 DEF CaseShape
  <2>4. CaseShape(Unrecovered(new))
    BY <2>3 DEF CaseShape, Unrecovered
  <2> HIDE DEF new
  <2> QED
    BY <2>1, <2>3, <2>4, WorkerGoesTo, WorkerWritesCase DEF CaseShape
<1>10. CASE LinkRefused(w)
  <2> DEFINE new == [row EXCEPT !.status = "FAILED", !.actions = @ + 1]
  <2>1. WorkerDoes(w, "started", "claimed") /\ DB!Flush(w, CaseKey(p), new)
    BY <1>10 DEF LinkRefused
  <2>2. CaseShape(row)
    BY <1>2, <2>1 DEF WorkerDoes
  <2>3. CaseShape(new)
    BY <2>2 DEF CaseShape
  <2> HIDE DEF new
  <2> QED
    BY <2>1, <2>3, WorkerGoesTo, WorkerWritesCase DEF CaseShape
<1>11. CASE BookMoney(w)
  <2> DEFINE new == Recovered(row, "RECOVERED")
             both == DB!Written(DB!Written(pending[w], CaseKey(p), new),
                                PaymentKey(p), "captured")
  <2>1. /\ WorkerDoes(w, "paid", "claimed") /\ UNCHANGED committed
        /\ pending' = [pending EXCEPT ![w] = both]
    BY <1>0, <1>11 DEF BookMoney
  <2>2. CaseShape(row) /\ p \in Payments
    BY <1>2, <2>1, WorkerGoesTo DEF WorkerDoes
  <2>3. CaseShape(new)
    BY <2>2 DEF CaseShape, Recovered
  <2> HIDE DEF new
  <2>4. /\ DOMAIN both = DOMAIN pending[w] \cup {CaseKey(p), PaymentKey(p)}
        /\ both[CaseKey(p)] = new /\ both[PaymentKey(p)] = "captured"
        /\ \A k \in DOMAIN pending[w] \ {CaseKey(p), PaymentKey(p)} :
             both[k] = pending[w][k]
    BY <2>2, KeyFacts DEF DB!Written
  <2> HIDE DEF both
  <2>5. /\ RowShape(CaseKey(p), new) /\ There(CaseKey(p), new)
        /\ RowShape(PaymentKey(p), "captured") /\ There(PaymentKey(p), "captured")
    BY <2>2, <2>3, KeyFacts DEF RowShape, There, CaseShape
  <2>6. /\ DOMAIN both \subseteq Keys
        /\ \A k \in DOMAIN both : RowShape(k, both[k]) /\ There(k, both[k])
    BY <1>0, <2>2, <2>4, <2>5, KeyFacts DEF RowsOK, Writes
  <2>7. /\ RowsOK' /\ OthersKeepWrites(w) /\ pending'[w] = both
        /\ \A t \in AllSessions : StaysThere(t)
    BY <1>0, <2>1, <2>4, <2>6, WriteKeeps
  <2>8. /\ worker' = [worker EXCEPT ![w] = After(w, "claimed")]
        /\ After(w, "claimed").at = "claimed" /\ Holds(After(w, "claimed"))
        /\ UNCHANGED <<handler, sent, unanswered>>
    BY <2>1, WorkerGoesTo
  <2>9. WorkerOK(w)'
    <3>1. worker'[w] = After(w, "claimed")
      BY <1>0, <2>8
    <3>2. DOMAIN pending'[w] \cap Webhooks = {}
      BY <1>0, <2>2, <2>4, <2>7, KeyFacts DEF WorkerOK
    <3> QED
      BY <2>8, <3>1, <3>2 DEF WorkerOK, Holds
  <2> QED
    BY <2>1, <2>7, <2>8, <2>9, WorkerGoesOn
<1>12. CASE TickEnds(w)
  BY <1>12, TickEndsKeeps
<1>13. CASE HumanNeeded(w) \/ WorkerFails(w)
  BY <1>13, TickRaisesKeeps DEF HumanNeeded, WorkerFails
<1> QED
  BY <1>3, <1>4, <1>5, <1>6, <1>7, <1>8, <1>9, <1>10, <1>11, <1>12, <1>13 DEF WorkerStep

-----------------------------------------------------------------------------
(***************************************************************************)
(* The theorem.                                                            *)
(***************************************************************************)

LEMMA InitHolds == Init => AcceptedInv
<1> SUFFICES ASSUME Init PROVE AcceptedInv
  OBVIOUS
<1>1. /\ committed = [k \in Keys |-> IF k.table = "cases" THEN NoCase ELSE "absent"]
      /\ pending = [s \in AllSessions |-> DB!NoWrites]
      /\ \A s \in AllSessions : DOMAIN pending[s] = {}
  BY DEF Init, AllSessions, DB!NoWrites
<1>2. RowsOK
  BY <1>1 DEF RowsOK, Writes, RowShape, NoCase
<1>3. HandlersOK
  BY <1>1 DEF Init, HandlersOK, HandlerOK, Progress, IdleHandler, AllSessions
<1>4. WorkersOK
  BY <1>1 DEF Init, WorkersOK, WorkerOK, IdleWorker, AllSessions
<1>5. sent \cup unanswered \subseteq Webhooks /\ unanswered = sent
  BY DEF Init, Webhooks
<1>6. \A p \in Payments : committed[Webhook("payment.failed", p)] # "recorded"
  <2> TAKE p \in Payments
  <2>1. Webhook("payment.failed", p) \in Keys /\ Webhook("payment.failed", p).table # "cases"
    BY DEF Keys, Webhook
  <2> QED
    BY <1>1, <2>1
<1> QED
  BY <1>2, <1>3, <1>4, <1>5, <1>6 DEF AcceptedInv, AcceptedFailureHasCase

LEMMA NextKeeps == AcceptedInv /\ [Next]_vars => AcceptedInv'
<1> SUFFICES ASSUME AcceptedInv, [Next]_vars PROVE AcceptedInv'
  OBVIOUS
<1>1. ASSUME NEW h \in Handlers, HandlerStep(h) \/ HandlerFails(h) \/ Reject(h)
      PROVE  AcceptedInv'
  BY <1>1, RequestSteps
<1>2. ASSUME NEW w \in Workers, WorkerStep(w) \/ WorkerFails(w) PROVE AcceptedInv'
  BY <1>2, WorkerSteps
<1>3. ASSUME NEW w \in Workers, NEW h \in Handlers, BreakDeadlock(w, h) PROVE AcceptedInv'
  BY <1>3, TickRaisesKeeps, RequestRaises DEF BreakDeadlock, world
<1>4. CASE UNCHANGED <<committed, pending, handler, worker, sent, unanswered>>
  BY <1>4 DEF AcceptedInv, RowsOK, Writes, HandlersOK, HandlerOK, Progress, HasCustomer,
              HasCase, Seen, DB!Sees, WorkersOK, WorkerOK, AcceptedFailureHasCase
<1>5. ASSUME NEW p \in Payments, CustomerPays(p) PROVE AcceptedInv'
  <2>1. /\ UNCHANGED <<committed, pending, handler, worker>>
        /\ sent' = sent \cup {Webhook("payment.captured", p)}
        /\ unanswered' = unanswered \cup {Webhook("payment.captured", p)}
    BY <1>5 DEF CustomerPays
  <2>2. RowsOK' /\ HandlersOK' /\ WorkersOK'
    BY <2>1 DEF AcceptedInv, RowsOK, Writes, HandlersOK, HandlerOK, Progress, HasCustomer,
                HasCase, Seen, DB!Sees, WorkersOK, WorkerOK
  <2>3. (sent \cup unanswered \subseteq Webhooks)' /\ AcceptedFailureHasCase'
    BY <2>1 DEF AcceptedInv, AcceptedFailureHasCase, Webhooks
  <2> QED
    BY <2>2, <2>3 DEF AcceptedInv
<1>6. ASSUME NEW p \in Payments, GrowOld(p) PROVE AcceptedInv'
  BY <1>4, <1>6 DEF GrowOld
<1>7. ASSUME NEW w \in Workers, Sleep(w) PROVE AcceptedInv'
  BY <1>4, <1>7 DEF Sleep, vars, world
<1>8. CASE UNCHANGED vars
  BY <1>4, <1>8 DEF vars, world
<1> QED
  BY <1>1, <1>2, <1>3, <1>5, <1>6, <1>7, <1>8 DEF Next

\* Whatever order, repetition, loss or crash: a webhook that was answered is in
\* the ledger, and a failure entered there has its case and its customer
\* (ingest_event in app/services/ingest.py does all of it in one transaction).
THEOREM FailuresAreKept == Spec => []AcceptedFailureHasCase
<1>1. AcceptedInv => AcceptedFailureHasCase
  BY DEF AcceptedInv
<1> QED
  BY <1>1, InitHolds, NextKeeps, PTL DEF Spec
=============================================================================
