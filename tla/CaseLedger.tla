----------------------------- MODULE CaseLedger -----------------------------
(***************************************************************************)
(* The case service and the audit log (app/services/case_service.py,       *)
(* app/services/audit.py) under those who call them in sessions of their   *)
(* own: webhook requests that open and heal cases, workers that move them, *)
(* and humans who decide escalations (app/main.py).  LiveRecovery has what *)
(* these sessions do to payments and money; here are the references they   *)
(* mint and the events they append.                                        *)
(*                                                                         *)
(* A tick's moves of one case are cut to the first and the last: those     *)
(* between write the same row and append in the same way.                  *)
(***************************************************************************)
EXTENDS CaseFSM, Naturals, FiniteSetsExt, Functions

CONSTANTS Payments,     \* failed payments
          Escalated,    \* those whose case an earlier batch run, if any, left ESCALATED
          Requests,     \* webhook requests that can be in progress at once
          Workers,      \* worker processes
          Humans,       \* decisions that can be in progress at once
          MaxFailures,  \* bound on crashes
          MaxEvents     \* humans stop deciding on a case with so many events

ASSUME LedgerAssumption ==
  /\ IsFiniteSet(Payments) /\ Escalated \subseteq Payments
  /\ Requests \cap Workers = {} /\ Humans \cap (Requests \cup Workers) = {}
  /\ MaxFailures \in Nat /\ MaxEvents \in Nat

VARIABLES
  committed, pending,   \* the database: see Sessions
  audit,        \* the committed audit events, per payment whose case they are of
  unsaved,      \* those a session has inserted and not committed
  session,      \* what each session is doing, with what it has read
  failures

vars == <<committed, pending, audit, unsaved, session, failures>>

AllSessions == Requests \cup Workers \cup Humans

CounterKey == [table |-> "counters", name |-> "case_ref"]
CaseKey(p) == [table |-> "cases", payment |-> p]
EscalationKey(p) == [table |-> "escalations", payment |-> p]
Keys == {CounterKey} \cup [table : {"cases", "escalations"}, payment : Payments]

DB == INSTANCE Sessions WITH Session <- AllSessions, Key <- Keys
Log == INSTANCE AuditLog WITH Case <- Payments, log <- audit

\* Rows.  Nothing deletes one, so "there" only ever becomes true.
NoCounter == [there |-> FALSE, value |-> 0]
NoCase == [status |-> "none", ref |-> 0]
Counter(s) == DB!Sees(s, CounterKey)
CaseOf(s, p) == DB!Sees(s, CaseKey(p))
EscalationOf(s, p) == DB!Sees(s, EscalationKey(p))

Nobody == CHOOSE p \in Payments : TRUE
Idle == [at |-> "idle", payment |-> Nobody, status |-> "none",
         counter |-> NoCounter, last |-> Log!Genesis]

\* An earlier batch numbered its cases in some order, and each has its creation
\* event; before the first batch there is not even a counter.
InitialRefs(earlier) == CHOOSE f \in Bijection(earlier, 1..Cardinality(earlier)) : TRUE
InitialRow(k, earlier) ==
  IF k = CounterKey
  THEN IF earlier = {} THEN NoCounter
       ELSE [there |-> TRUE, value |-> Cardinality(earlier)]
  ELSE IF k.table = "cases"
  THEN IF k.payment \in earlier
       THEN [status |-> "ESCALATED", ref |-> InitialRefs(earlier)[k.payment]] ELSE NoCase
  ELSE IF k.payment \in earlier THEN "EXPIRED" ELSE "none"

Init ==
  /\ \E earlier \in {{}, Escalated} :
       /\ committed = [k \in Keys |-> InitialRow(k, earlier)]
       /\ audit = [p \in Payments |->
            IF p \in earlier THEN {[at |-> 1, prev |-> Log!Genesis]} ELSE {}]
  /\ pending = [s \in AllSessions |-> DB!NoWrites]
  /\ unsaved = [s \in AllSessions |-> [p \in Payments |-> {}]]
  /\ session = [s \in AllSessions |-> Idle]
  /\ failures = 0

\* One step of a session, from one point of its program to the next.
Does(s, from, to) ==
  /\ session[s].at = from
  /\ session' = [session EXCEPT ![s].at = to]

Reads(s, from, reading) ==
  /\ session[s].at = from
  /\ session' = [session EXCEPT ![s] = reading]
  /\ UNCHANGED <<committed, pending, audit, unsaved, failures>>

\* An exception leaves session_scope.
Raises(s) ==
  /\ DB!Rollback(s)
  /\ unsaved' = [unsaved EXCEPT ![s] = [p \in Payments |-> {}]]
  /\ session' = [session EXCEPT ![s] = Idle]
  /\ UNCHANGED audit

-----------------------------------------------------------------------------
(***************************************************************************)
(* append_event: the latest event of the case is read, then an event       *)
(* chained onto it is inserted.  An insert waits for nobody, and its       *)
(* created_at is later than that of every event of the case so far; times  *)
(* are counted case by case.                                               *)
(***************************************************************************)

\* Mutant: what the session itself has inserted is not seen.
VisibleEventsCommitted(s, p) == audit[p]
VisibleEvents(s, p) == audit[p] \cup unsaved[s][p]

Now(p) == 1 + Log!Latest(audit[p] \cup UNION {unsaved[s][p] : s \in AllSessions})

ReadLastHash(s) ==
  LET read == session[s]
  IN  Reads(s, "changed",
            [read EXCEPT !.at = "chaining",
                         !.last = Log!Latest(VisibleEvents(s, read.payment))])

\* A worker goes on until the case has ended.
InsertEvent(s) ==
  LET event == [at |-> Now(session[s].payment), prev |-> session[s].last]
  IN  /\ Does(s, "chaining", IF session[s].status = "ANALYZING" THEN "started"
                             ELSE "finished")
      /\ unsaved' = [unsaved EXCEPT ![s][session[s].payment] = @ \cup {event}]
      /\ UNCHANGED <<committed, pending, audit, failures>>

Commit(s) ==
  /\ session[s].at = "finished"
  /\ DB!Commit(s)
  /\ audit' = [p \in Payments |-> audit[p] \cup unsaved[s][p]]
  /\ unsaved' = [unsaved EXCEPT ![s] = [p \in Payments |-> {}]]
  /\ session' = [session EXCEPT ![s] = Idle]
  /\ UNCHANGED failures

Crash(s) ==
  /\ session[s].at # "idle"
  /\ failures < MaxFailures
  /\ failures' = failures + 1
  /\ Raises(s)

-----------------------------------------------------------------------------
(***************************************************************************)
(* A request opens a case: next_ref and create_case.                       *)
(***************************************************************************)

\* The payment has no case; session.get reads the counter.  The payments of a
\* batch come with it, never by webhook.
ReadCounter(s) ==
  \E p \in Payments \ Escalated :
    /\ CaseOf(s, p) = NoCase
    /\ Reads(s, "idle", [Idle EXCEPT !.at = "counting", !.payment = p,
                                     !.counter = Counter(s)])

\* A counter that is missing is inserted first; then the value that was read,
\* plus one, is written.
MintRef(s) ==
  LET read == session[s].counter
  IN  /\ read.there \/ ~Counter(s).there
      /\ Does(s, "counting", "minted")
      /\ DB!Flush(s, CounterKey, [there |-> TRUE, value |-> read.value + 1])
      /\ UNCHANGED <<audit, unsaved, failures>>

MintConflicts(s) ==
  /\ session[s].at = "counting"
  /\ ~session[s].counter.there /\ Counter(s).there
  /\ Raises(s)
  /\ UNCHANGED failures

\* The unique keys of recovery_cases.  Mutant: case_ref is not one.
TakenByPayment(s, ref) == CaseOf(s, session[s].payment) # NoCase
Taken(s, ref) ==
  \/ CaseOf(s, session[s].payment) # NoCase
  \/ \E p \in Payments : CaseOf(s, p).ref = ref

InsertCase(s) ==
  LET ref == session[s].counter.value + 1
  IN  /\ ~Taken(s, ref)
      /\ Does(s, "minted", "changed")
      /\ DB!Flush(s, CaseKey(session[s].payment), [status |-> "DETECTED", ref |-> ref])
      /\ UNCHANGED <<audit, unsaved, failures>>

CaseConflicts(s) ==
  /\ session[s].at = "minted"
  /\ Taken(s, session[s].counter.value + 1)
  /\ Raises(s)
  /\ UNCHANGED failures

-----------------------------------------------------------------------------
(***************************************************************************)
(* transition, by a request that heals a case and by a worker.  The status *)
(* it starts from is the one the session loaded; the flush comes before    *)
(* the event and holds the row until the session ends.                     *)
(***************************************************************************)

Heal(s) ==
  \E p \in Payments :
    LET status == CaseOf(s, p).status
    IN  /\ status \in ActiveStatuses
        /\ Reads(s, "idle", [Idle EXCEPT !.at = "healing", !.payment = p,
                                         !.status = status])

\* The oldest case that is active.  After one case of a tick comes another.
Load(s) ==
  \E p \in Payments :
    /\ session[s].at \in {"idle", "finished"}
    /\ CaseOf(s, p).status = "DETECTED"
    /\ \A q \in Payments :
         CaseOf(s, q).status = "DETECTED" => CaseOf(s, p).ref <= CaseOf(s, q).ref
    /\ Reads(s, session[s].at, [Idle EXCEPT !.at = "claimed", !.payment = p,
                                            !.status = "DETECTED"])

Writes(s, from, status) ==
  LET p == session[s].payment
  IN  /\ session[s].at = from
      /\ DB!Flush(s, CaseKey(p), [CaseOf(s, p) EXCEPT !.status = status])
      /\ session' = [session EXCEPT ![s].at = "changed", ![s].status = status]
      /\ UNCHANGED <<audit, unsaved, failures>>

HealCase(s) ==
  /\ CanTransition(session[s].status, "RECOVERED")
  /\ Writes(s, "healing", "RECOVERED")

StartCase(s) ==
  /\ CanTransition(session[s].status, "ANALYZING")
  /\ Writes(s, "claimed", "ANALYZING")

\* The last move of advance_case, to one of its endings.
EndCase(s) ==
  \E status \in {"RECOVERED", "CLOSED_UNRECOVERED", "BLOCKED", "FAILED"} :
    Writes(s, "started", status)

-----------------------------------------------------------------------------
(***************************************************************************)
(* decide_escalation.  Whether the escalation is still open is not asked,  *)
(* and a batch leaves none open; nor does a worker (Pipeline, CloseRaises).*)
(***************************************************************************)

ReadEscalation(s) ==
  \E p \in Payments :
    /\ EscalationOf(s, p) # "none"
    /\ Cardinality(VisibleEvents(s, p)) < MaxEvents
    /\ Reads(s, "idle", [Idle EXCEPT !.at = "deciding", !.payment = p,
                                     !.status = CaseOf(s, p).status])

\* The case has the status a rejection gives it, so its row is not written:
\* only the escalation's is, and locked.
Reject(s) ==
  /\ session[s].status = "ESCALATED"
  /\ Does(s, "deciding", "changed")
  /\ DB!Flush(s, EscalationKey(session[s].payment), "REJECTED")
  /\ UNCHANGED <<audit, unsaved, failures>>

\* An approval is undone to the savepoint, and answered with an error.
Approve(s) ==
  /\ session[s].at = "deciding"
  /\ ~CanTransition(session[s].status, "APPROVED")
  /\ Raises(s)
  /\ UNCHANGED failures

-----------------------------------------------------------------------------
Appends(s) == ReadLastHash(s) \/ InsertEvent(s) \/ Commit(s)
RequestStep(s) ==
  \/ ReadCounter(s) \/ MintRef(s) \/ MintConflicts(s) \/ InsertCase(s)
  \/ CaseConflicts(s) \/ Heal(s) \/ HealCase(s) \/ Appends(s)
WorkerStep(s) == Load(s) \/ StartCase(s) \/ EndCase(s) \/ Appends(s)
HumanStep(s) == ReadEscalation(s) \/ Reject(s) \/ Approve(s) \/ Appends(s)

\* Nobody has anything to do.
Quiet ==
  /\ \A s \in AllSessions : session[s].at = "idle"
  /\ UNCHANGED vars

Next ==
  \/ \E s \in Requests : RequestStep(s)
  \/ \E s \in Workers : WorkerStep(s)
  \/ \E s \in Humans : HumanStep(s)
  \/ \E s \in AllSessions : Crash(s)
  \/ Quiet

Spec == Init /\ [][Next]_vars
-----------------------------------------------------------------------------
(***************************************************************************)
(* Properties.                                                             *)
(***************************************************************************)

\* The audit rows are an append-only chain per case (audit.py: "Append-only,
\* hash-chained audit log"), although append_event reads the last hash in one
\* statement and inserts in the next: whoever appends holds the row of the case
\* or of its escalation.
KeepsAuditLog == Log!Spec

\* References name one case each and leave no gap, although next_ref may give
\* two sessions the same number: the case that is inserted second is refused,
\* and its increment is undone with it.
RefsAreGapless ==
  LET created == {p \in Payments : committed[CaseKey(p)] # NoCase}
  IN  /\ committed[CounterKey].value = Cardinality(created)
      /\ {committed[CaseKey(p)].ref : p \in created} = 1..Cardinality(created)
=============================================================================
