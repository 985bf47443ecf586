----------------------------- MODULE AuditProofs -----------------------------
(***************************************************************************)
(* Proofs about the audit log: what an append-only log guarantees, and     *)
(* that the sessions of CaseLedger keep one, for any number of payments    *)
(* and sessions.  append_event reads the last hash in one statement and    *)
(* inserts in the next; between the two a session holds the row of the     *)
(* case it moved, or of the escalation it decided, and nobody appends to a *)
(* chain without one of these two rows.  That they are two is safe because *)
(* a case with an escalation is ESCALATED, where no session moves it.      *)
(***************************************************************************)
EXTENDS LedgerProofs, WellFoundedInduction

-----------------------------------------------------------------------------
(***************************************************************************)
(* The latest of some events.                                              *)
(***************************************************************************)

\* By well-founded induction on finite sets: a smallest set without a greatest
\* number would have one without any of its members.
LEMMA FiniteSetHasMax ==
  ASSUME NEW S, IsFiniteSet(S), S # {}, S \subseteq Nat
  PROVE  \E m \in S : \A x \in S : x <= m
<1> DEFINE Bad == {T \in FiniteSubsetsOf(S) : T # {} /\ ~ \E m \in T : \A x \in T : x <= m}
<1>1. SUFFICES ASSUME Bad # {} PROVE FALSE
  <2>1. S \in FiniteSubsetsOf(S)
    BY DEF FiniteSubsetsOf
  <2> QED  BY <1>1, <2>1
<1>2. IsWellFoundedOn(StrictSubsetOrdering(S), FiniteSubsetsOf(S))
  BY FS_StrictSubsetOrderingWellFounded
<1>3. Bad \subseteq FiniteSubsetsOf(S)
  OBVIOUS
<1> HIDE DEF Bad
<1>4. PICK T \in Bad : \A U \in Bad : ~(<<U, T>> \in StrictSubsetOrdering(S))
  BY <1>1, <1>2, <1>3, WFMin, Zenon
<1>5. /\ T \subseteq S /\ IsFiniteSet(T) /\ T # {}
      /\ ~ \E m \in T : \A x \in T : x <= m
  BY DEF Bad, FiniteSubsetsOf
<1>6. PICK a \in T : TRUE
  BY <1>5
<1> DEFINE U == T \ {a}
<1>7. U \subseteq T /\ U # T /\ IsFiniteSet(U)
  BY <1>5, FS_RemoveElement
<1>8. U \notin Bad
  <2>1. <<U, T>> \in StrictSubsetOrdering(S)
    BY <1>5, <1>7 DEF StrictSubsetOrdering
  <2> QED  BY <1>4, <2>1
<1>9. U = {} \/ \E m \in U : \A x \in U : x <= m
  BY <1>5, <1>7, <1>8 DEF Bad, FiniteSubsetsOf
<1>10. CASE U = {}
  <2>1. \A x \in T : x <= a
    BY <1>5, <1>10
  <2> QED  BY <1>5, <2>1
<1>11. ASSUME NEW m \in U, \A x \in U : x <= m PROVE FALSE
  <2>1. /\ m \in T /\ m \in Nat /\ a \in Nat
        /\ \A x \in T : x \in Nat /\ (x = a \/ x <= m)
    BY <1>5, <1>11
  <2>2. m <= a \/ a <= m
    BY <2>1
  <2>3. (\A x \in T : x <= a) \/ (\A x \in T : x <= m)
    BY <2>1, <2>2
  <2> QED  BY <1>5, <2>1, <2>3
<1> QED  BY <1>9, <1>10, <1>11

LEMMA LatestIsLast ==
  ASSUME NEW events \in SUBSET Log!Event, IsFiniteSet(events)
  PROVE  Log!Latest(events) \in Nat /\ \A e \in events : e.at <= Log!Latest(events)
<1> DEFINE times == {e.at : e \in events}
<1>1. CASE events = {}
  BY <1>1 DEF Log!Latest, Log!Genesis
<1>2. CASE events # {}
  <2>1. times # {} /\ times \subseteq Nat /\ IsFiniteSet(times)
    <3> DEFINE time == [e \in events |-> e.at]
    <3>1. times = {time[e] : e \in events}
      OBVIOUS
    <3>2. time \in Surjection(events, times)
      BY <3>1 DEF Surjection
    <3>3. IsFiniteSet(times)
      BY <3>2, FS_Surjection
    <3> QED  BY <1>2, <3>3 DEF Log!Event
  <2> HIDE DEF times
  <2>2. PICK m \in times : \A x \in times : x <= m
    BY <2>1, FiniteSetHasMax
  <2>3. Log!Max(times) \in times /\ \A x \in times : Log!Max(times) >= x
    BY <2>1, <2>2 DEF Log!Max
  <2>4. Log!Latest(events) = Log!Max(times)
    BY <1>2 DEF Log!Latest, times
  <2> QED  BY <2>1, <2>3, <2>4 DEF times
<1> QED  BY <1>1, <1>2

-----------------------------------------------------------------------------
(***************************************************************************)
(* An append-only log.                                                     *)
(***************************************************************************)

\* Later events do not change what came before an earlier one.
LEMMA BeforeIsStable ==
  ASSUME NEW old, NEW new, Log!Extends(old, new), NEW e \in old
  PROVE  Log!Before(new, e.at) = Log!Before(old, e.at)
<1>1. old \subseteq new /\ new \subseteq Log!Event
  BY DEF Log!Extends
<1>2. ASSUME NEW x \in new, x.at < e.at PROVE x \in old
  <2>1. x.at \in Nat /\ e.at \in Nat
    BY <1>1 DEF Log!Event
  <2>2. SUFFICES ASSUME x \notin old PROVE FALSE
    OBVIOUS
  <2>3. e.at < x.at
    BY <2>2 DEF Log!Extends
  <2> QED  BY <1>2, <2>1, <2>3
<1> QED  BY <1>1, <1>2 DEF Log!Before

LEMMA ExtensionIsValid ==
  ASSUME NEW old, NEW new, Log!ChainValid(old), Log!Extends(old, new)
  PROVE  Log!ChainValid(new)
<1> SUFFICES ASSUME NEW e \in new PROVE e.prev = Log!Latest(Log!Before(new, e.at))
  BY DEF Log!ChainValid
<1>1. CASE e \in old
  BY <1>1, BeforeIsStable DEF Log!ChainValid
<1>2. CASE e \notin old
  BY <1>2 DEF Log!Extends
<1> QED  BY <1>1, <1>2

\* Every chain of an append-only log validates, at every commit.
THEOREM LogStaysValid == Log!Spec => []Log!ChainsValid
<1>1. Log!Init => Log!ChainsValid
  BY DEF Log!Init, Log!ChainsValid
<1>2. Log!ChainsValid /\ [Log!Next]_audit => Log!ChainsValid'
  <2> SUFFICES ASSUME Log!ChainsValid, [Log!Next]_audit, NEW c \in Payments
               PROVE  Log!ChainValid(audit'[c])
    BY DEF Log!ChainsValid
  <2>1. CASE Log!Next
    BY <2>1, ExtensionIsValid DEF Log!Next, Log!ChainsValid
  <2>2. CASE UNCHANGED audit
    BY <2>2 DEF Log!ChainsValid
  <2> QED  BY <2>1, <2>2
<1> QED  BY <1>1, <1>2, PTL DEF Log!Spec

LEMMA ExtendsItself ==
  ASSUME NEW events \in SUBSET Log!Event
  PROVE  Log!Extends(events, events)
BY DEF Log!Extends

\* append_event: an event after all the others, chained onto the latest of them.
LEMMA AppendExtends ==
  ASSUME NEW old, NEW more, NEW e, IsFiniteSet(old \cup more),
         Log!Extends(old, old \cup more),
         e = [at |-> 1 + Log!Latest(old \cup more), prev |-> Log!Latest(old \cup more)]
  PROVE  Log!Extends(old, old \cup (more \cup {e}))
<1> DEFINE events == old \cup more
           new == old \cup (more \cup {e})
           last == Log!Latest(events)
<1>1. events \subseteq Log!Event /\ \A f \in events : f.at \in Nat
  BY DEF Log!Extends, Log!Event
<1>2. last \in Nat /\ \A f \in events : f.at <= last
  BY <1>1, LatestIsLast
<1>3. e.at = 1 + last /\ e.prev = last /\ e \in Log!Event
  BY <1>2 DEF Log!Event, Log!Genesis
<1>4. \A f \in events : f.at < e.at
  BY <1>1, <1>2, <1>3
<1>5. Log!Before(new, e.at) = events
  <2>1. ~(e.at < e.at) /\ new = events \cup {e}
    BY <1>2, <1>3
  <2> QED  BY <1>4, <2>1 DEF Log!Before
<1>6. ASSUME NEW f \in events PROVE Log!Before(new, f.at) = Log!Before(events, f.at)
  <2>1. f.at < e.at /\ f.at \in Nat /\ e.at \in Nat
    BY <1>1, <1>3, <1>4 DEF Log!Event
  <2>2. ~(e.at < f.at)
    BY <2>1
  <2>3. new = events \cup {e}
    OBVIOUS
  <2> QED  BY <2>2, <2>3 DEF Log!Before
<1>7. ASSUME NEW f \in new \ old
      PROVE  (\A g \in old : g.at < f.at) /\ f.prev = Log!Latest(Log!Before(new, f.at))
  <2>1. CASE f = e
    BY <1>3, <1>4, <1>5, <2>1
  <2>2. CASE f \in events \ old
    BY <1>6, <2>2 DEF Log!Extends
  <2> QED  BY <2>1, <2>2
<1> QED  BY <1>1, <1>3, <1>7 DEF Log!Extends

-----------------------------------------------------------------------------
(***************************************************************************)
(* The inductive invariant.                                                *)
(***************************************************************************)

HoldsCase(s, p) == CaseKey(p) \in DOMAIN pending[s]
HoldsEscalation(s, p) == EscalationKey(p) \in DOMAIN pending[s]
HoldsChain(s, p) == HoldsCase(s, p) \/ HoldsEscalation(s, p)

\* A row that is written has one writer.
Locked ==
  \A s, t \in AllSessions : \A k \in DOMAIN pending[s] \cap DOMAIN pending[t] : s = t

\* Who changes a case of which an escalation is there writes only the
\* escalation, and no escalation is made.
IsEscalated(p) == committed[EscalationKey(p)] # "none"
EscalationsStay ==
  \A p \in Payments :
    /\ IsEscalated(p) => /\ committed[CaseKey(p)].status = "ESCALATED"
                         /\ \A s \in AllSessions : ~HoldsCase(s, p)
    /\ \A s \in AllSessions : HoldsEscalation(s, p) =>
         IsEscalated(p) /\ pending[s][EscalationKey(p)] # "none"

\* Between its write and its event a session holds the row it wrote.
Appending == {"changed", "chaining", "finished", "started"}
AppendsUnderLock(s) ==
  LET own == session[s]
  IN  /\ own.at \in Appending =>
           IF own.status = "ESCALATED" THEN HoldsEscalation(s, own.payment)
                                       ELSE HoldsCase(s, own.payment)
      /\ own.at = "started" => own.status = "ANALYZING"
      /\ own.at \in {"counting", "minted", "healing", "claimed"} => ~IsEscalated(own.payment)
      /\ own.at = "deciding" => IsEscalated(own.payment)
      /\ own.at = "chaining" => own.last = Log!Latest(VisibleEvents(s, own.payment))

\* What a session has inserted goes on where the committed chain ends, and it
\* holds the chain.
EventsOK(s, p) ==
  /\ IsFiniteSet(unsaved[s][p])
  /\ Log!Extends(audit[p], VisibleEvents(s, p))
  /\ unsaved[s][p] # {} => HoldsChain(s, p)

ChainInv ==
  /\ audit = [p \in Payments |-> audit[p]]
  /\ unsaved = [s \in AllSessions |-> [p \in Payments |-> unsaved[s][p]]]
  /\ \A p \in Payments : IsFiniteSet(audit[p]) /\ audit[p] \subseteq Log!Event
  /\ Locked /\ EscalationsStay
  /\ \A s \in AllSessions : AppendsUnderLock(s) /\ \A p \in Payments : EventsOK(s, p)

-----------------------------------------------------------------------------
(***************************************************************************)
(* A step of one session as the others see it.                             *)
(***************************************************************************)

\* What a session may write that commits nothing.
LEMMA ChainStep ==
  ASSUME LedgerInv, ChainInv, NEW s \in AllSessions, UNCHANGED <<committed, audit>>,
         NEW rows, pending' = [pending EXCEPT ![s] = rows],
         NEW next, session' = [session EXCEPT ![s] = next],
         NEW more, unsaved' = [unsaved EXCEPT ![s] = [p \in Payments |-> more[p]]],
         \A k \in DOMAIN rows \ DOMAIN pending[s] :
           \A t \in AllSessions \ {s} : k \notin DOMAIN pending[t],
         \A p \in Payments :
           /\ CaseKey(p) \in DOMAIN rows => HoldsCase(s, p) \/ ~IsEscalated(p)
           /\ EscalationKey(p) \in DOMAIN rows =>
                IsEscalated(p) /\ rows[EscalationKey(p)] # "none",
         AppendsUnderLock(s)', \A p \in Payments : EventsOK(s, p)'
  PROVE  ChainInv'
<1>1. /\ pending'[s] = rows
      /\ \A t \in AllSessions \ {s} :
           pending'[t] = pending[t] /\ session'[t] = session[t] /\ unsaved'[t] = unsaved[t]
      /\ unsaved' = [t \in AllSessions |-> [p \in Payments |-> unsaved'[t][p]]]
  <2>1. /\ pending = [t \in AllSessions |-> pending[t]]
        /\ session = [t \in AllSessions |-> session[t]]
        /\ unsaved = [t \in AllSessions |-> [p \in Payments |-> unsaved[t][p]]]
    BY DEF LedgerInv, ChainInv
  <2>2. unsaved'[s] = [p \in Payments |-> more[p]]
    BY <2>1
  <2>3. \A t \in AllSessions : unsaved'[t] = [p \in Payments |-> unsaved'[t][p]]
    BY <2>1, <2>2
  <2> QED  BY <2>1, <2>3
<1>2. Locked'
  <2> SUFFICES ASSUME NEW t \in AllSessions, NEW u \in AllSessions, t # u,
                      NEW k \in DOMAIN pending'[t] \cap DOMAIN pending'[u]
               PROVE  FALSE
    BY DEF Locked
  <2>1. CASE t # s /\ u # s
    BY <1>1, <2>1 DEF ChainInv, Locked
  <2>2. CASE t = s
    BY <1>1, <2>2 DEF ChainInv, Locked
  <2>3. CASE u = s
    BY <1>1, <2>3 DEF ChainInv, Locked
  <2> QED  BY <2>1, <2>2, <2>3
<1>3. EscalationsStay'
  <2> SUFFICES ASSUME NEW p \in Payments
               PROVE  /\ IsEscalated(p)' =>
                           /\ committed'[CaseKey(p)].status = "ESCALATED"
                           /\ \A t \in AllSessions : ~HoldsCase(t, p)'
                      /\ \A t \in AllSessions : HoldsEscalation(t, p)' =>
                           IsEscalated(p)' /\ pending'[t][EscalationKey(p)] # "none"
    BY DEF EscalationsStay
  <2>1. /\ IsEscalated(p)' = IsEscalated(p)
        /\ IsEscalated(p) => /\ committed[CaseKey(p)].status = "ESCALATED"
                             /\ \A t \in AllSessions : ~HoldsCase(t, p)
        /\ \A t \in AllSessions : HoldsEscalation(t, p) =>
             IsEscalated(p) /\ pending[t][EscalationKey(p)] # "none"
    BY DEF ChainInv, EscalationsStay, IsEscalated
  <2> QED  BY <1>1, <2>1 DEF HoldsCase, HoldsEscalation
<1>4. ASSUME NEW t \in AllSessions \ {s} PROVE AppendsUnderLock(t)'
  <2> DEFINE p == session[t].payment
  <2>1. AppendsUnderLock(t) /\ session'[t].payment = p
    BY <1>1 DEF ChainInv
  <2>2. /\ HoldsCase(t, p)' <=> HoldsCase(t, p)
        /\ HoldsEscalation(t, p)' <=> HoldsEscalation(t, p)
        /\ IsEscalated(p)' <=> IsEscalated(p)
        /\ VisibleEvents(t, p)' = VisibleEvents(t, p)
    BY <1>1 DEF HoldsCase, HoldsEscalation, IsEscalated, VisibleEvents
  <2> QED  BY <1>1, <2>1, <2>2 DEF AppendsUnderLock
<1>5. ASSUME NEW t \in AllSessions \ {s}, NEW p \in Payments PROVE EventsOK(t, p)'
  BY <1>1 DEF ChainInv, EventsOK, HoldsChain, HoldsCase, HoldsEscalation, VisibleEvents
<1>6. /\ audit' = [p \in Payments |-> audit'[p]]
      /\ \A p \in Payments : IsFiniteSet(audit'[p]) /\ audit'[p] \subseteq Log!Event
  BY DEF ChainInv
<1> QED  BY <1>1, <1>2, <1>3, <1>4, <1>5, <1>6 DEF ChainInv

LEMMA ChainReads ==
  ASSUME LedgerInv, ChainInv, NEW s \in AllSessions, NEW from, NEW reading,
         Reads(s, from, reading), AppendsUnderLock(s)'
  PROVE  ChainInv'
<1>1. /\ session' = [session EXCEPT ![s] = reading]
      /\ UNCHANGED <<committed, pending, audit, unsaved>>
  BY DEF Reads
<1>2. /\ pending' = [pending EXCEPT ![s] = pending[s]]
      /\ unsaved' = [unsaved EXCEPT ![s] = [p \in Payments |-> unsaved[s][p]]]
  BY <1>1 DEF LedgerInv, ChainInv
<1>3. \A p \in Payments :
        /\ HoldsCase(s, p) => ~IsEscalated(p)
        /\ HoldsEscalation(s, p) =>
             IsEscalated(p) /\ pending[s][EscalationKey(p)] # "none"
  BY DEF ChainInv, EscalationsStay
<1>4. \A p \in Payments : EventsOK(s, p)'
  BY <1>1 DEF ChainInv, EventsOK, HoldsChain, HoldsCase, HoldsEscalation, VisibleEvents
<1> QED  BY <1>1, <1>2, <1>3, <1>4, ChainStep DEF HoldsCase, HoldsEscalation

LEMMA ChainWrites ==
  ASSUME LedgerInv, ChainInv, NEW s \in AllSessions, NEW k \in Keys, NEW row,
         DB!Flush(s, k, row), UNCHANGED <<audit, unsaved>>,
         NEW next, session' = [session EXCEPT ![s] = next],
         \A p \in Payments :
           /\ k = CaseKey(p) => ~IsEscalated(p)
           /\ k = EscalationKey(p) => IsEscalated(p) /\ row # "none",
         AppendsUnderLock(s)'
  PROVE  ChainInv'
<1>1. /\ committed' = committed
      /\ pending' = [pending EXCEPT ![s] = pending'[s]]
      /\ DOMAIN pending'[s] = DOMAIN pending[s] \cup {k}
      /\ pending'[s][k] = row
      /\ \A x \in DOMAIN pending[s] \ {k} : pending'[s][x] = pending[s][x]
      /\ \A t \in AllSessions \ {s} : k \notin DOMAIN pending[t]
  BY FlushFacts
<1>2. unsaved' = [unsaved EXCEPT ![s] = [p \in Payments |-> unsaved[s][p]]]
  BY DEF ChainInv
<1>3. \A p \in Payments :
        /\ HoldsCase(s, p) => ~IsEscalated(p)
        /\ HoldsEscalation(s, p) =>
             IsEscalated(p) /\ pending[s][EscalationKey(p)] # "none"
  BY DEF ChainInv, EscalationsStay
<1>4. ASSUME NEW p \in Payments
      PROVE  /\ CaseKey(p) \in DOMAIN pending'[s] => HoldsCase(s, p) \/ ~IsEscalated(p)
             /\ EscalationKey(p) \in DOMAIN pending'[s] =>
                  IsEscalated(p) /\ pending'[s][EscalationKey(p)] # "none"
  BY <1>1, <1>3 DEF HoldsCase, HoldsEscalation
<1>5. \A p \in Payments : EventsOK(s, p)'
  BY <1>1 DEF ChainInv, EventsOK, HoldsChain, HoldsCase, HoldsEscalation, VisibleEvents
<1>6. \A x \in DOMAIN pending'[s] \ DOMAIN pending[s] :
        \A t \in AllSessions \ {s} : x \notin DOMAIN pending[t]
  BY <1>1
<1>7. UNCHANGED <<committed, audit>>
  BY <1>1
<1> QED  BY <1>1, <1>2, <1>4, <1>5, <1>6, <1>7, ChainStep

LEMMA ChainRaises ==
  ASSUME LedgerInv, ChainInv, NEW s \in AllSessions, Raises(s)
  PROVE  ChainInv'
<1> DEFINE more == [p \in Payments |-> {}]
<1>1. /\ UNCHANGED <<committed, audit>> /\ pending' = [pending EXCEPT ![s] = DB!NoWrites]
      /\ session' = [session EXCEPT ![s] = Idle]
      /\ unsaved' = [unsaved EXCEPT ![s] = [p \in Payments |-> more[p]]]
  BY DEF Raises, DB!Rollback
<1>2. /\ DOMAIN DB!NoWrites = {} /\ session'[s] = Idle
      /\ \A p \in Payments : unsaved'[s][p] = {}
  BY <1>1 DEF DB!NoWrites, LedgerInv, ChainInv
<1>3. AppendsUnderLock(s)'
  BY <1>2 DEF AppendsUnderLock, Idle, Appending
<1>4. ASSUME NEW p \in Payments PROVE EventsOK(s, p)'
  BY <1>1, <1>2, FS_EmptySet, ExtendsItself DEF EventsOK, VisibleEvents, ChainInv
<1> HIDE DEF more
<1> QED  BY <1>1, <1>2, <1>3, <1>4, ChainStep

\* A case that a session sees in another status than ESCALATED has no escalation.
LEMMA OpenCase ==
  ASSUME ChainInv, NEW s \in AllSessions, NEW p \in Payments, IsEscalated(p)
  PROVE  CaseOf(s, p).status = "ESCALATED"
BY DEF ChainInv, EscalationsStay, HoldsCase, CaseOf, DB!Sees

-----------------------------------------------------------------------------
(***************************************************************************)
(* append_event.                                                           *)
(***************************************************************************)

\* The session that holds a chain is the only one with events of it.
LEMMA OneWriter ==
  ASSUME ChainInv, NEW s \in AllSessions, NEW p \in Payments, HoldsChain(s, p),
         NEW t \in AllSessions \ {s}
  PROVE  ~HoldsChain(t, p) /\ unsaved[t][p] = {}
<1>1. ~HoldsChain(t, p)
  <2>1. (HoldsCase(s, p) => ~HoldsCase(t, p)) /\
        (HoldsEscalation(s, p) => ~HoldsEscalation(t, p))
    BY DEF ChainInv, Locked, HoldsCase, HoldsEscalation
  <2>2. /\ HoldsCase(s, p) \/ HoldsCase(t, p) => ~IsEscalated(p)
        /\ HoldsEscalation(s, p) \/ HoldsEscalation(t, p) => IsEscalated(p)
    BY DEF ChainInv, EscalationsStay
  <2> QED  BY <2>1, <2>2 DEF HoldsChain
<1> QED  BY <1>1 DEF ChainInv, EventsOK

LEMMA InsertEventChains ==
  ASSUME LedgerInv, ChainInv, NEW s \in AllSessions, InsertEvent(s)
  PROVE  ChainInv'
<1> DEFINE own == session[s]
           next == [own EXCEPT !.at = IF own.status = "ANALYZING" THEN "started"
                                      ELSE "finished"]
<1>1. PICK p \in Payments : p = own.payment
  BY DEF InsertEvent, Does, LedgerInv, SessionOK, ReadsOK
<1> DEFINE event == [at |-> Now(p), prev |-> own.last]
           more == [unsaved[s] EXCEPT ![p] = @ \cup {event}]
<1>2. /\ own.at = "chaining" /\ session' = [session EXCEPT ![s] = next]
      /\ unsaved' = [unsaved EXCEPT ![s] = more]
      /\ UNCHANGED <<committed, pending, audit>>
  BY <1>1 DEF InsertEvent, Does
<1>3. /\ session'[s] = next /\ next.payment = p /\ next.status = own.status
      /\ next.at = IF own.status = "ANALYZING" THEN "started" ELSE "finished"
  <2>1. DOMAIN own = Fields
    BY DEF LedgerInv, SessionOK, ReadsOK, Fields
  <2> QED  BY <1>1, <1>2, <2>1 DEF LedgerInv, Fields
<1>4. unsaved[s] = [q \in Payments |-> unsaved[s][q]] /\ unsaved'[s] = more
  BY <1>2 DEF ChainInv
<1>5. AppendsUnderLock(s) /\ EventsOK(s, p) /\ IsFiniteSet(audit[p])
  BY DEF ChainInv
<1>6. HoldsChain(s, p) /\ own.last = Log!Latest(VisibleEvents(s, p))
  BY <1>1, <1>2, <1>5 DEF AppendsUnderLock, Appending, HoldsChain
<1>7. Now(p) = 1 + Log!Latest(VisibleEvents(s, p))
  <2>1. UNION {unsaved[t][p] : t \in AllSessions} = unsaved[s][p]
    BY <1>6, OneWriter
  <2> QED  BY <2>1 DEF Now, VisibleEvents
<1>8. event = [at |-> 1 + Log!Latest(VisibleEvents(s, p)),
               prev |-> Log!Latest(VisibleEvents(s, p))]
  BY <1>6, <1>7
<1> HIDE DEF next, event
<1>9. /\ more[p] = unsaved[s][p] \cup {event} /\ more = [q \in Payments |-> more[q]]
      /\ \A q \in Payments \ {p} : more[q] = unsaved[s][q]
  BY <1>4
<1> HIDE DEF more
<1>10. IsFiniteSet(audit[p] \cup unsaved[s][p]) /\ IsFiniteSet(more[p])
  BY <1>5, <1>9, FS_Union, FS_AddElement DEF EventsOK
<1>11. Log!Extends(audit[p], audit[p] \cup more[p])
  <2>1. Log!Extends(audit[p], audit[p] \cup unsaved[s][p])
    BY <1>5 DEF EventsOK, VisibleEvents
  <2> QED  BY <1>8, <1>9, <1>10, <2>1, AppendExtends DEF VisibleEvents
<1>12. ASSUME NEW q \in Payments PROVE EventsOK(s, q)'
  <2>1. CASE q = p
    BY <1>2, <1>4, <1>6, <1>10, <1>11, <2>1
       DEF EventsOK, VisibleEvents, HoldsChain, HoldsCase, HoldsEscalation
  <2>2. CASE q # p
    BY <1>2, <1>4, <1>9, <2>2
       DEF ChainInv, EventsOK, VisibleEvents, HoldsChain, HoldsCase, HoldsEscalation
  <2> QED  BY <2>1, <2>2
<1>13. AppendsUnderLock(s)'
  BY <1>1, <1>2, <1>3, <1>5
     DEF AppendsUnderLock, Appending, HoldsCase, HoldsEscalation
<1>14. /\ pending' = [pending EXCEPT ![s] = pending[s]]
       /\ unsaved' = [unsaved EXCEPT ![s] = [q \in Payments |-> more[q]]]
  BY <1>2, <1>9 DEF LedgerInv
<1>15. \A q \in Payments :
         /\ HoldsCase(s, q) => ~IsEscalated(q)
         /\ HoldsEscalation(s, q) =>
              IsEscalated(q) /\ pending[s][EscalationKey(q)] # "none"
  BY DEF ChainInv, EscalationsStay
<1> QED  BY <1>2, <1>12, <1>13, <1>14, <1>15, ChainStep DEF HoldsCase, HoldsEscalation

\* A commit makes what was unsaved the end of the chains, and touches no chain
\* that another session holds.
LEMMA CommitExtends ==
  ASSUME ChainInv, NEW s \in AllSessions, Commit(s)
  PROVE  Log!Next
<1>1. \A p \in Payments : audit'[p] = VisibleEvents(s, p)
  BY DEF Commit, VisibleEvents
<1> QED  BY <1>1 DEF ChainInv, EventsOK, Log!Next

LEMMA CommitChains ==
  ASSUME LedgerInv, ChainInv, NEW s \in AllSessions, Commit(s)
  PROVE  ChainInv'
<1>1. /\ session' = [session EXCEPT ![s] = Idle]
      /\ pending' = [pending EXCEPT ![s] = DB!NoWrites]
      /\ committed' = [k \in Keys |-> DB!Sees(s, k)]
      /\ unsaved' = [unsaved EXCEPT ![s] = [p \in Payments |-> {}]]
      /\ audit' = [p \in Payments |-> VisibleEvents(s, p)]
  BY DEF Commit, DB!Commit, LedgerInv, RowsOK, VisibleEvents
<1>2. /\ session'[s] = Idle /\ DOMAIN pending'[s] = {}
      /\ \A p \in Payments : unsaved'[s][p] = {}
      /\ \A t \in AllSessions \ {s} :
           pending'[t] = pending[t] /\ session'[t] = session[t] /\ unsaved'[t] = unsaved[t]
      /\ unsaved' = [t \in AllSessions |-> [p \in Payments |-> unsaved'[t][p]]]
  <2>1. /\ pending = [t \in AllSessions |-> pending[t]]
        /\ session = [t \in AllSessions |-> session[t]]
        /\ unsaved = [t \in AllSessions |-> [p \in Payments |-> unsaved[t][p]]]
    BY DEF LedgerInv, ChainInv
  <2> QED  BY <1>1, <2>1 DEF DB!NoWrites
<1>3. Locked'
  BY <1>2 DEF ChainInv, Locked
<1>4. ASSUME NEW p \in Payments PROVE IsEscalated(p)' <=> IsEscalated(p)
  <2>1. committed'[EscalationKey(p)] = DB!Sees(s, EscalationKey(p))
    BY <1>1, KeyFacts
  <2> QED  BY <2>1 DEF ChainInv, EscalationsStay, IsEscalated, HoldsEscalation, DB!Sees
<1>5. ASSUME NEW p \in Payments, IsEscalated(p)
      PROVE  committed'[CaseKey(p)].status = "ESCALATED"
  <2>1. committed'[CaseKey(p)] = CaseOf(s, p)
    BY <1>1, KeyFacts DEF CaseOf
  <2> QED  BY <1>5, <2>1, OpenCase
<1>6. EscalationsStay'
  <2> SUFFICES ASSUME NEW p \in Payments
               PROVE  /\ IsEscalated(p)' =>
                           /\ committed'[CaseKey(p)].status = "ESCALATED"
                           /\ \A t \in AllSessions : ~HoldsCase(t, p)'
                      /\ \A t \in AllSessions : HoldsEscalation(t, p)' =>
                           IsEscalated(p)' /\ pending'[t][EscalationKey(p)] # "none"
    BY DEF EscalationsStay
  <2> QED
    BY <1>2, <1>4, <1>5 DEF ChainInv, EscalationsStay, HoldsCase, HoldsEscalation
<1>7. ASSUME NEW p \in Payments
      PROVE  IsFiniteSet(audit'[p]) /\ audit'[p] \subseteq Log!Event
  BY <1>1, FS_Union DEF ChainInv, EventsOK, VisibleEvents, Log!Extends
<1>8. ASSUME NEW t \in AllSessions \ {s}, NEW p \in Payments, HoldsChain(t, p)
      PROVE  audit'[p] = audit[p]
  <2>1. unsaved[s][p] = {}
    BY <1>8, OneWriter
  <2> QED  BY <1>1, <2>1 DEF VisibleEvents
<1>9. ASSUME NEW t \in AllSessions \ {s} PROVE AppendsUnderLock(t)'
  <2> DEFINE own == session[t]
             p == own.payment
  <2>1. AppendsUnderLock(t) /\ session'[t] = own
    BY <1>2 DEF ChainInv
  <2>2. own.at # "idle" => p \in Payments
    BY DEF LedgerInv, SessionOK, ReadsOK
  <2>3. /\ HoldsCase(t, p)' <=> HoldsCase(t, p)
        /\ HoldsEscalation(t, p)' <=> HoldsEscalation(t, p)
        /\ own.at # "idle" => (IsEscalated(p)' <=> IsEscalated(p))
    BY <1>2, <1>4, <2>2 DEF HoldsCase, HoldsEscalation
  <2>4. own.at = "chaining" => VisibleEvents(t, p)' = VisibleEvents(t, p)
    <3> SUFFICES ASSUME own.at = "chaining" PROVE VisibleEvents(t, p)' = VisibleEvents(t, p)
      OBVIOUS
    <3>1. HoldsChain(t, p)
      BY <2>1 DEF AppendsUnderLock, Appending, HoldsChain
    <3>2. audit'[p] = audit[p]
      BY <1>8, <2>2, <3>1
    <3> QED  BY <1>2, <3>2 DEF VisibleEvents
  <2> QED  BY <2>1, <2>3, <2>4 DEF AppendsUnderLock, Appending
<1>10. ASSUME NEW t \in AllSessions \ {s}, NEW p \in Payments PROVE EventsOK(t, p)'
  <2>1. EventsOK(t, p) /\ unsaved'[t] = unsaved[t] /\ (HoldsChain(t, p)' <=> HoldsChain(t, p))
    BY <1>2 DEF ChainInv, HoldsChain, HoldsCase, HoldsEscalation
  <2>2. CASE HoldsChain(t, p)
    BY <1>8, <2>1, <2>2 DEF EventsOK, VisibleEvents
  <2>3. CASE unsaved[t][p] = {}
    <3>1. Log!Extends(audit'[p], audit'[p])
      BY <1>7, ExtendsItself
    <3> QED  BY <2>1, <2>3, <3>1 DEF EventsOK, VisibleEvents
  <2> QED  BY <2>1, <2>2, <2>3 DEF EventsOK
<1>11. AppendsUnderLock(s)'
  BY <1>2 DEF AppendsUnderLock, Idle, Appending
<1>12. ASSUME NEW p \in Payments PROVE EventsOK(s, p)'
  <2>1. Log!Extends(audit'[p], audit'[p])
    BY <1>7, ExtendsItself
  <2> QED  BY <1>2, <2>1, FS_EmptySet DEF EventsOK, VisibleEvents
<1> QED
  BY <1>1, <1>2, <1>3, <1>6, <1>7, <1>9, <1>10, <1>11, <1>12 DEF ChainInv

LEMMA AppendsChains ==
  ASSUME LedgerInv, ChainInv, NEW s \in AllSessions, Appends(s)
  PROVE  ChainInv'
<1>1. CASE ReadLastHash(s)
  <2> DEFINE own == session[s]
             next == [own EXCEPT !.at = "chaining",
                                 !.last = Log!Latest(VisibleEvents(s, own.payment))]
  <2>1. Reads(s, "changed", next) /\ own.at = "changed"
    BY <1>1 DEF ReadLastHash, Reads
  <2>2. PICK p \in Payments : p = own.payment
    BY <2>1 DEF LedgerInv, SessionOK, ReadsOK
  <2>3. DOMAIN own = Fields /\ session'[s] = next
    BY <2>1 DEF LedgerInv, SessionOK, ReadsOK, Fields, Reads
  <2>4. /\ next.at = "chaining" /\ next.payment = p /\ next.status = own.status
        /\ next.last = Log!Latest(VisibleEvents(s, p))
    BY <2>2, <2>3 DEF Fields
  <2> HIDE DEF next
  <2>5. AppendsUnderLock(s)
    BY DEF ChainInv
  <2>6. VisibleEvents(s, p)' = VisibleEvents(s, p) /\ UNCHANGED <<committed, pending>>
    BY <2>1 DEF Reads, VisibleEvents
  <2>7. AppendsUnderLock(s)'
    BY <2>1, <2>2, <2>3, <2>4, <2>5, <2>6
       DEF AppendsUnderLock, Appending, HoldsCase, HoldsEscalation
  <2> QED  BY <2>1, <2>7, ChainReads
<1>2. CASE InsertEvent(s)
  BY <1>2, InsertEventChains
<1>3. CASE Commit(s)
  BY <1>3, CommitChains
<1> QED  BY <1>1, <1>2, <1>3 DEF Appends

-----------------------------------------------------------------------------
(***************************************************************************)
(* The other steps.                                                        *)
(***************************************************************************)

\* The reads that begin a session's work, or its work on another case.
LEMMA ReadsBeginChains ==
  ASSUME LedgerInv, ChainInv, NEW s \in AllSessions, NEW p \in Payments,
         NEW from, NEW reading, Reads(s, from, reading), reading.payment = p,
         \/ reading.at \in {"counting", "healing", "claimed"} /\ ~IsEscalated(p)
         \/ reading.at = "deciding" /\ IsEscalated(p)
  PROVE  ChainInv'
<1>1. session'[s] = reading /\ (IsEscalated(p)' <=> IsEscalated(p))
  BY DEF Reads, LedgerInv, IsEscalated
<1>2. AppendsUnderLock(s)'
  BY <1>1 DEF AppendsUnderLock, Appending
<1> QED  BY <1>2, ChainReads

LEMMA WritesChains ==
  ASSUME LedgerInv, ChainInv, NEW s \in AllSessions,
         NEW from \in {"healing", "claimed", "started"},
         NEW status, status # "ESCALATED", Writes(s, from, status)
  PROVE  ChainInv'
<1> DEFINE own == session[s]
           new == [CaseOf(s, own.payment) EXCEPT !.status = status]
           next == [own EXCEPT !.at = "changed", !.status = status]
<1>1. /\ own.at = from /\ DB!Flush(s, CaseKey(own.payment), new)
      /\ session' = [session EXCEPT ![s] = next] /\ UNCHANGED <<audit, unsaved>>
      /\ SessionOK(s) /\ own.payment \in Payments
  BY DEF Writes, LedgerInv, SessionOK, ReadsOK
<1>2. PICK p \in Payments : p = own.payment
  BY <1>1
<1>3. ~IsEscalated(p)
  BY <1>1, <1>2 DEF ChainInv, AppendsUnderLock, Appending, EscalationsStay
<1>4. session'[s] = next /\ next.at = "changed" /\ next.payment = p /\ next.status = status
  BY <1>1, <1>2 DEF LedgerInv, SessionOK, ReadsOK
<1> HIDE DEF next, new
<1>5. HoldsCase(s, p)'
  BY <1>1, <1>2, KeyFacts, FlushFacts DEF HoldsCase
<1>6. AppendsUnderLock(s)'
  BY <1>4, <1>5 DEF AppendsUnderLock
<1>7. \A q \in Payments : (CaseKey(p) = CaseKey(q) => q = p) /\ CaseKey(p) # EscalationKey(q)
  BY KeyFacts
<1> QED  BY <1>1, <1>2, <1>3, <1>6, <1>7, KeyFacts, ChainWrites

LEMMA RequestChains ==
  ASSUME LedgerInv, ChainInv, NEW s \in Requests, RequestStep(s)
  PROVE  ChainInv'
<1> DEFINE own == session[s]
<1>1. s \in AllSessions /\ SessionOK(s) /\ AppendsUnderLock(s)
  BY DEF AllSessions, LedgerInv, ChainInv
<1>2. CASE ReadCounter(s)
  <2> DEFINE next(p) == [Idle EXCEPT !.at = "counting", !.payment = p,
                                     !.counter = Counter(s)]
  <2>1. PICK p \in Payments : CaseOf(s, p) = NoCase /\ Reads(s, "idle", next(p))
    BY <1>2 DEF ReadCounter
  <2>2. ~IsEscalated(p)
    BY <1>1, <2>1, OpenCase DEF NoCase
  <2>3. next(p).at = "counting" /\ next(p).payment = p
    BY DEF Idle
  <2> HIDE DEF next
  <2> QED  BY <1>1, <2>1, <2>2, <2>3, ReadsBeginChains
<1>3. CASE MintRef(s)
  <2> DEFINE row == [there |-> TRUE, value |-> own.counter.value + 1]
             next == [own EXCEPT !.at = "minted"]
  <2>1. /\ own.at = "counting" /\ session' = [session EXCEPT ![s] = next]
        /\ DB!Flush(s, CounterKey, row) /\ UNCHANGED <<audit, unsaved>>
    BY <1>3 DEF MintRef, Does
  <2>2. session'[s] = next /\ next.at = "minted" /\ next.payment = own.payment
    BY <1>1, <2>1 DEF LedgerInv, SessionOK, ReadsOK
  <2>3. committed' = committed
    BY <2>1 DEF DB!Flush
  <2> HIDE DEF next, row
  <2>4. AppendsUnderLock(s)'
    BY <1>1, <2>1, <2>2, <2>3 DEF AppendsUnderLock, Appending, IsEscalated
  <2> QED  BY <1>1, <2>1, <2>4, KeyFacts, ChainWrites
<1>4. CASE InsertCase(s)
  <2> DEFINE row == [status |-> "DETECTED", ref |-> own.counter.value + 1]
             next == [own EXCEPT !.at = "changed"]
  <2>1. PICK p \in Payments : p = own.payment
    BY <1>1, <1>4 DEF InsertCase, Does, SessionOK, ReadsOK
  <2>2. /\ own.at = "minted" /\ session' = [session EXCEPT ![s] = next]
        /\ DB!Flush(s, CaseKey(p), row) /\ UNCHANGED <<audit, unsaved>>
    BY <1>4, <2>1 DEF InsertCase, Does
  <2>3. own.status = "none" /\ ~IsEscalated(p)
    BY <1>1, <2>1, <2>2 DEF SessionOK, ReadsOK, HolderOK, AppendsUnderLock
  <2>4. /\ session'[s] = next /\ next.at = "changed" /\ next.payment = p
        /\ next.status = "none"
    BY <1>1, <2>1, <2>2, <2>3 DEF LedgerInv, SessionOK, ReadsOK
  <2> HIDE DEF next, row
  <2>5. HoldsCase(s, p)'
    BY <1>1, <2>2, KeyFacts, FlushFacts DEF HoldsCase
  <2>6. AppendsUnderLock(s)'
    BY <2>4, <2>5 DEF AppendsUnderLock
  <2>7. \A q \in Payments :
          (CaseKey(p) = CaseKey(q) => q = p) /\ CaseKey(p) # EscalationKey(q)
    BY KeyFacts
  <2> QED  BY <1>1, <2>2, <2>3, <2>6, <2>7, KeyFacts, ChainWrites
<1>5. CASE Heal(s)
  <2> DEFINE next(p) == [Idle EXCEPT !.at = "healing", !.payment = p,
                                     !.status = CaseOf(s, p).status]
  <2>1. PICK p \in Payments :
          CaseOf(s, p).status \in ActiveStatuses /\ Reads(s, "idle", next(p))
    BY <1>5 DEF Heal
  <2>2. ~IsEscalated(p)
    BY <1>1, <2>1, OpenCase DEF ActiveStatuses
  <2>3. next(p).at = "healing" /\ next(p).payment = p
    BY DEF Idle
  <2> HIDE DEF next
  <2> QED  BY <1>1, <2>1, <2>2, <2>3, ReadsBeginChains
<1>6. CASE HealCase(s)
  BY <1>1, <1>6, WritesChains DEF HealCase
<1>7. CASE MintConflicts(s) \/ CaseConflicts(s)
  BY <1>1, <1>7, ChainRaises DEF MintConflicts, CaseConflicts
<1> QED
  BY <1>1, <1>2, <1>3, <1>4, <1>5, <1>6, <1>7, AppendsChains DEF RequestStep

LEMMA WorkerChains ==
  ASSUME LedgerInv, ChainInv, NEW s \in Workers, WorkerStep(s)
  PROVE  ChainInv'
<1>1. s \in AllSessions
  BY DEF AllSessions
<1>2. CASE Load(s)
  <2> DEFINE next(p) == [Idle EXCEPT !.at = "claimed", !.payment = p,
                                     !.status = "DETECTED"]
  <2>1. PICK p \in Payments :
          CaseOf(s, p).status = "DETECTED" /\ Reads(s, session[s].at, next(p))
    BY <1>2 DEF Load
  <2>2. ~IsEscalated(p)
    BY <1>1, <2>1, OpenCase
  <2>3. next(p).at = "claimed" /\ next(p).payment = p
    BY DEF Idle
  <2> HIDE DEF next
  <2> QED  BY <1>1, <2>1, <2>2, <2>3, ReadsBeginChains
<1>3. CASE StartCase(s) \/ EndCase(s)
  BY <1>1, <1>3, WritesChains DEF StartCase, EndCase
<1> QED  BY <1>1, <1>2, <1>3, AppendsChains DEF WorkerStep

LEMMA HumanChains ==
  ASSUME LedgerInv, ChainInv, NEW s \in Humans, HumanStep(s)
  PROVE  ChainInv'
<1> DEFINE own == session[s]
<1>1. s \in AllSessions /\ SessionOK(s) /\ AppendsUnderLock(s)
  BY DEF AllSessions, LedgerInv, ChainInv
<1>2. CASE ReadEscalation(s)
  <2> DEFINE next(p) == [Idle EXCEPT !.at = "deciding", !.payment = p,
                                     !.status = CaseOf(s, p).status]
  <2>1. PICK p \in Payments : EscalationOf(s, p) # "none" /\ Reads(s, "idle", next(p))
    BY <1>2 DEF ReadEscalation
  <2>2. IsEscalated(p)
    BY <1>1, <2>1 DEF EscalationOf, DB!Sees, IsEscalated, ChainInv, EscalationsStay,
                      HoldsEscalation
  <2>3. next(p).at = "deciding" /\ next(p).payment = p
    BY DEF Idle
  <2> HIDE DEF next
  <2> QED  BY <1>1, <2>1, <2>2, <2>3, ReadsBeginChains
<1>3. CASE Reject(s)
  <2> DEFINE next == [own EXCEPT !.at = "changed"]
  <2>1. PICK p \in Payments : p = own.payment
    BY <1>1, <1>3 DEF Reject, Does, SessionOK, ReadsOK
  <2>2. /\ own.at = "deciding" /\ own.status = "ESCALATED"
        /\ session' = [session EXCEPT ![s] = next]
        /\ DB!Flush(s, EscalationKey(p), "REJECTED") /\ UNCHANGED <<audit, unsaved>>
    BY <1>3, <2>1 DEF Reject, Does
  <2>3. IsEscalated(p)
    BY <1>1, <2>1, <2>2 DEF AppendsUnderLock
  <2>4. /\ session'[s] = next /\ next.at = "changed" /\ next.payment = p
        /\ next.status = "ESCALATED"
    BY <1>1, <2>1, <2>2 DEF LedgerInv, SessionOK, ReadsOK
  <2> HIDE DEF next
  <2>5. HoldsEscalation(s, p)'
    BY <1>1, <2>2, KeyFacts, FlushFacts DEF HoldsEscalation
  <2>6. AppendsUnderLock(s)'
    BY <2>4, <2>5 DEF AppendsUnderLock
  <2>7. \A q \in Payments :
          /\ EscalationKey(p) # CaseKey(q)
          /\ EscalationKey(p) = EscalationKey(q) => IsEscalated(q) /\ "REJECTED" # "none"
    BY <2>3, KeyFacts DEF EscalationKey
  <2> QED  BY <1>1, <2>2, <2>3, <2>6, <2>7, KeyFacts, ChainWrites
<1>4. CASE Approve(s)
  BY <1>1, <1>4, ChainRaises DEF Approve
<1> QED  BY <1>1, <1>2, <1>3, <1>4, AppendsChains DEF HumanStep

-----------------------------------------------------------------------------
(***************************************************************************)
(* The theorems.                                                           *)
(***************************************************************************)

LEMMA ChainInit == Init => Log!Init /\ ChainInv
<1> SUFFICES ASSUME Init PROVE Log!Init /\ ChainInv
  OBVIOUS
<1> DEFINE creation == [at |-> 1, prev |-> Log!Genesis]
<1>1. PICK earlier \in {{}, Escalated} :
        /\ committed = [k \in Keys |-> InitialRow(k, earlier)]
        /\ audit = [p \in Payments |-> IF p \in earlier THEN {creation} ELSE {}]
  BY DEF Init
<1>2. ASSUME NEW p \in Payments
      PROVE  /\ IsFiniteSet(audit[p]) /\ audit[p] \subseteq Log!Event
             /\ Log!ChainValid(audit[p])
  <2>1. creation \in Log!Event /\ creation.prev = Log!Genesis /\ creation.at = 1
    BY DEF Log!Event, Log!Genesis
  <2> HIDE DEF creation
  <2>2. Log!Latest(Log!Before({creation}, 1)) = Log!Genesis
    <3>1. Log!Before({creation}, 1) = {}
      BY <2>1 DEF Log!Before
    <3> QED  BY <3>1 DEF Log!Latest
  <2>3. Log!ChainValid({creation}) /\ Log!ChainValid({})
    BY <2>1, <2>2 DEF Log!ChainValid
  <2>4. IsFiniteSet({}) /\ IsFiniteSet({creation})
    BY FS_EmptySet, FS_Singleton
  <2>5. audit[p] = {creation} \/ audit[p] = {}
    BY <1>1
  <2> QED  BY <2>1, <2>3, <2>4, <2>5
<1>3. ASSUME NEW p \in Payments
      PROVE  IsEscalated(p) => committed[CaseKey(p)].status = "ESCALATED"
  <2>1. /\ CaseKey(p).table = "cases" /\ CaseKey(p).payment = p /\ CaseKey(p) \in Keys
        /\ EscalationKey(p).table = "escalations" /\ EscalationKey(p).payment = p
        /\ EscalationKey(p) \in Keys
        /\ CaseKey(p) # CounterKey /\ EscalationKey(p) # CounterKey
    BY KeyFacts DEF CaseKey, EscalationKey
  <2>2. IsEscalated(p) => p \in earlier
    BY <1>1, <2>1 DEF IsEscalated, InitialRow
  <2>3. p \in earlier =>
          committed[CaseKey(p)] = [status |-> "ESCALATED", ref |-> InitialRefs(earlier)[p]]
    BY <1>1, <2>1 DEF InitialRow
  <2> QED  BY <2>2, <2>3
<1>4. /\ \A s \in AllSessions : DOMAIN pending[s] = {} /\ session[s] = Idle
      /\ \A s \in AllSessions : \A p \in Payments : unsaved[s][p] = {}
      /\ unsaved = [s \in AllSessions |-> [p \in Payments |-> unsaved[s][p]]]
  BY DEF Init, DB!NoWrites
<1>5. Locked /\ EscalationsStay
  BY <1>3, <1>4 DEF Locked, EscalationsStay, HoldsCase, HoldsEscalation
<1>6. ASSUME NEW s \in AllSessions PROVE AppendsUnderLock(s)
  BY <1>4 DEF AppendsUnderLock, Idle, Appending
<1>7. ASSUME NEW s \in AllSessions, NEW p \in Payments PROVE EventsOK(s, p)
  <2>1. Log!Extends(audit[p], audit[p])
    BY <1>2, ExtendsItself
  <2> QED  BY <1>4, <2>1, FS_EmptySet DEF EventsOK, VisibleEvents
<1>8. audit = [p \in Payments |-> audit[p]]
  BY <1>1
<1> QED  BY <1>2, <1>4, <1>5, <1>6, <1>7, <1>8 DEF ChainInv, Log!Init

LEMMA ChainNext == LedgerInv /\ ChainInv /\ [Next]_vars => ChainInv'
<1> SUFFICES ASSUME LedgerInv, ChainInv, [Next]_vars PROVE ChainInv'
  OBVIOUS
<1>1. CASE UNCHANGED vars
  <2>1. UNCHANGED <<committed, pending, audit, unsaved, session>>
    BY <1>1 DEF vars
  <2>2. Locked' /\ EscalationsStay'
    BY <2>1 DEF ChainInv, Locked, EscalationsStay, HoldsCase, HoldsEscalation, IsEscalated
  <2>3. ASSUME NEW s \in AllSessions PROVE AppendsUnderLock(s)'
    BY <2>1 DEF ChainInv, AppendsUnderLock, Appending, HoldsCase, HoldsEscalation,
                IsEscalated, VisibleEvents
  <2>4. ASSUME NEW s \in AllSessions, NEW p \in Payments PROVE EventsOK(s, p)'
    BY <2>1 DEF ChainInv, EventsOK, HoldsChain, HoldsCase, HoldsEscalation, VisibleEvents
  <2> QED
    BY <2>1, <2>2, <2>3, <2>4 DEF ChainInv
<1>2. CASE Quiet
  BY <1>1, <1>2 DEF Quiet
<1>3. ASSUME NEW s \in AllSessions, Crash(s) PROVE ChainInv'
  BY <1>3, ChainRaises DEF Crash
<1> QED
  BY <1>1, <1>2, <1>3, RequestChains, WorkerChains, HumanChains DEF Next

\* Only a commit changes the log.
LEMMA AuditGrows == ChainInv /\ [Next]_vars => [Log!Next]_audit
<1> SUFFICES ASSUME ChainInv, [Next]_vars PROVE Log!Next \/ audit' = audit
  OBVIOUS
<1>1. ASSUME NEW s \in AllSessions, Appends(s) PROVE Log!Next \/ audit' = audit
  BY <1>1, CommitExtends DEF Appends, ReadLastHash, Reads, InsertEvent
<1>2. ASSUME NEW s \in Requests, RequestStep(s) PROVE Log!Next \/ audit' = audit
  <2>1. s \in AllSessions
    BY DEF AllSessions
  <2> QED
    BY <1>1, <1>2, <2>1
       DEF RequestStep, ReadCounter, MintRef, MintConflicts, InsertCase, CaseConflicts,
           Heal, HealCase, Reads, Raises, Writes
<1>3. ASSUME NEW s \in Workers, WorkerStep(s) PROVE Log!Next \/ audit' = audit
  <2>1. s \in AllSessions
    BY DEF AllSessions
  <2> QED
    BY <1>1, <1>3, <2>1 DEF WorkerStep, Load, StartCase, EndCase, Reads, Writes
<1>4. ASSUME NEW s \in Humans, HumanStep(s) PROVE Log!Next \/ audit' = audit
  <2>1. s \in AllSessions
    BY DEF AllSessions
  <2> QED
    BY <1>1, <1>4, <2>1 DEF HumanStep, ReadEscalation, Reject, Approve, Reads, Raises
<1> QED
  BY <1>2, <1>3, <1>4 DEF Next, Crash, Raises, Quiet, vars

\* The committed audit rows implement AuditLog, for any number of payments and of
\* sessions that append at once, crash, or are refused: no two events of a case
\* are chained onto the same one and none is chained onto one that was undone
\* (append_event, app/services/audit.py).
THEOREM AuditIsAppendOnly == Spec => KeepsAuditLog
<1>1. Spec => []LedgerInv
  BY InitHolds, NextKeeps, PTL DEF Spec
<1>2. Spec /\ []LedgerInv => []ChainInv
  BY ChainInit, ChainNext, PTL DEF Spec
<1>3. Spec /\ []ChainInv => Log!Init /\ [][Log!Next]_audit
  BY ChainInit, AuditGrows, PTL DEF Spec
<1> QED
  BY <1>1, <1>2, <1>3, PTL DEF KeepsAuditLog, Log!Spec

\* validate_chain (the audit endpoint and the report) finds every chain valid at
\* every commit of the sessions.
THEOREM EveryChainValidates == Spec => []Log!ChainsValid
BY AuditIsAppendOnly, LogStaysValid DEF KeepsAuditLog
=============================================================================
