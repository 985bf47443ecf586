---------------------------- MODULE LedgerProofs ----------------------------
(***************************************************************************)
(* Proofs about CaseLedger: the references of the cases have no gap and no *)
(* double, for any number of payments and sessions.  The counter's row is  *)
(* held from the increment to the end of the session, and the unique key   *)
(* of case_ref refuses a number that was read before another session's     *)
(* increment.                                                              *)
(***************************************************************************)
EXTENDS CaseLedger, FiniteSetTheorems, TLAPS

Value == committed[CounterKey].value
Ref(p) == committed[CaseKey(p)].ref
Created == {p \in Payments : committed[CaseKey(p)] # NoCase}
HoldsCounter(s) == CounterKey \in DOMAIN pending[s]

\* A case is there exactly when it has a number.
CaseRow(row) ==
  /\ DOMAIN row = {"status", "ref"}
  /\ row.ref \in Nat
  /\ row.ref = 0 <=> row = NoCase

RowsOK ==
  /\ committed = [k \in Keys |-> committed[k]]
  /\ Value \in Nat
  /\ \A p \in Payments : CaseRow(committed[CaseKey(p)])

\* A session that writes a case leaves its number alone, unless it inserts it.
Inserts(s, p) ==
  HoldsCounter(s) /\ session[s].at # "minted" /\ session[s].payment = p
WritesOK(s) ==
  /\ DOMAIN pending[s] \subseteq Keys
  /\ \A p \in Payments : CaseKey(p) \in DOMAIN pending[s] =>
       /\ CaseRow(pending[s][CaseKey(p)])
       /\ pending[s][CaseKey(p)].ref # 0
       /\ pending[s][CaseKey(p)].ref = Ref(p) \/ Inserts(s, p)

\* Whoever holds the counter is a request that opens a case.  Before it inserts
\* the case its number may be taken; from then on it is the next one.
HolderOK(s) ==
  LET own == session[s]
  IN  HoldsCounter(s) =>
        /\ s \in Requests /\ own.status = "none"
        /\ own.at \in {"minted", "changed", "chaining", "finished"}
        /\ own.counter.value \in Nat /\ own.counter.value <= Value
        /\ pending[s][CounterKey].value = own.counter.value + 1
        /\ own.at = "minted" => DOMAIN pending[s] = {CounterKey}
        /\ own.at # "minted" =>
             /\ DOMAIN pending[s] = {CounterKey, CaseKey(own.payment)}
             /\ own.counter.value = Value
             /\ pending[s][CaseKey(own.payment)].ref = Value + 1
             /\ Ref(own.payment) = 0

\* What a session knows from its reads.
ReadsOK(s) ==
  LET own == session[s]
  IN  /\ DOMAIN own = {"at", "payment", "status", "counter", "last"}
      /\ own.at # "idle" => own.payment \in Payments
      /\ own.at = "idle" => DOMAIN pending[s] = {}
      /\ own.at = "counting" =>
           /\ s \in Requests /\ own.status = "none" /\ DOMAIN pending[s] = {}
           /\ own.counter.value \in Nat /\ own.counter.value <= Value
      /\ own.at = "minted" => HoldsCounter(s)
      /\ own.at \in {"healing", "claimed", "started"} => CaseOf(s, own.payment).ref # 0
      /\ own.at # "idle" /\ own.status = "ANALYZING" => CaseOf(s, own.payment).ref # 0

SessionOK(s) == WritesOK(s) /\ HolderOK(s) /\ ReadsOK(s)

OneHolder ==
  \A s, t \in AllSessions : HoldsCounter(s) /\ HoldsCounter(t) => s = t

LedgerInv ==
  /\ RowsOK
  /\ pending = [s \in AllSessions |-> pending[s]]
  /\ session = [s \in AllSessions |-> session[s]]
  /\ \A s \in AllSessions : SessionOK(s)
  /\ OneHolder
  /\ RefsAreGapless

-----------------------------------------------------------------------------
(***************************************************************************)
(* Keys, flushes, and a step of one session as the others see it.          *)
(***************************************************************************)

LEMMA KeyFacts ==
  /\ CounterKey \in Keys
  /\ \A p \in Payments :
       /\ CaseKey(p) \in Keys /\ CaseKey(p) # CounterKey
       /\ EscalationKey(p) \in Keys /\ EscalationKey(p) # CounterKey
  /\ \A p, q \in Payments :
       CaseKey(p) # EscalationKey(q) /\ (CaseKey(p) = CaseKey(q) => p = q)
<1>1. CounterKey \in Keys /\ CounterKey.table = "counters"
  BY DEF CounterKey, Keys
<1>2. \A p \in Payments :
        /\ CaseKey(p) \in Keys /\ CaseKey(p).table = "cases" /\ CaseKey(p).payment = p
        /\ EscalationKey(p) \in Keys /\ EscalationKey(p).table = "escalations"
  BY DEF CaseKey, EscalationKey, Keys
<1> QED
  BY <1>1, <1>2

LEMMA FlushFacts ==
  ASSUME LedgerInv, NEW s \in AllSessions, NEW k \in Keys, NEW row, DB!Flush(s, k, row)
  PROVE  /\ committed' = committed
         /\ pending' = [pending EXCEPT ![s] = pending'[s]]
         /\ DOMAIN pending'[s] = DOMAIN pending[s] \cup {k}
         /\ pending'[s][k] = row
         /\ \A x \in DOMAIN pending[s] \ {k} : pending'[s][x] = pending[s][x]
         /\ \A t \in AllSessions \ {s} : k \notin DOMAIN pending[t]
<1>1. /\ pending' = [pending EXCEPT ![s] = DB!Written(pending[s], k, row)]
      /\ committed' = committed /\ ~DB!Blocked(s, k)
  BY DEF DB!Flush
<1>2. pending'[s] = DB!Written(pending[s], k, row)
  BY <1>1 DEF LedgerInv
<1> QED
  BY <1>1, <1>2 DEF DB!Written, DB!Blocked

LEMMA OtherSessions ==
  ASSUME LedgerInv, NEW t \in AllSessions,
         pending'[t] = pending[t], session'[t] = session[t],
         RowsOK', Value <= Value',
         \A p \in Payments : Ref(p) # 0 => Ref(p)' = Ref(p),
         HoldsCounter(t) => Value' = Value /\ \A p \in Payments : Ref(p)' = Ref(p)
  PROVE  SessionOK(t)'
<1>1. SessionOK(t) /\ RowsOK
  BY DEF LedgerInv
<1>2. WritesOK(t)'
  BY <1>1 DEF SessionOK, WritesOK, HoldsCounter, Inserts
<1>3. HolderOK(t)'
  BY <1>1 DEF SessionOK, HolderOK, HoldsCounter, ReadsOK, RowsOK
<1>4. ASSUME session[t].payment \in Payments, CaseOf(t, session[t].payment).ref # 0
      PROVE  CaseOf(t, session[t].payment)'.ref # 0
  BY <1>4 DEF CaseOf, DB!Sees, Ref
<1>5. ReadsOK(t)'
  BY <1>1, <1>4 DEF SessionOK, ReadsOK, HoldsCounter, RowsOK
<1> QED
  BY <1>2, <1>3, <1>5 DEF SessionOK

\* A step that commits nothing.
LEMMA SessionGoesOn ==
  ASSUME LedgerInv, NEW s \in AllSessions, committed' = committed,
         NEW rows, pending' = [pending EXCEPT ![s] = rows],
         NEW next, session' = [session EXCEPT ![s] = next],
         SessionOK(s)',
         CounterKey \in DOMAIN rows => \A t \in AllSessions \ {s} : ~HoldsCounter(t)
  PROVE  LedgerInv'
<1>1. /\ pending' = [t \in AllSessions |-> pending'[t]] /\ pending'[s] = rows
      /\ session' = [t \in AllSessions |-> session'[t]]
      /\ \A t \in AllSessions \ {s} : pending'[t] = pending[t] /\ session'[t] = session[t]
  BY DEF LedgerInv
<1>2. RowsOK' /\ Value <= Value' /\ Value' = Value /\ \A p \in Payments : Ref(p)' = Ref(p)
  BY DEF LedgerInv, RowsOK, Value, Ref
<1>3. \A t \in AllSessions : SessionOK(t)'
  BY <1>1, <1>2, OtherSessions
<1>4. OneHolder'
  BY <1>1 DEF LedgerInv, OneHolder, HoldsCounter
<1>5. RefsAreGapless'
  BY DEF LedgerInv, RefsAreGapless
<1> QED
  BY <1>1, <1>2, <1>3, <1>4, <1>5 DEF LedgerInv

\* A step that only reads.
LEMMA SessionReads ==
  ASSUME LedgerInv, NEW s \in AllSessions, NEW from, NEW reading,
         Reads(s, from, reading) \/ (/\ session' = [session EXCEPT ![s] = reading]
                                     /\ UNCHANGED <<committed, pending>>),
         SessionOK(s)'
  PROVE  LedgerInv'
<1>1. /\ session' = [session EXCEPT ![s] = reading] /\ committed' = committed
      /\ pending' = [pending EXCEPT ![s] = pending[s]]
  BY DEF Reads, LedgerInv
<1>2. HoldsCounter(s) => \A t \in AllSessions \ {s} : ~HoldsCounter(t)
  BY DEF LedgerInv, OneHolder
<1> QED
  BY <1>1, <1>2, SessionGoesOn DEF HoldsCounter

LEMMA SessionRaises ==
  ASSUME LedgerInv, NEW s \in AllSessions, Raises(s)
  PROVE  LedgerInv'
<1>1. /\ committed' = committed /\ pending' = [pending EXCEPT ![s] = DB!NoWrites]
      /\ session' = [session EXCEPT ![s] = Idle]
  BY DEF Raises, DB!Rollback
<1>2. DOMAIN pending'[s] = {} /\ session'[s] = Idle
  BY <1>1 DEF LedgerInv, DB!NoWrites
<1>3. SessionOK(s)'
  BY <1>2 DEF SessionOK, WritesOK, HolderOK, ReadsOK, HoldsCounter, Idle
<1>4. CounterKey \notin DOMAIN DB!NoWrites
  BY DEF DB!NoWrites
<1> QED
  BY <1>1, <1>3, <1>4, SessionGoesOn

-----------------------------------------------------------------------------
(***************************************************************************)
(* The commit of a session.                                                *)
(***************************************************************************)

Numbered == {p \in Payments : Ref(p) # 0}
Gapless == Value = Cardinality(Numbered) /\ {Ref(p) : p \in Numbered} = 1..Cardinality(Numbered)

LEMMA GaplessRefs == RowsOK => (RefsAreGapless <=> Gapless)
<1> SUFFICES ASSUME RowsOK PROVE RefsAreGapless <=> Gapless
  OBVIOUS
<1>1. Created = Numbered
  BY DEF Created, Numbered, RowsOK, CaseRow, Ref
<1>2. RefsAreGapless <=> /\ Value = Cardinality(Created)
                         /\ {Ref(p) : p \in Created} = 1..Cardinality(Created)
  BY DEF RefsAreGapless, Created, Ref, Value
<1> QED
  BY <1>1, <1>2 DEF Gapless

LEMMA GaplessNext == (RowsOK => (RefsAreGapless <=> Gapless))'
<1> SUFFICES ASSUME RowsOK' PROVE RefsAreGapless' <=> Gapless'
  OBVIOUS
<1>1. Created' = Numbered'
  BY DEF Created, Numbered, RowsOK, CaseRow, Ref
<1>2. RefsAreGapless' <=> /\ Value' = Cardinality(Created')
                          /\ {Ref(p)' : p \in Created'} = 1..Cardinality(Created')
  BY DEF RefsAreGapless, Created, Ref, Value
<1> QED
  BY <1>1, <1>2 DEF Gapless

LEMMA CommitKeeps ==
  ASSUME LedgerInv, NEW s \in AllSessions, Commit(s)
  PROVE  LedgerInv'
<1>1. /\ session[s].at = "finished" /\ session' = [session EXCEPT ![s] = Idle]
      /\ pending' = [pending EXCEPT ![s] = DB!NoWrites]
      /\ committed' = [k \in Keys |-> DB!Sees(s, k)]
      /\ RowsOK /\ SessionOK(s)
  BY DEF Commit, DB!Commit, LedgerInv, RowsOK
<1>2. /\ pending' = [t \in AllSessions |-> pending'[t]] /\ DOMAIN pending'[s] = {}
      /\ session' = [t \in AllSessions |-> session'[t]] /\ session'[s] = Idle
      /\ \A t \in AllSessions \ {s} : pending'[t] = pending[t] /\ session'[t] = session[t]
  BY <1>1 DEF LedgerInv, DB!NoWrites
<1>3. SessionOK(s)'
  BY <1>2 DEF SessionOK, WritesOK, HolderOK, ReadsOK, HoldsCounter, Idle
<1>4. OneHolder'
  BY <1>2 DEF LedgerInv, OneHolder, HoldsCounter
<1>5. CASE ~HoldsCounter(s)
  <2>1. Value' = Value
    BY <1>1, <1>5, KeyFacts DEF Value, HoldsCounter, DB!Sees
  <2>2. ASSUME NEW p \in Payments PROVE Ref(p)' = Ref(p) /\ CaseRow(committed'[CaseKey(p)])
    <3>1. committed'[CaseKey(p)] = DB!Sees(s, CaseKey(p))
      BY <1>1, KeyFacts
    <3>2. CASE CaseKey(p) \in DOMAIN pending[s]
      BY <1>1, <1>5, <3>1, <3>2 DEF SessionOK, WritesOK, Inserts, DB!Sees, Ref
    <3>3. CASE CaseKey(p) \notin DOMAIN pending[s]
      BY <1>1, <3>1, <3>3 DEF RowsOK, DB!Sees, Ref
    <3> QED
      BY <3>2, <3>3
  <2>3. RowsOK'
    BY <1>1, <2>1, <2>2 DEF RowsOK
  <2>4. \A t \in AllSessions : SessionOK(t)'
    BY <1>1, <1>2, <1>3, <2>1, <2>2, <2>3, OtherSessions DEF RowsOK
  <2>5. Numbered' = Numbered
    BY <2>2 DEF Numbered
  <2>6. {Ref(p)' : p \in Numbered'} = {Ref(p) : p \in Numbered}
    BY <2>2, <2>5 DEF Numbered
  <2>7. Gapless'
    BY <1>1, <2>1, <2>5, <2>6, GaplessRefs DEF Gapless, LedgerInv
  <2> QED
    BY <1>2, <1>4, <2>3, <2>4, <2>7, GaplessNext DEF LedgerInv
<1>6. CASE HoldsCounter(s)
  <2>0. PICK own \in Payments : own = session[s].payment
    BY <1>1 DEF SessionOK, ReadsOK
  <2>1. /\ DOMAIN pending[s] = {CounterKey, CaseKey(own)}
        /\ pending[s][CounterKey].value = Value + 1
        /\ pending[s][CaseKey(own)].ref = Value + 1
        /\ CaseRow(pending[s][CaseKey(own)])
        /\ Ref(own) = 0
    BY <1>1, <1>6, <2>0 DEF SessionOK, HolderOK, ReadsOK, WritesOK
  <2>2. Value' = Value + 1 /\ Value \in Nat
    BY <1>1, <2>1, KeyFacts DEF Value, DB!Sees, RowsOK
  <2>3. Ref(own)' = Value + 1 /\ CaseRow(committed'[CaseKey(own)])
    BY <1>1, <2>1, KeyFacts DEF Ref, DB!Sees
  <2>4. ASSUME NEW p \in Payments \ {own}
        PROVE  Ref(p)' = Ref(p) /\ CaseRow(committed'[CaseKey(p)])
    <3>1. CaseKey(p) \notin DOMAIN pending[s]
      BY <2>1, KeyFacts
    <3> QED
      BY <1>1, <3>1, KeyFacts DEF Ref, DB!Sees, RowsOK
  <2>5. RowsOK'
    BY <1>1, <2>2, <2>3, <2>4 DEF RowsOK
  <2>6. ASSUME NEW t \in AllSessions \ {s} PROVE SessionOK(t)'
    <3>1. ~HoldsCounter(t)
      BY <1>6 DEF LedgerInv, OneHolder
    <3> QED
      BY <1>2, <2>1, <2>2, <2>4, <2>5, <3>1, OtherSessions
  <2>7. Numbered' = Numbered \cup {own} /\ own \notin Numbered
    BY <2>1, <2>2, <2>3, <2>4 DEF Numbered
  <2>8. {Ref(p)' : p \in Numbered'} = {Ref(p) : p \in Numbered} \cup {Value + 1}
    BY <2>3, <2>4, <2>7 DEF Numbered
  <2>9. IsFiniteSet(Numbered)
    BY LedgerAssumption, FS_Subset DEF LedgerAssumption, Numbered
  <2>10. Cardinality(Numbered') = Cardinality(Numbered) + 1
    BY <2>7, <2>9, FS_AddElement
  <2>11. Gapless
    BY <1>1, GaplessRefs DEF LedgerInv
  <2>12. 1..(Value + 1) = (1..Value) \cup {Value + 1}
    BY <2>2
  <2>13. Gapless'
    BY <2>2, <2>8, <2>10, <2>11, <2>12 DEF Gapless
  <2> QED
    BY <1>2, <1>3, <1>4, <2>5, <2>6, <2>13, GaplessNext DEF LedgerInv
<1> QED
  BY <1>5, <1>6

-----------------------------------------------------------------------------
(***************************************************************************)
(* The other steps.                                                        *)
(***************************************************************************)

Fields == {"at", "payment", "status", "counter", "last"}

\* The reads that begin a session's work, or its work on another case.
LEMMA ReadsBegin ==
  ASSUME LedgerInv, NEW s \in AllSessions, NEW p \in Payments, NEW reading,
         Reads(s, "idle", reading) \/ Reads(s, "finished", reading),
         ~HoldsCounter(s), DOMAIN reading = Fields, reading.payment = p,
         reading.at \in {"healing", "claimed", "deciding"},
         reading.at \in {"healing", "claimed"} \/ reading.status = "ANALYZING" =>
           CaseOf(s, p) # NoCase
  PROVE  LedgerInv'
<1>1. /\ UNCHANGED <<committed, pending>> /\ session' = [session EXCEPT ![s] = reading]
      /\ SessionOK(s) /\ RowsOK
  BY DEF Reads, LedgerInv
<1>2. session'[s] = reading
  BY <1>1 DEF LedgerInv
<1>3. CaseOf(s, p) # NoCase => CaseOf(s, p)'.ref # 0
  BY <1>1, KeyFacts DEF CaseOf, DB!Sees, SessionOK, WritesOK, RowsOK, CaseRow
<1>4. ReadsOK(s)'
  BY <1>1, <1>2, <1>3 DEF ReadsOK, Fields
<1>5. HolderOK(s)'
  BY <1>1 DEF HolderOK, HoldsCounter
<1>6. WritesOK(s)'
  BY <1>1 DEF SessionOK, WritesOK, Inserts, HoldsCounter, Ref
<1> QED
  BY <1>4, <1>5, <1>6, SessionReads DEF SessionOK

\* append_event touches no row.
LEMMA AppendsKeeps ==
  ASSUME LedgerInv, NEW s \in AllSessions, Appends(s)
  PROVE  LedgerInv'
<1> DEFINE own == session[s]
<1>0. SessionOK(s) /\ RowsOK /\ session = [t \in AllSessions |-> session[t]]
  BY DEF LedgerInv
<1>1. CASE ReadLastHash(s)
  <2> DEFINE next == [own EXCEPT !.at = "chaining",
                                 !.last = Log!Latest(VisibleEvents(s, own.payment))]
  <2>1. Reads(s, "changed", next) /\ own.at = "changed"
    BY <1>1 DEF ReadLastHash, Reads
  <2>2. session'[s] = next /\ UNCHANGED <<committed, pending>>
    BY <1>0, <2>1 DEF Reads
  <2>3. /\ next.at = "chaining" /\ next.payment = own.payment /\ next.status = own.status
        /\ next.counter = own.counter /\ DOMAIN next = DOMAIN own
    BY <1>0 DEF SessionOK, ReadsOK
  <2> HIDE DEF next
  <2>4. SessionOK(s)'
    BY <1>0, <2>1, <2>2, <2>3 DEF SessionOK, WritesOK, HolderOK, ReadsOK, HoldsCounter,
                                  Inserts, Ref, Value, CaseOf, DB!Sees
  <2> QED
    BY <2>1, <2>4, SessionReads
<1>2. CASE InsertEvent(s)
  <2> DEFINE next == [own EXCEPT !.at = IF own.status = "ANALYZING" THEN "started"
                                        ELSE "finished"]
  <2>1. /\ own.at = "chaining" /\ session' = [session EXCEPT ![s] = next]
        /\ UNCHANGED <<committed, pending>> /\ session'[s] = next
    BY <1>0, <1>2 DEF InsertEvent, Does
  <2>2. /\ next.at = IF own.status = "ANALYZING" THEN "started" ELSE "finished"
        /\ next.payment = own.payment /\ next.status = own.status
        /\ next.counter = own.counter /\ DOMAIN next = DOMAIN own
    BY <1>0 DEF SessionOK, ReadsOK
  <2> HIDE DEF next
  <2>3. SessionOK(s)'
    BY <1>0, <2>1, <2>2 DEF SessionOK, WritesOK, HolderOK, ReadsOK, HoldsCounter,
                            Inserts, Ref, Value, CaseOf, DB!Sees
  <2> QED
    BY <2>1, <2>3, SessionReads
<1> QED
  BY <1>1, <1>2, CommitKeeps DEF Appends

\* A change of status leaves the number of the case alone.
LEMMA WritesKeeps ==
  ASSUME LedgerInv, NEW s \in AllSessions, NEW from \in {"healing", "claimed", "started"},
         NEW status, Writes(s, from, status)
  PROVE  LedgerInv'
<1> DEFINE own == session[s]
           row == CaseOf(s, own.payment)
           new == [row EXCEPT !.status = status]
           next == [own EXCEPT !.at = "changed", !.status = status]
<1>1. /\ own.at = from /\ DB!Flush(s, CaseKey(own.payment), new)
      /\ session' = [session EXCEPT ![s] = next]
      /\ SessionOK(s) /\ RowsOK /\ own.payment \in Payments
  BY DEF Writes, LedgerInv, SessionOK, ReadsOK
<1>2. PICK p \in Payments : p = own.payment
  BY <1>1
<1>3. /\ CaseRow(row) /\ row.ref # 0 /\ ~HoldsCounter(s)
      /\ row.ref = Ref(p)
  BY <1>1, <1>2, KeyFacts DEF SessionOK, HolderOK, ReadsOK, WritesOK, Inserts, RowsOK,
                              CaseOf, DB!Sees, Ref
<1>4. new.ref = row.ref /\ CaseRow(new)
  BY <1>3 DEF CaseRow, NoCase
<1> HIDE DEF new
<1>5. /\ committed' = committed
      /\ pending' = [pending EXCEPT ![s] = pending'[s]]
      /\ DOMAIN pending'[s] = DOMAIN pending[s] \cup {CaseKey(p)}
      /\ pending'[s][CaseKey(p)] = new
      /\ \A x \in DOMAIN pending[s] \ {CaseKey(p)} : pending'[s][x] = pending[s][x]
  BY <1>1, <1>2, KeyFacts, FlushFacts
<1>6. /\ session'[s] = next /\ next.at = "changed" /\ next.payment = p
      /\ DOMAIN next = Fields
  BY <1>1, <1>2 DEF LedgerInv, SessionOK, ReadsOK, Fields
<1> HIDE DEF next
<1>7. CounterKey \notin DOMAIN pending'[s]
  BY <1>3, <1>5, KeyFacts DEF HoldsCounter
<1>8. WritesOK(s)'
  BY <1>1, <1>3, <1>4, <1>5, KeyFacts DEF SessionOK, WritesOK, Inserts, HoldsCounter, Ref
<1>9. ReadsOK(s)'
  BY <1>3, <1>4, <1>5, <1>6 DEF ReadsOK, Fields, CaseOf, DB!Sees
<1>10. HolderOK(s)'
  BY <1>7 DEF HolderOK, HoldsCounter
<1> QED
  BY <1>1, <1>5, <1>7, <1>8, <1>9, <1>10, SessionGoesOn DEF SessionOK

\* The number a request reads is at most the counter's from then on.
LEMMA ReadCounterKeeps ==
  ASSUME LedgerInv, NEW s \in Requests, ReadCounter(s)
  PROVE  LedgerInv'
<1>0. s \in AllSessions /\ SessionOK(s) /\ RowsOK
  BY DEF LedgerInv, AllSessions
<1>1. PICK p \in Payments :
        Reads(s, "idle", [Idle EXCEPT !.at = "counting", !.payment = p,
                                      !.counter = Counter(s)])
  BY DEF ReadCounter
<1> DEFINE next == [Idle EXCEPT !.at = "counting", !.payment = p, !.counter = Counter(s)]
<1>2. /\ session[s].at = "idle" /\ session' = [session EXCEPT ![s] = next]
      /\ UNCHANGED <<committed, pending>> /\ session'[s] = next /\ DOMAIN pending[s] = {}
  BY <1>0, <1>1 DEF Reads, LedgerInv, SessionOK, ReadsOK
<1>3. /\ next.at = "counting" /\ next.payment = p /\ next.status = "none"
      /\ next.counter = Counter(s) /\ DOMAIN next = Fields
  BY DEF Idle, Fields
<1>4. Counter(s).value = Value
  BY <1>2 DEF Counter, DB!Sees, Value
<1> HIDE DEF next
<1>5. SessionOK(s)'
  BY <1>0, <1>2, <1>3, <1>4
     DEF SessionOK, WritesOK, HolderOK, ReadsOK, HoldsCounter, Fields, RowsOK, Value
<1> QED
  BY <1>0, <1>2, <1>5, SessionReads

LEMMA MintRefKeeps ==
  ASSUME LedgerInv, NEW s \in Requests, MintRef(s)
  PROVE  LedgerInv'
<1> DEFINE own == session[s]
           row == [there |-> TRUE, value |-> own.counter.value + 1]
           next == [own EXCEPT !.at = "minted"]
<1>1. /\ s \in AllSessions /\ SessionOK(s) /\ RowsOK /\ own.at = "counting"
      /\ session' = [session EXCEPT ![s] = next] /\ session'[s] = next
      /\ DB!Flush(s, CounterKey, row)
  BY DEF LedgerInv, AllSessions, MintRef, Does
<1>2. /\ own.payment \in Payments /\ own.status = "none" /\ DOMAIN pending[s] = {}
      /\ own.counter.value \in Nat /\ own.counter.value <= Value
      /\ DOMAIN own = Fields
  BY <1>1 DEF SessionOK, ReadsOK, Fields
<1>3. /\ next.at = "minted" /\ next.payment = own.payment /\ next.status = "none"
      /\ next.counter = own.counter /\ DOMAIN next = Fields
  BY <1>2 DEF Fields
<1>4. row.value = own.counter.value + 1
  OBVIOUS
<1> HIDE DEF next, row
<1>5. /\ committed' = committed
      /\ pending' = [pending EXCEPT ![s] = pending'[s]]
      /\ DOMAIN pending'[s] = {CounterKey} /\ pending'[s][CounterKey] = row
      /\ \A t \in AllSessions \ {s} : ~HoldsCounter(t)
  BY <1>1, <1>2, KeyFacts, FlushFacts DEF HoldsCounter
<1>6. WritesOK(s)'
  BY <1>5, KeyFacts DEF WritesOK
<1>7. HolderOK(s)'
  BY <1>1, <1>2, <1>3, <1>4, <1>5 DEF HolderOK, HoldsCounter, Value
<1>8. ReadsOK(s)'
  BY <1>1, <1>2, <1>3, <1>5 DEF ReadsOK, HoldsCounter, Fields
<1> QED
  BY <1>1, <1>5, <1>6, <1>7, <1>8, SessionGoesOn DEF SessionOK

\* The unique key refuses all numbers up to the counter's: one that is let
\* through was read when the counter stood where it stands.
LEMMA InsertCaseKeeps ==
  ASSUME LedgerInv, NEW s \in Requests, InsertCase(s)
  PROVE  LedgerInv'
<1> DEFINE own == session[s]
           ref == own.counter.value + 1
           row == [status |-> "DETECTED", ref |-> ref]
           next == [own EXCEPT !.at = "changed"]
<1>1. /\ s \in AllSessions /\ SessionOK(s) /\ RowsOK /\ own.at = "minted"
      /\ session' = [session EXCEPT ![s] = next] /\ session'[s] = next
      /\ DB!Flush(s, CaseKey(own.payment), row) /\ ~Taken(s, ref)
  BY DEF LedgerInv, AllSessions, InsertCase, Does
<1>2. /\ HoldsCounter(s) /\ own.status = "none" /\ DOMAIN pending[s] = {CounterKey}
      /\ own.counter.value \in Nat /\ own.counter.value <= Value
      /\ pending[s][CounterKey].value = ref /\ DOMAIN own = Fields
  BY <1>1 DEF SessionOK, ReadsOK, HolderOK, Fields
<1>3. PICK p \in Payments : p = own.payment
  BY <1>1 DEF SessionOK, ReadsOK
<1>4. \A q \in Payments : CaseOf(s, q) = committed[CaseKey(q)]
  BY <1>2, KeyFacts DEF CaseOf, DB!Sees
<1>5. Ref(p) = 0 /\ \A q \in Payments : Ref(q) # ref
  BY <1>1, <1>3, <1>4 DEF Taken, Ref, RowsOK, CaseRow
<1>6. own.counter.value = Value
  <2>1. Gapless /\ Value \in Nat
    BY <1>1, GaplessRefs DEF LedgerInv, RowsOK
  <2>2. ref \notin 1..Value
    BY <1>5, <2>1 DEF Gapless, Numbered
  <2> QED
    BY <1>2, <2>1, <2>2
<1>7. /\ next.at = "changed" /\ next.payment = p /\ next.status = "none"
      /\ next.counter = own.counter /\ DOMAIN next = Fields
  BY <1>2, <1>3 DEF Fields
<1>8. row.ref = ref /\ row.ref = Value + 1 /\ CaseRow(row)
  BY <1>2, <1>6 DEF CaseRow, NoCase
<1> HIDE DEF next, row
<1>9. /\ committed' = committed
      /\ pending' = [pending EXCEPT ![s] = pending'[s]]
      /\ DOMAIN pending'[s] = {CounterKey, CaseKey(p)}
      /\ pending'[s][CounterKey].value = ref /\ pending'[s][CaseKey(p)] = row
      /\ \A t \in AllSessions \ {s} : ~HoldsCounter(t)
  BY <1>1, <1>2, <1>3, KeyFacts, FlushFacts DEF LedgerInv, OneHolder
<1>10. WritesOK(s)'
  BY <1>1, <1>2, <1>7, <1>8, <1>9, KeyFacts DEF WritesOK, Inserts, HoldsCounter, RowsOK
<1>11. HolderOK(s)'
  BY <1>1, <1>2, <1>5, <1>6, <1>7, <1>8, <1>9
     DEF HolderOK, HoldsCounter, Value, Ref, RowsOK
<1>12. ReadsOK(s)'
  BY <1>1, <1>7, <1>9 DEF ReadsOK, Fields
<1> QED
  BY <1>1, <1>9, <1>10, <1>11, <1>12, SessionGoesOn DEF SessionOK

LEMMA RejectKeeps ==
  ASSUME LedgerInv, NEW s \in Humans, Reject(s)
  PROVE  LedgerInv'
<1> DEFINE own == session[s]
           next == [own EXCEPT !.at = "changed"]
<1>1. /\ s \in AllSessions /\ SessionOK(s) /\ RowsOK /\ own.at = "deciding"
      /\ own.status = "ESCALATED" /\ own.payment \in Payments
      /\ session' = [session EXCEPT ![s] = next] /\ session'[s] = next
      /\ DB!Flush(s, EscalationKey(own.payment), "REJECTED")
  BY DEF LedgerInv, AllSessions, Reject, Does, SessionOK, ReadsOK
<1>2. PICK p \in Payments : p = own.payment
  BY <1>1
<1>3. ~HoldsCounter(s) /\ DOMAIN own = Fields
  BY <1>1 DEF SessionOK, HolderOK, ReadsOK, Fields
<1>4. /\ next.at = "changed" /\ next.payment = p /\ next.status = "ESCALATED"
      /\ DOMAIN next = Fields
  BY <1>1, <1>2, <1>3 DEF Fields
<1> HIDE DEF next
<1>5. /\ committed' = committed
      /\ pending' = [pending EXCEPT ![s] = pending'[s]]
      /\ DOMAIN pending'[s] = DOMAIN pending[s] \cup {EscalationKey(p)}
      /\ \A x \in DOMAIN pending[s] \ {EscalationKey(p)} : pending'[s][x] = pending[s][x]
  BY <1>1, <1>2, KeyFacts, FlushFacts
<1>6. CounterKey \notin DOMAIN pending'[s]
  BY <1>3, <1>5, KeyFacts DEF HoldsCounter
<1>7. WritesOK(s)'
  BY <1>1, <1>3, <1>5, KeyFacts DEF SessionOK, WritesOK, Inserts, HoldsCounter, Ref
<1>8. HolderOK(s)' /\ ReadsOK(s)'
  BY <1>1, <1>4, <1>6 DEF HolderOK, ReadsOK, HoldsCounter, Fields
<1> QED
  BY <1>1, <1>5, <1>6, <1>7, <1>8, SessionGoesOn DEF SessionOK

LEMMA RequestKeeps ==
  ASSUME LedgerInv, NEW s \in Requests, RequestStep(s)
  PROVE  LedgerInv'
<1>1. s \in AllSessions
  BY DEF AllSessions
<1>2. CASE MintConflicts(s) \/ CaseConflicts(s)
  BY <1>1, <1>2, SessionRaises DEF MintConflicts, CaseConflicts
<1>3. CASE Heal(s)
  <2> PICK p \in Payments :
        /\ CaseOf(s, p).status \in ActiveStatuses
        /\ Reads(s, "idle", [Idle EXCEPT !.at = "healing", !.payment = p,
                                         !.status = CaseOf(s, p).status])
    BY <1>3 DEF Heal
  <2> DEFINE next == [Idle EXCEPT !.at = "healing", !.payment = p,
                                  !.status = CaseOf(s, p).status]
  <2>1. CaseOf(s, p) # NoCase
    BY DEF NoCase, ActiveStatuses
  <2>2. DOMAIN next = Fields /\ next.payment = p /\ next.at = "healing"
    BY DEF Idle, Fields
  <2>3. ~HoldsCounter(s)
    BY <1>1 DEF Reads, LedgerInv, SessionOK, ReadsOK, HoldsCounter
  <2> HIDE DEF next
  <2> QED
    BY <1>1, <2>1, <2>2, <2>3, ReadsBegin DEF next
<1>4. CASE HealCase(s)
  BY <1>1, <1>4, WritesKeeps DEF HealCase
<1> QED
  BY <1>1, <1>2, <1>3, <1>4, ReadCounterKeeps, MintRefKeeps, InsertCaseKeeps, AppendsKeeps
     DEF RequestStep

LEMMA WorkerKeeps ==
  ASSUME LedgerInv, NEW s \in Workers, WorkerStep(s)
  PROVE  LedgerInv'
<1>1. s \in AllSessions /\ ~HoldsCounter(s)
  BY LedgerAssumption DEF AllSessions, LedgerAssumption, LedgerInv, SessionOK, HolderOK
<1>2. CASE Load(s)
  <2> DEFINE next(p) == [Idle EXCEPT !.at = "claimed", !.payment = p,
                                     !.status = "DETECTED"]
  <2>1. PICK p \in Payments :
          /\ CaseOf(s, p).status = "DETECTED"
          /\ Reads(s, "idle", next(p)) \/ Reads(s, "finished", next(p))
    BY <1>2 DEF Load
  <2>2. CaseOf(s, p) # NoCase
    BY <2>1 DEF NoCase
  <2>3. DOMAIN next(p) = Fields /\ next(p).payment = p /\ next(p).at = "claimed"
    BY DEF Idle, Fields
  <2> HIDE DEF next
  <2> QED
    BY <1>1, <2>1, <2>2, <2>3, ReadsBegin
<1>3. CASE StartCase(s) \/ EndCase(s)
  BY <1>1, <1>3, WritesKeeps DEF StartCase, EndCase
<1> QED
  BY <1>1, <1>2, <1>3, AppendsKeeps DEF WorkerStep

LEMMA HumanKeeps ==
  ASSUME LedgerInv, NEW s \in Humans, HumanStep(s)
  PROVE  LedgerInv'
<1>1. s \in AllSessions
  BY DEF AllSessions
<1>2. CASE ReadEscalation(s)
  <2> DEFINE next(p) == [Idle EXCEPT !.at = "deciding", !.payment = p,
                                     !.status = CaseOf(s, p).status]
  <2>1. PICK p \in Payments : Reads(s, "idle", next(p))
    BY <1>2 DEF ReadEscalation
  <2>2. /\ DOMAIN next(p) = Fields /\ next(p).payment = p /\ next(p).at = "deciding"
        /\ next(p).status = CaseOf(s, p).status
    BY DEF Idle, Fields
  <2>3. CaseOf(s, p).status = "ANALYZING" => CaseOf(s, p) # NoCase
    BY DEF NoCase
  <2>4. ~HoldsCounter(s)
    BY <1>1, <2>1 DEF Reads, LedgerInv, SessionOK, ReadsOK, HoldsCounter
  <2> HIDE DEF next
  <2> QED
    BY <1>1, <2>1, <2>2, <2>3, <2>4, ReadsBegin
<1>3. CASE Approve(s)
  BY <1>1, <1>3, SessionRaises DEF Approve
<1> QED
  BY <1>1, <1>2, <1>3, RejectKeeps, AppendsKeeps DEF HumanStep

-----------------------------------------------------------------------------
(***************************************************************************)
(* The theorem.                                                            *)
(***************************************************************************)

LEMMA InitHolds == Init => LedgerInv
<1> SUFFICES ASSUME Init PROVE LedgerInv
  OBVIOUS
<1>1. PICK earlier \in {{}, Escalated} : committed = [k \in Keys |-> InitialRow(k, earlier)]
  BY DEF Init
<1> DEFINE n == Cardinality(earlier)
           f == InitialRefs(earlier)
<1>2. earlier \subseteq Payments /\ IsFiniteSet(earlier) /\ n \in Nat /\ (earlier = {} => n = 0)
  BY LedgerAssumption, FS_EmptySet, FS_Subset, FS_CardinalityType DEF LedgerAssumption
<1>3. f \in Bijection(earlier, 1..n)
  <2>1. IsFiniteSet(1..n) /\ Cardinality(1..n) = n
    BY <1>2, FS_Interval
  <2>2. ExistsBijection(earlier, 1..n)
    BY <1>2, <2>1, FS_SameCardinalityBij
  <2> QED
    BY <2>2 DEF ExistsBijection, InitialRefs
<1>4. /\ f \in [earlier -> 1..n]
      /\ \A i \in 1..n : \E p \in earlier : f[p] = i
  BY <1>3 DEF Bijection, Injection, Surjection
<1> HIDE DEF f
<1>5. \A p \in Payments :
        committed[CaseKey(p)] = IF p \in earlier THEN [status |-> "ESCALATED", ref |-> f[p]]
                                ELSE NoCase
  <2> TAKE p \in Payments
  <2>1. CaseKey(p).table = "cases" /\ CaseKey(p).payment = p /\ CaseKey(p) \in Keys
        /\ CaseKey(p) # CounterKey
    BY KeyFacts DEF CaseKey
  <2> QED
    BY <1>1, <2>1 DEF InitialRow, f
<1>6. Value = n
  BY <1>1, <1>2, KeyFacts DEF Value, InitialRow, NoCounter
<1>7. \A p \in Payments :
        CaseRow(committed[CaseKey(p)]) /\ Ref(p) = IF p \in earlier THEN f[p] ELSE 0
  <2> TAKE p \in Payments
  <2>1. CASE p \in earlier
    <3>1. f[p] \in Nat /\ f[p] # 0
      BY <1>2, <1>4, <2>1
    <3>2. committed[CaseKey(p)] = [status |-> "ESCALATED", ref |-> f[p]]
      BY <1>5, <2>1
    <3> QED
      BY <2>1, <3>1, <3>2 DEF CaseRow, NoCase, Ref
  <2>2. CASE p \notin earlier
    <3>1. committed[CaseKey(p)] = NoCase
      BY <1>5, <2>2
    <3>2. DOMAIN NoCase = {"status", "ref"} /\ NoCase.ref = 0
      BY DEF NoCase
    <3> QED
      BY <2>2, <3>1, <3>2 DEF CaseRow, Ref
  <2> QED
    BY <2>1, <2>2
<1>8. RowsOK
  BY <1>1, <1>2, <1>6, <1>7 DEF RowsOK
<1>9. RefsAreGapless
  <2>1. Numbered = earlier /\ \A p \in earlier : Ref(p) = f[p]
    BY <1>2, <1>4, <1>7 DEF Numbered
  <2>2. {Ref(p) : p \in Numbered} = 1..n
    BY <1>4, <2>1
  <2> QED
    BY <1>6, <1>8, <2>1, <2>2, GaplessRefs DEF Gapless
<1>10. /\ \A s \in AllSessions : DOMAIN pending[s] = {} /\ session[s] = Idle
       /\ pending = [s \in AllSessions |-> pending[s]]
       /\ session = [s \in AllSessions |-> session[s]]
  BY DEF Init, DB!NoWrites
<1>11. \A s \in AllSessions : SessionOK(s)
  BY <1>10 DEF SessionOK, WritesOK, HolderOK, ReadsOK, HoldsCounter, Idle
<1> QED
  BY <1>8, <1>9, <1>10, <1>11 DEF LedgerInv, OneHolder, HoldsCounter

LEMMA NextKeeps == LedgerInv /\ [Next]_vars => LedgerInv'
<1> SUFFICES ASSUME LedgerInv, [Next]_vars PROVE LedgerInv'
  OBVIOUS
<1>1. ASSUME NEW s \in AllSessions, Crash(s) PROVE LedgerInv'
  BY <1>1, SessionRaises DEF Crash
<1>2. CASE UNCHANGED <<committed, pending, session>>
  <2>1. RowsOK' /\ OneHolder' /\ RefsAreGapless'
    BY <1>2 DEF LedgerInv, RowsOK, Value, OneHolder, HoldsCounter, RefsAreGapless
  <2>2. ASSUME NEW s \in AllSessions PROVE SessionOK(s)'
    BY <1>2 DEF LedgerInv, SessionOK, WritesOK, HolderOK, ReadsOK, HoldsCounter, Inserts,
                Ref, Value, CaseOf, DB!Sees
  <2> QED
    BY <1>2, <2>1, <2>2 DEF LedgerInv
<1>3. CASE Quiet \/ UNCHANGED vars
  BY <1>2, <1>3 DEF Quiet, vars
<1> QED
  BY <1>1, <1>3, RequestKeeps, WorkerKeeps, HumanKeeps DEF Next

\* The references are 1..n for the n cases there are, and the counter says n, for
\* any number of sessions: next_ref (app/services/case_service.py) reads and then
\* writes, and the unique key of case_ref and the row lock make up for it.
THEOREM ReferencesHaveNoGap == Spec => []RefsAreGapless
<1>1. LedgerInv => RefsAreGapless
  BY DEF LedgerInv
<1> QED
  BY <1>1, InitHolds, NextKeeps, PTL DEF Spec
=============================================================================
