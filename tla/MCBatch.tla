------------------------------- MODULE MCBatch -------------------------------
(***************************************************************************)
(* Finite instances of BatchEval: every payment of BatchCases alone, in a  *)
(* fresh database or beside kept cases whose charges leave the budget at   *)
(* one or spent; and pairs of a few of them, in every shape                *)
(* scripts/generate_dataset.py gives to a pair: plain, with repeated       *)
(* deliveries, with a capture before or after the other's failure.  A pair *)
(* meets a fresh database, one that earlier runs have left, or the one     *)
(* that scripts/load_dataset.py has made of the pair itself.               *)
(***************************************************************************)
EXTENDS BatchEval, MCPipeline
LOCAL INSTANCE SequencesExt

FreshCases == {c \in BatchCases : c.otherCharges = 0}

PairCases ==
  {c \in FreshCases :
     /\ c.evidence \in {Diagnose("insufficient_funds", "absent"),
                        Diagnose("gateway_error", "absent"),
                        Diagnose("wrong_pin", "absent")}
     /\ c.amount \in {1, 5} /\ c.hasToken /\ c.age = 0}

Failure(p) == Failed(<<"failed", p>>, p)
Capture(p) == Captured(<<"captured", p>>, p)
f1 == Failure(1)
f2 == Failure(2)
c1 == Capture(1)
Orders == {<<f1, f2>>, <<f1, f1, f1, f2>>, <<f1, c1, f2>>, <<f2, f1, c1>>, <<f1, f2, c1>>}

\* What earlier runs may have left of a payment: two charges and an escalation,
\* one charge that was paid, or a capture.
KeptCase ==
  [evidence |-> Diagnose("insufficient_funds", "absent"), amount |-> 1, hasToken |-> TRUE,
   priorAttempts |-> 0, age |-> 0, otherCharges |-> 0]
ChargedTwice == [NotOpened(KeptCase) EXCEPT !.status = "ESCALATED", !.retries = 2, !.charges = 2]
ChargedOnce == [NotOpened(KeptCase) EXCEPT !.status = "RECOVERED", !.outcome = "RECOVERED",
                                           !.recovered = 1, !.retries = 1, !.charges = 1]
SelfHealedBefore == HealedRow(KeptCase)

\* The payments of this dataset come first, those of the kept rows after them;
\* this run's deliveries repeat those of the kept.
Beside(kept, cases, events) ==
  LET number(k) == Len(cases) + k
      earlier == FlattenSeq([k \in DOMAIN kept |->
                   IF kept[k].outcome = "SELF_HEALED" THEN <<Failure(number(k)), Capture(number(k))>>
                   ELSE <<Failure(number(k))>>])
  IN  [payments |-> cases \o [k \in DOMAIN kept |-> KeptCase],
       events |-> earlier \o earlier \o events,
       before |-> Len(earlier),
       order |-> [k \in DOMAIN kept |-> number(k)],
       rows |-> [k \in DOMAIN cases |-> NotOpened(cases[k])] \o kept]

\* The dataset was ingested before, and no case was advanced.
Loaded(cases, events) ==
  LET captured(k) == \E i \in DOMAIN events : events[i] = Capture(k)
  IN  [payments |-> cases,
       events |-> events \o events,
       before |-> Len(events),
       order |-> IF Head(events) = f1 THEN <<1, 2>> ELSE <<2, 1>>,
       rows |-> [k \in DOMAIN cases |->
                   IF captured(k) THEN HealedRow(cases[k]) ELSE OpenedRow(cases[k])]]

Databases == {<<>>, <<ChargedTwice, ChargedOnce>>, <<ChargedTwice, ChargedTwice>>}
PairDatabases == {<<>>, <<SelfHealedBefore, ChargedTwice>>}

Singles == {Beside(kept, <<c>>, <<f1>>) : kept \in Databases, c \in FreshCases}
Pairs == {Beside(kept, <<a, b>>, events) :
            kept \in PairDatabases, a \in PairCases, b \in PairCases, events \in Orders}
Reruns == {Loaded(<<a, b>>, events) : a \in PairCases, b \in PairCases, events \in Orders}

BatchRuns == Singles \cup Pairs \cup Reruns
=============================================================================
