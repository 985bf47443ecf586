----------------------------- MODULE BatchProofs -----------------------------
(***************************************************************************)
(* Proofs about BatchEval: a run of any number of payments keeps the       *)
(* budget of the run and the promise to each payment, and its report adds  *)
(* up.                                                                     *)
(***************************************************************************)
EXTENDS BatchEval, TableProofs

-----------------------------------------------------------------------------
(***************************************************************************)
(* Sums.  The sum of the library adds the numbers in the order CHOOSE      *)
(* gives; that it is defined and that the order is indifferent is proved   *)
(* here, for finite sets and natural numbers, by a smallest counterexample. *)
(***************************************************************************)

LEMMA SetInduction ==
  ASSUME NEW G, 0 \in G, \A n \in Nat : n \in G => n + 1 \in G
  PROVE  Nat \subseteq G
<1> DEFINE F == Nat \ G
<1>1. SUFFICES ASSUME F # {} PROVE FALSE
  OBVIOUS
<1>2. \E i \in F : \A j \in F : i <= j
  <2>1. F \in SUBSET Nat
    OBVIOUS
  <2> HIDE DEF F
  <2> QED  BY <1>1, <2>1, HasLeast
<1>3. PICK i \in F : \A j \in F : i <= j
  BY <1>2
<1>4. i # 0 /\ i - 1 \in Nat /\ (i - 1) + 1 = i
  OBVIOUS
<1>5. i - 1 \notin F
  BY <1>3, <1>4
<1> QED
  BY <1>3, <1>4, <1>5

\* A set of subsets of a finite set has a member none of whose proper subsets
\* is in it.
LEMMA SmallestSubset ==
  ASSUME NEW S, IsFiniteSet(S), NEW Bad, Bad \subseteq SUBSET S, Bad # {}
  PROVE  \E T \in Bad : \A U \in SUBSET T : U # T => U \notin Bad
<1>1. IsWellFoundedOn(StrictSubsetOrdering(S), FiniteSubsetsOf(S))
  BY FS_StrictSubsetOrderingWellFounded
<1>2. Bad \subseteq FiniteSubsetsOf(S)
  BY FS_Subset DEF FiniteSubsetsOf
<1>3. PICK T \in Bad : \A U \in Bad : ~(<<U, T>> \in StrictSubsetOrdering(S))
  BY <1>1, <1>2, WFMin, Zenon
<1>4. ASSUME NEW U \in SUBSET T, U # T, U \in Bad PROVE FALSE
  <2>1. <<U, T>> \in StrictSubsetOrdering(S)
    BY <1>4 DEF StrictSubsetOrdering
  <2> QED  BY <1>3, <1>4, <2>1
<1> QED  BY <1>4

Picked(s) == CHOOSE x \in s : TRUE
IsSum(iter, f, S) ==
  iter = [s \in SUBSET S |-> IF s = {} THEN 0 ELSE f[Picked(s)] + iter[s \ {Picked(s)}]]

LEMMA SumIsChosen ==
  ASSUME NEW f, NEW S
  PROVE  SumFunctionOnSet(f, S) = (CHOOSE iter : IsSum(iter, f, S))[S]
BY DEF SumFunctionOnSet, FoldFunctionOnSet, MapThenFoldSet, IsSum, Picked

LEMMA PickedIsIn == ASSUME NEW s, s # {} PROVE Picked(s) \in s
BY DEF Picked

\* The recursion is defined, on ever larger subsets.
LEMMA SumExists ==
  ASSUME NEW f, NEW S, IsFiniteSet(S)
  PROVE  \E iter : IsSum(iter, f, S)
<1> DEFINE Adds(g, s) == g[s] = IF s = {} THEN 0 ELSE f[Picked(s)] + g[s \ {Picked(s)}]
           G == {n \in Nat : \E g : \A s \in SUBSET S : Cardinality(s) <= n => Adds(g, s)}
<1>1. \A s \in SUBSET S :
        /\ IsFiniteSet(s) /\ Cardinality(s) \in Nat
        /\ s # {} => Cardinality(s \ {Picked(s)}) = Cardinality(s) - 1
        /\ Cardinality(s) = 0 <=> s = {}
        /\ Cardinality(s) <= Cardinality(S)
  BY FS_Subset, FS_CardinalityType, FS_RemoveElement, FS_EmptySet, PickedIsIn
<1>2. 0 \in G
  <2> DEFINE g == [s \in SUBSET S |-> 0]
  <2>1. ASSUME NEW s \in SUBSET S, Cardinality(s) <= 0 PROVE Adds(g, s)
    <3>1. s = {}
      <4>1. Cardinality(s) \in Nat /\ Cardinality(s) <= 0
        BY <1>1, <2>1
      <4>2. Cardinality(s) = 0
        BY <4>1
      <4> QED  BY <1>1, <4>2
    <3> QED  BY <3>1
  <2> HIDE DEF Adds, g
  <2> QED  BY <2>1
<1>3. ASSUME NEW n \in Nat, n \in G PROVE n + 1 \in G
  <2>1. PICK g : \A s \in SUBSET S : Cardinality(s) <= n => Adds(g, s)
    BY <1>3
  <2> DEFINE h == [s \in SUBSET S |-> IF Cardinality(s) <= n THEN g[s]
                                      ELSE f[Picked(s)] + g[s \ {Picked(s)}]]
  <2>2. ASSUME NEW s \in SUBSET S, Cardinality(s) <= n + 1 PROVE Adds(h, s)
    <3> DEFINE rest == s \ {Picked(s)}
    <3>1. CASE s = {}
      <4>1. Cardinality(s) = 0
        BY <1>1, <3>1
      <4>2. Cardinality(s) <= n
        BY <4>1
      <4> QED  BY <2>1, <3>1, <4>2
    <3>2. CASE s # {}
      <4>1. rest \in SUBSET S /\ Cardinality(rest) <= n
        BY <1>1, <2>2, <3>2
      <4>2. h[rest] = g[rest]
        BY <4>1
      <4>3. h[s] = f[Picked(s)] + g[rest]
        <5>1. CASE Cardinality(s) <= n
          BY <2>1, <3>2, <5>1
        <5>2. CASE ~(Cardinality(s) <= n)
          BY <5>2
        <5> QED  BY <5>1, <5>2
      <4> QED  BY <3>2, <4>2, <4>3
    <3> QED  BY <3>1, <3>2
  <2> HIDE DEF Adds, h
  <2> QED  BY <2>2
<1>4. Nat \subseteq G
  <2> HIDE DEF G
  <2> QED  BY <1>2, <1>3, SetInduction
<1>5. PICK g : \A s \in SUBSET S : Adds(g, s)
  <2>1. Cardinality(S) \in G
    BY <1>4, FS_CardinalityType
  <2>2. PICK g : \A s \in SUBSET S : Cardinality(s) <= Cardinality(S) => Adds(g, s)
    BY <2>1
  <2> HIDE DEF Adds
  <2> QED  BY <1>1, <2>2
<1> DEFINE iter == [s \in SUBSET S |-> g[s]]
<1>6. ASSUME NEW s \in SUBSET S
      PROVE  iter[s] = IF s = {} THEN 0 ELSE f[Picked(s)] + iter[s \ {Picked(s)}]
  BY <1>5
<1>7. IsSum(iter, f, S)
  BY <1>6 DEF IsSum
<1> QED  BY <1>7

\* It is defined once, whatever set it started from.
LEMMA SumIsUnique ==
  ASSUME NEW f, NEW S, IsFiniteSet(S), NEW R, NEW g, NEW h, IsSum(g, f, S), IsSum(h, f, R),
         NEW T \in SUBSET S, T \subseteq R
  PROVE  g[T] = h[T]
<1> DEFINE Bad == {s \in SUBSET T : g[s] # h[s]}
<1>1. SUFFICES ASSUME Bad # {} PROVE FALSE
  OBVIOUS
<1>2. IsFiniteSet(T) /\ Bad \subseteq SUBSET T
  BY FS_Subset
<1>3. PICK s \in Bad : \A u \in SUBSET s : u # s => u \notin Bad
  <2> HIDE DEF Bad
  <2> QED  BY <1>1, <1>2, SmallestSubset
<1>4. /\ g[s] = IF s = {} THEN 0 ELSE f[Picked(s)] + g[s \ {Picked(s)}]
      /\ h[s] = IF s = {} THEN 0 ELSE f[Picked(s)] + h[s \ {Picked(s)}]
  BY DEF IsSum
<1>5. CASE s = {}
  BY <1>4, <1>5
<1>6. CASE s # {}
  <2>1. g[s \ {Picked(s)}] = h[s \ {Picked(s)}]
    BY <1>3, <1>6, PickedIsIn
  <2> QED  BY <1>4, <2>1
<1> QED  BY <1>5, <1>6

LEMMA SumOfNothing == ASSUME NEW f PROVE SumFunctionOnSet(f, {}) = 0
<1> DEFINE iter == CHOOSE iter : IsSum(iter, f, {})
<1>1. IsSum(iter, f, {})
  BY SumExists, FS_EmptySet
<1> HIDE DEF iter
<1>2. iter[{}] = 0
  BY <1>1 DEF IsSum
<1> QED  BY <1>2, SumIsChosen DEF iter

LEMMA SumOfPicked ==
  ASSUME NEW f, NEW S, IsFiniteSet(S), S # {}
  PROVE  SumFunctionOnSet(f, S) =
           f[Picked(S)] + SumFunctionOnSet(f, S \ {Picked(S)})
<1> DEFINE T == S \ {Picked(S)}
           g == CHOOSE iter : IsSum(iter, f, S)
           h == CHOOSE iter : IsSum(iter, f, T)
<1>1. IsFiniteSet(T) /\ T \in SUBSET S
  BY FS_RemoveElement
<1>2. IsSum(g, f, S) /\ IsSum(h, f, T)
  <2> HIDE DEF T
  <2> QED  BY <1>1, SumExists
<1>3. SumFunctionOnSet(f, S) = g[S] /\ SumFunctionOnSet(f, T) = h[T]
  BY SumIsChosen
<1> HIDE DEF g, h
<1>4. g[S] = f[Picked(S)] + g[T]
  BY <1>2 DEF IsSum
<1>5. g[T] = h[T]
  <2> HIDE DEF T
  <2>1. T \in SUBSET S /\ T \subseteq T
    BY <1>1
  <2>2. IsSum(g, f, S) /\ IsSum(h, f, T)
    BY <1>2
  <2> QED  BY <2>1, <2>2, SumIsUnique
<1> QED  BY <1>3, <1>4, <1>5

\* Numbers that agree have the same sum.
LEMMA SumOfSame ==
  ASSUME NEW S, IsFiniteSet(S), NEW f, NEW g, \A x \in S : f[x] = g[x]
  PROVE  SumFunctionOnSet(f, S) = SumFunctionOnSet(g, S)
<1> DEFINE Bad == {s \in SUBSET S : SumFunctionOnSet(f, s) # SumFunctionOnSet(g, s)}
<1>1. SUFFICES ASSUME Bad # {} PROVE FALSE
  OBVIOUS
<1>2. PICK s \in Bad : \A u \in SUBSET s : u # s => u \notin Bad
  <2>1. Bad \subseteq SUBSET S
    OBVIOUS
  <2> HIDE DEF Bad
  <2> QED  BY <1>1, <2>1, SmallestSubset
<1>3. s \subseteq S /\ IsFiniteSet(s)
  BY FS_Subset
<1>4. CASE s = {}
  BY <1>4, SumOfNothing
<1>5. CASE s # {}
  <2>1. s \ {Picked(s)} \notin Bad /\ Picked(s) \in S
    BY <1>2, <1>3, <1>5, PickedIsIn
  <2>2. SumFunctionOnSet(f, s \ {Picked(s)}) = SumFunctionOnSet(g, s \ {Picked(s)})
    BY <1>3, <2>1
  <2> QED  BY <1>3, <1>5, <2>1, <2>2, SumOfPicked
<1> QED  BY <1>4, <1>5

LEMMA SumType ==
  ASSUME NEW S, IsFiniteSet(S), NEW f, \A x \in S : f[x] \in Nat
  PROVE  SumFunctionOnSet(f, S) \in Nat
<1> DEFINE Bad == {s \in SUBSET S : SumFunctionOnSet(f, s) \notin Nat}
<1>1. SUFFICES ASSUME Bad # {} PROVE FALSE
  OBVIOUS
<1>2. PICK s \in Bad : \A u \in SUBSET s : u # s => u \notin Bad
  <2>1. Bad \subseteq SUBSET S
    OBVIOUS
  <2> HIDE DEF Bad
  <2> QED  BY <1>1, <2>1, SmallestSubset
<1>3. s \subseteq S /\ IsFiniteSet(s)
  BY FS_Subset
<1>4. CASE s = {}
  BY <1>4, SumOfNothing
<1>5. CASE s # {}
  <2>1. s \ {Picked(s)} \notin Bad /\ Picked(s) \in S
    BY <1>2, <1>3, <1>5, PickedIsIn
  <2>2. SumFunctionOnSet(f, s \ {Picked(s)}) \in Nat
    BY <1>3, <2>1
  <2> QED  BY <1>3, <1>5, <2>1, <2>2, SumOfPicked
<1> QED  BY <1>4, <1>5

\* Any number may be added last.
LEMMA SumOfRest ==
  ASSUME NEW S, IsFiniteSet(S), NEW f, \A x \in S : f[x] \in Nat, NEW x \in S
  PROVE  SumFunctionOnSet(f, S) = SumFunctionOnSet(f, S \ {x}) + f[x]
<1> DEFINE Sum(s) == SumFunctionOnSet(f, s)
           Bad == {s \in SUBSET S : \E y \in s : Sum(s) # Sum(s \ {y}) + f[y]}
<1>1. SUFFICES ASSUME Bad # {} PROVE FALSE
  BY <1>1
<1>2. PICK s \in Bad : \A u \in SUBSET s : u # s => u \notin Bad
  <2>1. Bad \subseteq SUBSET S
    OBVIOUS
  <2> HIDE DEF Bad
  <2> QED  BY <1>1, <2>1, SmallestSubset
<1>3. s \subseteq S /\ IsFiniteSet(s)
  BY FS_Subset
<1>4. PICK y \in s : Sum(s) # Sum(s \ {y}) + f[y]
  OBVIOUS
<1> DEFINE c == Picked(s)
           t == s \ {c}
           u == s \ {y}
           v == (s \ {c}) \ {y}
<1>5. c \in s
  BY <1>4, PickedIsIn
<1>6. IsFiniteSet(t) /\ IsFiniteSet(u) /\ IsFiniteSet(v)
  BY <1>3, FS_RemoveElement
<1>7. Sum(t) \in Nat /\ Sum(u) \in Nat /\ Sum(v) \in Nat
  BY <1>3, <1>6, SumType
<1>8. f[c] \in Nat /\ f[y] \in Nat
  BY <1>3, <1>4, <1>5
<1>9. Sum(s) = f[c] + Sum(t)
  BY <1>3, <1>4, SumOfPicked
<1>10. CASE c = y
  BY <1>4, <1>7, <1>8, <1>9, <1>10
<1>11. CASE c # y
  <2>1. t \notin Bad /\ y \in t /\ t \in SUBSET S
    BY <1>2, <1>3, <1>4, <1>5, <1>11
  <2>2. Sum(t) = Sum(v) + f[y]
    BY <2>1
  <2>3. u \notin Bad /\ c \in u /\ u \in SUBSET S
    BY <1>2, <1>3, <1>4, <1>5, <1>11
  <2>4. Sum(u) = Sum(u \ {c}) + f[c]
    BY <2>3
  <2>5. u \ {c} = v
    OBVIOUS
  <2> HIDE DEF Sum, t, u, v, c
  <2>6. Sum(s) = Sum(u) + f[y]
    BY <1>7, <1>8, <1>9, <2>2, <2>4, <2>5
  <2> QED  BY <1>4, <2>6 DEF u
<1> QED  BY <1>10, <1>11

\* Numbers that differ in one place have sums that differ by as much.
LEMMA SumOfUpdate ==
  ASSUME NEW S, IsFiniteSet(S), NEW f, NEW g, NEW x \in S,
         \A y \in S : f[y] \in Nat /\ g[y] \in Nat,
         \A y \in S : y # x => f[y] = g[y]
  PROVE  SumFunctionOnSet(g, S) + f[x] = SumFunctionOnSet(f, S) + g[x]
<1> DEFINE rest == S \ {x}
<1>1. IsFiniteSet(rest)
  BY FS_RemoveElement
<1>2. \A y \in rest : f[y] = g[y] /\ f[y] \in Nat /\ g[y] \in Nat
  OBVIOUS
<1>3. /\ SumFunctionOnSet(f, S) = SumFunctionOnSet(f, rest) + f[x]
      /\ SumFunctionOnSet(g, S) = SumFunctionOnSet(g, rest) + g[x]
  BY SumOfRest
<1> HIDE DEF rest
<1>4. SumFunctionOnSet(f, rest) = SumFunctionOnSet(g, rest)
  BY <1>1, <1>2, SumOfSame
<1>5. SumFunctionOnSet(f, rest) \in Nat /\ SumFunctionOnSet(g, rest) \in Nat
  BY <1>1, <1>2, SumType
<1> QED  BY <1>3, <1>4, <1>5

\* Zeros may be left out.
LEMMA SumOfSubset ==
  ASSUME NEW S, IsFiniteSet(S), NEW f, \A x \in S : f[x] \in Nat,
         NEW T \in SUBSET S, \A x \in S \ T : f[x] = 0
  PROVE  SumFunctionOnSet(f, S) = SumFunctionOnSet(f, T)
<1> DEFINE Sum(s) == SumFunctionOnSet(f, s)
           Bad == {s \in SUBSET S : Sum(s) # Sum(s \cap T)}
<1>1. SUFFICES ASSUME Bad # {} PROVE FALSE
  <2>1. S \notin Bad
    BY <1>1
  <2>2. S \cap T = T
    OBVIOUS
  <2> QED  BY <2>1, <2>2
<1>2. PICK s \in Bad : \A u \in SUBSET s : u # s => u \notin Bad
  <2>1. Bad \subseteq SUBSET S
    OBVIOUS
  <2> HIDE DEF Bad
  <2> QED  BY <1>1, <2>1, SmallestSubset
<1>3. s \subseteq S /\ IsFiniteSet(s) /\ IsFiniteSet(s \cap T)
  BY FS_Subset
<1>4. s # {}
  <2>1. {} \cap T = {}
    OBVIOUS
  <2> QED  BY <2>1
<1>5. PICK x \in s : TRUE
  BY <1>4
<1> DEFINE t == s \ {x}
<1>6. Sum(s) = Sum(t) + f[x]
  BY <1>3, SumOfRest
<1>7. Sum(t) = Sum(t \cap T)
  BY <1>2, <1>3
<1>8. CASE x \in T
  <2>1. Sum(s \cap T) = Sum((s \cap T) \ {x}) + f[x]
    BY <1>3, <1>8, SumOfRest
  <2>2. (s \cap T) \ {x} = t \cap T
    OBVIOUS
  <2> HIDE DEF Sum, t
  <2>3. Sum(s) = Sum(s \cap T)
    BY <1>6, <1>7, <2>1, <2>2
  <2> QED  BY <2>3 DEF Sum
<1>9. CASE x \notin T
  <2>1. f[x] = 0 /\ t \cap T = s \cap T
    BY <1>3, <1>9
  <2>2. IsFiniteSet(t) /\ \A y \in t : f[y] \in Nat
    BY <1>3, FS_RemoveElement
  <2>3. Sum(t) \in Nat
    BY <2>2, SumType
  <2>4. Sum(t \cap T) = Sum(s \cap T)
    BY <2>1
  <2> HIDE DEF Sum, t
  <2>5. Sum(s) = Sum(s \cap T)
    BY <1>6, <1>7, <2>1, <2>3, <2>4
  <2> QED  BY <2>5 DEF Sum
<1> QED  BY <1>8, <1>9

-----------------------------------------------------------------------------
(***************************************************************************)
(* The inductive invariant of a run.                                       *)
(***************************************************************************)

\* The deliveries taken so far, and what they say of a payment.
Taken == IF phase = "ingesting" THEN 1..(position - 1) ELSE DOMAIN dataset.events
FailureTaken(p) == \E i \in Taken : dataset.events[i] = Failed(dataset.events[i].id, p)
CaptureTaken(p) == \E i \in Taken : dataset.events[i] = Captured(dataset.events[i].id, p)

\* The cases that had ended before the run, those whose turn came in it, and
\* both together.
EndedBefore == {p \in Numbers : EndedRow(dataset.payments[p], dataset.rows[p])}
TurnsTaken == IF phase = "ingesting" THEN {} ELSE {order[k] : k \in 1..(position - 1)}
TurnOver == EndedBefore \cup TurnsTaken

PhaseType ==
  /\ dataset \in Datasets
  /\ phase \in {"ingesting", "between", "advancing", "scored"}
  /\ position \in Nat \ {0}
  /\ phase = "ingesting" => position \in (dataset.before + 1)..(Len(dataset.events) + 1)
  /\ phase # "ingesting" => position <= Len(order) + 1
  /\ phase = "advancing" => position <= Len(order)

\* webhook_events has the id of every delivery taken, once; every delivery of
\* this run brought a new id or was a duplicate.
TakenNow == Taken \ (1..dataset.before)
LedgerCounts ==
  /\ ledger = {dataset.events[i].id : i \in Taken}
  /\ duplicates \in Nat
  /\ duplicates + Cardinality(ledger \ KeptIds) = Cardinality(TakenNow)

\* There is one case for every failure taken.
OrderOpens ==
  /\ order \in Seq(Numbers)
  /\ \A j, k \in 1..Len(order) : order[j] = order[k] => j = k
  /\ \A p \in Numbers : FailureTaken(p) <=> \E k \in 1..Len(order) : order[k] = p

\* The row of a payment until its case has had its turn, and after it.
Untouched(p, s) == [NotOpened(dataset.payments[p]) EXCEPT !.status = s]
Healed(p) == HealedRow(dataset.payments[p])
Ended(p, row) == EndedRow(dataset.payments[p], row)

RowsTell ==
  /\ rows = [p \in Numbers |-> rows[p]]
  /\ \A p \in Numbers :
       /\ CaptureTaken(p) => rows[p] = Healed(p)
       /\ ~CaptureTaken(p) /\ p \in TurnOver => Ended(p, rows[p])
       /\ ~CaptureTaken(p) /\ p \notin TurnOver =>
            rows[p] = Untouched(p, IF FailureTaken(p) THEN "DETECTED" ELSE "none")

\* The case that is being advanced is of a payment nobody paid and had not ended
\* before; it was loaded with the charges the others have made.
CaseIsCurrent ==
  phase = "advancing" =>
    /\ ~CaptureTaken(Current) /\ Current \notin EndedBefore
    /\ facts = [dataset.payments[Current] EXCEPT !.otherCharges = ChargesOfOthers]

\* Without real links a case that is over is so in one of four ways.
CaseEnds ==
  /\ pc = "done" => IsTerminal(status)
  /\ status \notin {"FAILED", "EXPIRED", "CANCELLED"}

CaseInv == BudgetInv /\ MoneyInv /\ CaseEnds

\* The report is what _score makes of the rows.
ReportIsScore ==
  phase = "scored" =>
    LET Booked(p) == IF rows[p].status = "RECOVERED" THEN rows[p].recovered ELSE 0
    IN  /\ position > Len(order)
        /\ report.total = Len(order)
        /\ report.recovered = Having("RECOVERED")
        /\ report.selfHealed = SelfHealed
        /\ report.agentRecovered = Having("RECOVERED") - SelfHealed
        /\ report.unrecovered = Having("CLOSED_UNRECOVERED")
        /\ report.escalated = Having("ESCALATED")
        /\ report.blocked = Having("BLOCKED")
        /\ report.amount = Total(Booked)

\* The charges of the cases nobody is advancing keep the budget.
Spent == SumFunctionOnSet([p \in Numbers |-> rows[p].charges], Numbers)
SpentEarlier == SumFunctionOnSet([p \in Numbers |-> dataset.rows[p].charges], Numbers)
SpentWithinBudget == Spent > SpentEarlier => Spent <= SimulationBudget

IngestInv == PhaseType /\ LedgerCounts /\ OrderOpens /\ RowsTell
RunInv == IngestInv /\ CaseInv /\ CaseIsCurrent /\ SpentWithinBudget /\ ReportIsScore

-----------------------------------------------------------------------------
(***************************************************************************)
(* What a dataset is made of.                                              *)
(***************************************************************************)

LEMMA DatasetIsWellFormed == PhaseType => Deliveries(dataset) /\ Kept(dataset)
BY DatasetAssumption DEF PhaseType, WellFormed

LEMMA PaymentsAreCases ==
  ASSUME PhaseType
  PROVE  /\ Numbers = 1..Len(dataset.payments)
         /\ IsFiniteSet(Numbers)
         /\ \A p \in Numbers :
              /\ dataset.payments[p] \in Cases
              /\ dataset.payments[p] \in CaseFacts
              /\ dataset.payments[p].priorAttempts \in 0..MaxRetries
              /\ dataset.payments[p].amount \in Nat
<1>1. dataset.payments \in Seq(Cases)
  BY DatasetIsWellFormed DEF Deliveries
<1>2. Numbers = 1..Len(dataset.payments) /\ Len(dataset.payments) \in Nat
  BY <1>1 DEF Numbers
<1>3. IsFiniteSet(Numbers)
  BY <1>2, FS_Interval
<1>4. ASSUME NEW p \in Numbers PROVE dataset.payments[p] \in Cases
  BY <1>1, <1>2
<1>5. Cases \subseteq PossibleFacts
  BY PipelineAssumption
<1>6. ASSUME NEW c \in PossibleFacts
      PROVE  c \in CaseFacts /\ c.priorAttempts \in 0..MaxRetries /\ c.amount \in Nat
  <2>1. c \in CaseFacts /\ c.priorAttempts <= MaxRetries /\ MaxRetries \in Nat
    BY PolicyConfigAssumption DEF PossibleFacts
  <2> QED  BY <2>1 DEF CaseFacts
<1> QED  BY <1>1, <1>2, <1>3, <1>4, <1>5, <1>6

\* A delivery is a failure or a capture of a payment, and no capture comes
\* before the failure.
LEMMA DeliveriesOfPayments ==
  ASSUME PhaseType
  PROVE  /\ Len(dataset.events) \in Nat
         /\ DOMAIN dataset.events = 1..Len(dataset.events)
         /\ \A i \in DOMAIN dataset.events :
              LET e == dataset.events[i]
              IN  /\ e.of \in Numbers
                  /\ \/ e = Failed(e.id, e.of) /\ e.event = "payment.failed"
                     \/ /\ e = Captured(e.id, e.of)
                        /\ e.event = "payment.captured"
                        /\ \E j \in 1..i : dataset.events[j] = Failed(dataset.events[j].id, e.of)
<1>1. dataset.events \in Seq({dataset.events[i] : i \in DOMAIN dataset.events})
  BY DatasetIsWellFormed DEF Deliveries
<1>2. Len(dataset.events) \in Nat /\ DOMAIN dataset.events = 1..Len(dataset.events)
  BY <1>1
<1>3. ASSUME NEW i \in DOMAIN dataset.events
      PROVE  LET e == dataset.events[i]
             IN  /\ e.of \in Numbers
                 /\ \/ e = Failed(e.id, e.of) /\ e.event = "payment.failed"
                    \/ /\ e = Captured(e.id, e.of)
                       /\ e.event = "payment.captured"
                       /\ \E j \in 1..i : dataset.events[j] = Failed(dataset.events[j].id, e.of)
  <2> DEFINE e == dataset.events[i]
  <2>1. PICK p \in Numbers : e \in {Failed(e.id, p), Captured(e.id, p)}
    BY <1>3, DatasetIsWellFormed DEF Deliveries, Numbers
  <2>2. CASE e = Failed(e.id, p)
    BY <2>2 DEF Failed
  <2>3. CASE e = Captured(e.id, p)
    <3>1. e.of = p /\ e.event = "payment.captured"
      BY <2>3 DEF Captured
    <3>2. \E j \in 1..i : dataset.events[j] = Failed(dataset.events[j].id, e.of)
      BY <1>3, <3>1, DatasetIsWellFormed DEF Deliveries
    <3> QED  BY <2>3, <3>1, <3>2
  <2> QED  BY <2>1, <2>2, <2>3
<1> QED  BY <1>2, <1>3

\* Every payment fails, under one id however often it is delivered.
LEMMA OneFailureEach ==
  ASSUME PhaseType, NEW p \in Numbers
  PROVE  /\ \E i \in DOMAIN dataset.events :
              dataset.events[i] = Failed(dataset.events[i].id, p)
         /\ \A i, j \in DOMAIN dataset.events :
              /\ dataset.events[i] = Failed(dataset.events[i].id, p)
              /\ dataset.events[j] = Failed(dataset.events[j].id, p)
              => dataset.events[i].id = dataset.events[j].id
<1> DEFINE failures == {j \in DOMAIN dataset.events :
                          dataset.events[j] = Failed(dataset.events[j].id, p)}
           ids == {dataset.events[i].id : i \in failures}
<1>1. Cardinality(ids) = 1
  BY DatasetIsWellFormed DEF Deliveries, Numbers
<1>2. IsFiniteSet(ids)
  <2>1. IsFiniteSet(failures)
    <3>1. IsFiniteSet(DOMAIN dataset.events)
      BY DeliveriesOfPayments, FS_Interval
    <3> QED  BY <3>1, FS_Subset
  <2> DEFINE idOf == [i \in failures |-> dataset.events[i].id]
  <2>2. idOf \in Surjection(failures, ids)
    BY DEF Surjection
  <2> HIDE DEF failures, ids, idOf
  <2> QED  BY <2>1, <2>2, FS_Surjection
<1>3. PICK x : ids = {x}
  <2> HIDE DEF ids
  <2> QED  BY <1>1, <1>2, FS_Singleton
<1> QED  BY <1>3

\* A capture was taken of failed payments only.
LEMMA CapturedHasFailed ==
  ASSUME PhaseType, NEW p, CaptureTaken(p) PROVE p \in Numbers /\ FailureTaken(p)
<1>1. PICK i \in Taken : dataset.events[i] = Captured(dataset.events[i].id, p)
  BY DEF CaptureTaken
<1>2. i \in DOMAIN dataset.events /\ 1..i \subseteq Taken
  BY <1>1, DeliveriesOfPayments DEF Taken, PhaseType
<1>3. dataset.events[i].of = p /\ dataset.events[i].event = "payment.captured"
  BY <1>1 DEF Captured
<1>4. dataset.events[i] # Failed(dataset.events[i].id, p)
  BY <1>3 DEF Failed
<1> QED  BY <1>2, <1>3, <1>4, DeliveriesOfPayments DEF FailureTaken

\* Taking the next delivery.
LEMMA TakeNext ==
  ASSUME PhaseType, phase = "ingesting", position <= Len(dataset.events),
         position' = position + 1, UNCHANGED <<dataset, phase>>
  PROVE  /\ position \in DOMAIN dataset.events /\ position \notin Taken
         /\ IsFiniteSet(Taken) /\ Taken' = Taken \cup {position}
         /\ TakenNow' = TakenNow \cup {position} /\ KeptIds' = KeptIds
         /\ PhaseType' /\ Numbers' = Numbers /\ TurnOver' = TurnOver
         /\ \A p : FailureTaken(p)' <=>
                    FailureTaken(p) \/ Delivery = Failed(Delivery.id, p)
         /\ \A p : CaptureTaken(p)' <=>
                    CaptureTaken(p) \/ Delivery = Captured(Delivery.id, p)
<1>1. position \in DOMAIN dataset.events /\ position \notin Taken
  BY DeliveriesOfPayments DEF Taken, PhaseType
<1>2. Taken = 1..(position - 1) /\ Taken' = 1..position
  BY DEF Taken, PhaseType
<1>3. Taken' = Taken \cup {position}
  BY <1>2 DEF PhaseType
<1>4. IsFiniteSet(Taken)
  BY <1>2, FS_Interval DEF PhaseType
<1>5. PhaseType'
  <2>1. Len(dataset.events) \in Nat /\ dataset.before \in Nat
    BY DeliveriesOfPayments, DatasetIsWellFormed DEF Kept
  <2> QED  BY <2>1 DEF PhaseType
<1>6. \A p : FailureTaken(p)' <=> FailureTaken(p) \/ Delivery = Failed(Delivery.id, p)
  BY <1>3 DEF FailureTaken, Delivery
<1>7. \A p : CaptureTaken(p)' <=> CaptureTaken(p) \/ Delivery = Captured(Delivery.id, p)
  BY <1>3 DEF CaptureTaken, Delivery
<1>8. TakenNow' = TakenNow \cup {position} /\ KeptIds' = KeptIds
  <2>1. position \notin 1..dataset.before
    BY DatasetIsWellFormed DEF Kept, PhaseType
  <2> QED  BY <1>3, <2>1 DEF TakenNow, KeptIds
<1>9. Numbers' = Numbers /\ TurnOver' = TurnOver
  BY DEF Numbers, TurnOver, TurnsTaken, EndedBefore
<1> QED  BY <1>1, <1>3, <1>4, <1>5, <1>6, <1>7, <1>8, <1>9

\* What was kept is taken, and the deliveries of a kept payment bring no new id.
LEMMA NewIsNotKept ==
  ASSUME PhaseType, LedgerCounts, phase = "ingesting", position <= Len(dataset.events),
         ~SeenBefore(Delivery)
  PROVE  Delivery.of \in Numbers => Delivery.of \notin EndedBefore
<1> DEFINE p == Delivery.of
<1>1. position \in DOMAIN dataset.events /\ Delivery = dataset.events[position]
  BY DeliveriesOfPayments DEF PhaseType, Delivery
<1>2. ~FailedBefore(dataset, p)
  <2>1. SUFFICES ASSUME FailedBefore(dataset, p) PROVE FALSE
    OBVIOUS
  <2>2. PICK j \in 1..dataset.before : dataset.events[j].id = Delivery.id
    BY <1>1, <2>1, DatasetIsWellFormed DEF Kept
  <2>3. j \in Taken
    BY <2>2, DatasetIsWellFormed DEF Taken, PhaseType, Kept
  <2> QED  BY <2>2, <2>3 DEF SeenBefore, LedgerCounts
<1>3. ASSUME p \in Numbers, p \in EndedBefore PROVE FALSE
  <2>1. p \in DOMAIN dataset.payments /\ EndedRow(dataset.payments[p], dataset.rows[p])
    BY <1>3 DEF EndedBefore, Numbers
  <2>2. \/ dataset.rows[p] = HealedRow(dataset.payments[p])
        \/ dataset.rows[p] = NotOpened(dataset.payments[p])
    BY <1>2, <2>1, DatasetIsWellFormed DEF Kept
  <2>3. /\ dataset.rows[p].status # "none" /\ dataset.rows[p].outcome # "SELF_HEALED"
    BY <2>1 DEF EndedRow
  <2>4. \A f : HealedRow(f).outcome = "SELF_HEALED" /\ NotOpened(f).status = "none"
    BY DEF HealedRow, NotOpened
  <2> QED  BY <2>2, <2>3, <2>4
<1> QED  BY <1>3

LEMMA LedgerIsFinite ==
  ASSUME LedgerCounts, IsFiniteSet(Taken)
  PROVE  /\ IsFiniteSet(ledger) /\ IsFiniteSet(ledger \ KeptIds)
         /\ Cardinality(ledger \ KeptIds) \in Nat
<1> DEFINE idOf == [i \in Taken |-> dataset.events[i].id]
<1>1. idOf \in Surjection(Taken, ledger)
  BY DEF Surjection, LedgerCounts
<1> HIDE DEF idOf
<1>2. IsFiniteSet(ledger)
  BY <1>1, FS_Surjection
<1> QED  BY <1>2, FS_Difference, FS_CardinalityType

LEMMA TakenNowGrows ==
  ASSUME IsFiniteSet(Taken), position \notin Taken, TakenNow' = TakenNow \cup {position}
  PROVE  Cardinality(TakenNow') = Cardinality(TakenNow) + 1 /\ Cardinality(TakenNow) \in Nat
<1>1. IsFiniteSet(TakenNow) /\ position \notin TakenNow
  BY FS_Difference DEF TakenNow
<1> QED  BY <1>1, FS_AddElement, FS_CardinalityType

\* A delivery whose id is new is recorded, and counts one more id.
LEMMA NewIdCounts ==
  ASSUME PhaseType, LedgerCounts, phase = "ingesting", position <= Len(dataset.events),
         position' = position + 1, UNCHANGED <<dataset, phase, duplicates>>,
         ~SeenBefore(Delivery), ledger' = ledger \cup {Delivery.id}
  PROVE  LedgerCounts'
<1>1. /\ position \notin Taken /\ IsFiniteSet(Taken) /\ Taken' = Taken \cup {position}
      /\ TakenNow' = TakenNow \cup {position} /\ KeptIds' = KeptIds
  BY TakeNext
<1>2. ledger' = {dataset'.events[i].id : i \in Taken'}
  BY <1>1 DEF LedgerCounts, Delivery
<1>3. IsFiniteSet(ledger \ KeptIds) /\ Cardinality(ledger \ KeptIds) \in Nat
  BY <1>1, LedgerIsFinite
<1>4. Cardinality(ledger' \ KeptIds') = Cardinality(ledger \ KeptIds) + 1
  <2>1. Delivery.id \notin KeptIds
    <3>1. 1..dataset.before \subseteq Taken
      BY DatasetIsWellFormed DEF Kept, Taken, PhaseType
    <3> QED  BY <3>1 DEF KeptIds, SeenBefore, LedgerCounts
  <2>2. ledger' \ KeptIds' = (ledger \ KeptIds) \cup {Delivery.id}
    BY <1>1, <2>1
  <2> QED  BY <1>3, <2>2, FS_AddElement DEF SeenBefore
<1>5. Cardinality(TakenNow') = Cardinality(TakenNow) + 1 /\ Cardinality(TakenNow) \in Nat
  BY <1>1, TakenNowGrows
<1>6. duplicates' \in Nat /\ duplicates' + Cardinality(ledger' \ KeptIds') = Cardinality(TakenNow')
  BY <1>3, <1>4, <1>5 DEF LedgerCounts
<1> QED  BY <1>2, <1>6, Zenon DEF LedgerCounts

\* A delivery whose id was recorded is one that was taken before.
LEMMA SkipKeepsIngest == IngestInv /\ SkipDuplicate => IngestInv'
<1> SUFFICES ASSUME IngestInv, SkipDuplicate PROVE IngestInv'
  OBVIOUS
<1> USE DEF IngestInv
<1>0. /\ phase = "ingesting" /\ position <= Len(dataset.events) /\ SeenBefore(Delivery)
      /\ position' = position + 1 /\ duplicates' = duplicates + 1
      /\ UNCHANGED <<dataset, phase, ledger, order, rows>>
  BY DEF SkipDuplicate
<1>1. /\ position \in DOMAIN dataset.events /\ position \notin Taken
      /\ IsFiniteSet(Taken) /\ Taken' = Taken \cup {position}
      /\ TakenNow' = TakenNow \cup {position} /\ KeptIds' = KeptIds
      /\ PhaseType' /\ Numbers' = Numbers /\ TurnOver' = TurnOver
  BY <1>0, TakeNext
<1>2. PICK i \in Taken : dataset.events[i].id = Delivery.id
  BY <1>0 DEF SeenBefore, LedgerCounts
<1>3. dataset.events[i] = Delivery
  <2>1. i \in DOMAIN dataset.events
    BY <1>0, DeliveriesOfPayments DEF Taken, PhaseType
  <2> QED  BY <1>1, <1>2, <2>1, DatasetIsWellFormed DEF Deliveries, Delivery
<1>4. \A p : (FailureTaken(p)' <=> FailureTaken(p)) /\ (CaptureTaken(p)' <=> CaptureTaken(p))
  BY <1>0, <1>2, <1>3, TakeNext DEF FailureTaken, CaptureTaken
<1>5. LedgerCounts'
  <2>1. ledger' = {dataset'.events[j].id : j \in Taken'}
    BY <1>0, <1>1, <1>2, <1>3 DEF LedgerCounts, Delivery
  <2>2. Cardinality(TakenNow') = Cardinality(TakenNow) + 1 /\ Cardinality(TakenNow) \in Nat
    BY <1>1, TakenNowGrows
  <2>3. duplicates' + Cardinality(ledger' \ KeptIds') = Cardinality(TakenNow')
    <3>1. Cardinality(ledger \ KeptIds) \in Nat
      BY <1>1, LedgerIsFinite
    <3>2. ledger' \ KeptIds' = ledger \ KeptIds
      BY <1>0, <1>1
    <3>3. duplicates \in Nat /\ duplicates + Cardinality(ledger \ KeptIds) = Cardinality(TakenNow)
      BY DEF LedgerCounts
    <3>4. Cardinality(ledger' \ KeptIds') = Cardinality(ledger \ KeptIds)
      BY <3>2
    <3>5. duplicates' = duplicates + 1
      BY <1>0
    <3> QED  BY <2>2, <3>1, <3>3, <3>4, <3>5
  <2>4. duplicates' \in Nat
    BY <1>0 DEF LedgerCounts
  <2> QED  BY <2>1, <2>3, <2>4, Zenon DEF LedgerCounts
<1>7. OrderOpens' /\ RowsTell'
  BY <1>0, <1>1, <1>4 DEF OrderOpens, RowsTell, Healed, Untouched, Ended
<1> QED  BY <1>1, <1>5, <1>7

\* A case is opened for a payment that has none.
LEMMA OpenKeepsIngest ==
  IngestInv /\ OpenCase =>
    /\ IngestInv' /\ Delivery.of \in Numbers
    /\ rows[Delivery.of] = Untouched(Delivery.of, "none")
    /\ rows' = [rows EXCEPT ![Delivery.of] = Untouched(Delivery.of, "DETECTED")]
<1> SUFFICES ASSUME IngestInv, OpenCase
             PROVE  /\ IngestInv' /\ Delivery.of \in Numbers
                    /\ rows[Delivery.of] = Untouched(Delivery.of, "none")
                    /\ rows' = [rows EXCEPT ![Delivery.of] = Untouched(Delivery.of, "DETECTED")]
  OBVIOUS
<1> USE DEF IngestInv
<1> DEFINE p == Delivery.of
<1>0. /\ phase = "ingesting" /\ position <= Len(dataset.events)
      /\ Delivery.event = "payment.failed" /\ ~SeenBefore(Delivery)
      /\ ledger' = ledger \cup {Delivery.id} /\ position' = position + 1
      /\ UNCHANGED <<dataset, phase, duplicates>>
      /\ order' = Append(order, p) /\ rows' = [rows EXCEPT ![p].status = "DETECTED"]
  BY DEF OpenCase, Deliver
<1>1. /\ position \in DOMAIN dataset.events /\ PhaseType' /\ Numbers' = Numbers
      /\ TurnOver' = TurnOver
      /\ \A q : FailureTaken(q)' <=> FailureTaken(q) \/ Delivery = Failed(Delivery.id, q)
      /\ \A q : CaptureTaken(q)' <=> CaptureTaken(q) \/ Delivery = Captured(Delivery.id, q)
  BY <1>0, TakeNext
<1>2. p \in Numbers /\ Delivery = Failed(Delivery.id, p)
  BY <1>0, <1>1, DeliveriesOfPayments DEF Delivery
<1>3. /\ \A q : Delivery = Failed(Delivery.id, q) <=> q = p
      /\ \A q : Delivery # Captured(Delivery.id, q)
  <2>1. ASSUME NEW q, Delivery = Failed(Delivery.id, q) PROVE q = p
    BY <2>1 DEF Failed
  <2>2. ASSUME NEW q, Delivery = Captured(Delivery.id, q) PROVE FALSE
    <3>1. Delivery.event = "payment.captured"
      BY <2>2 DEF Captured
    <3> QED  BY <1>0, <3>1
  <2> QED  BY <1>2, <2>1, <2>2
<1>4. ~FailureTaken(p)
  <2>1. SUFFICES ASSUME NEW i \in Taken,
                        dataset.events[i] = Failed(dataset.events[i].id, p)
                 PROVE  FALSE
    BY DEF FailureTaken
  <2>2. i \in DOMAIN dataset.events
    BY <1>0, DeliveriesOfPayments DEF Taken, PhaseType
  <2>3. dataset.events[i].id = Delivery.id
    BY <1>1, <1>2, <2>1, <2>2, OneFailureEach DEF Delivery
  <2> QED  BY <1>0, <2>3 DEF SeenBefore, LedgerCounts
<1>5. ~CaptureTaken(p)
  BY <1>4, CapturedHasFailed
<1>6. p \notin TurnOver
  BY <1>0, <1>2, NewIsNotKept DEF TurnOver, TurnsTaken
<1>7. LedgerCounts'
  BY <1>0, NewIdCounts
<1>8. OrderOpens'
  <2>1. order \in Seq(Numbers) /\ Len(order) \in Nat
    BY DEF OrderOpens
  <2>2. /\ order' \in Seq(Numbers) /\ Len(order') = Len(order) + 1
        /\ order'[Len(order) + 1] = p
        /\ \A k \in 1..Len(order) : order'[k] = order[k] /\ order[k] # p
    <3>1. \A k \in 1..Len(order) : order[k] # p
      BY <1>2, <1>4 DEF OrderOpens
    <3> HIDE DEF p
    <3> QED  BY <1>0, <1>2, <2>1, <3>1
  <2>3. \A j, k \in 1..Len(order') : order'[j] = order'[k] => j = k
    BY <2>1, <2>2 DEF OrderOpens
  <2>4. ASSUME NEW q \in Numbers
        PROVE  FailureTaken(q)' <=> \E k \in 1..Len(order') : order'[k] = q
    <3>1. FailureTaken(q)' <=> FailureTaken(q) \/ q = p
      BY <1>1, <1>3
    <3>2. FailureTaken(q) <=> \E k \in 1..Len(order) : order[k] = q
      BY DEF OrderOpens
    <3>3. 1..Len(order') = (1..Len(order)) \cup {Len(order) + 1}
      BY <2>1, <2>2
    <3> HIDE DEF p
    <3> QED  BY <2>2, <3>1, <3>2, <3>3
  <2> QED  BY <1>1, <2>2, <2>3, <2>4 DEF OrderOpens
<1>9. rows[p] = Untouched(p, "none")
  BY <1>2, <1>4, <1>5, <1>6 DEF RowsTell
<1>10. rows' = [rows EXCEPT ![p] = Untouched(p, "DETECTED")]
  <2>1. DOMAIN rows = Numbers
    BY DEF RowsTell
  <2>2. [rows[p] EXCEPT !.status = "DETECTED"] = Untouched(p, "DETECTED")
    BY <1>9 DEF Untouched, NotOpened
  <2> HIDE DEF p
  <2> QED  BY <1>0, <1>2, <2>1, <2>2
<1>11. RowsTell'
  <2>2. rows'[p] = Untouched(p, "DETECTED")
    BY <1>2, <1>10 DEF RowsTell
  <2>3. \A q \in Numbers \ {p} : rows'[q] = rows[q]
    BY <1>0 DEF RowsTell
  <2>4. rows' = [q \in Numbers |-> rows'[q]]
    BY <1>0 DEF RowsTell
  <2>5. /\ \A q, t : Untouched(q, t)' = Untouched(q, t) /\ Healed(q)' = Healed(q)
        /\ \A q, row : Ended(q, row)' <=> Ended(q, row)
    BY <1>0 DEF Untouched, Healed, Ended
  <2>6. ASSUME NEW q \in Numbers
        PROVE  /\ CaptureTaken(q)' => rows'[q] = Healed(q)
               /\ ~CaptureTaken(q)' /\ q \in TurnOver => Ended(q, rows'[q])
               /\ ~CaptureTaken(q)' /\ q \notin TurnOver =>
                    rows'[q] = Untouched(q, IF FailureTaken(q)' THEN "DETECTED" ELSE "none")
    <3>1. CASE q = p
      BY <1>1, <1>2, <1>3, <1>5, <1>6, <2>2, <3>1
    <3>2. CASE q # p
      <4>1. (FailureTaken(q)' <=> FailureTaken(q)) /\ (CaptureTaken(q)' <=> CaptureTaken(q))
        BY <1>1, <1>3, <3>2
      <4>2. rows'[q] = rows[q]
        BY <2>3, <3>2
      <4> QED  BY <4>1, <4>2 DEF RowsTell
    <3> QED  BY <3>1, <3>2
  <2> QED  BY <1>1, <2>4, <2>5, <2>6 DEF RowsTell
<1> QED  BY <1>1, <1>2, <1>7, <1>8, <1>9, <1>10, <1>11

\* A capture heals a payment whose case nobody has advanced.
LEMMA HealKeepsIngest ==
  IngestInv /\ SelfHeal =>
    /\ IngestInv'
    /\ Delivery.of \in Numbers /\ PaysAlone(Delivery.of)
    /\ rows[Delivery.of] \in {Untouched(Delivery.of, "DETECTED"), Healed(Delivery.of)}
    /\ rows' = [rows EXCEPT ![Delivery.of] = Healed(Delivery.of)]
<1> SUFFICES ASSUME IngestInv, SelfHeal
             PROVE  /\ IngestInv'
                    /\ Delivery.of \in Numbers /\ PaysAlone(Delivery.of)
                    /\ rows[Delivery.of] \in {Untouched(Delivery.of, "DETECTED"),
                                              Healed(Delivery.of)}
                    /\ rows' = [rows EXCEPT ![Delivery.of] = Healed(Delivery.of)]
  OBVIOUS
<1> USE DEF IngestInv
<1> DEFINE p == Delivery.of
<1>0. /\ phase = "ingesting" /\ position <= Len(dataset.events)
      /\ Delivery.event = "payment.captured" /\ ~SeenBefore(Delivery)
      /\ ledger' = ledger \cup {Delivery.id} /\ position' = position + 1
      /\ UNCHANGED <<dataset, phase, duplicates, order>>
      /\ rows' = [rows EXCEPT ![p].status = "RECOVERED", ![p].outcome = "SELF_HEALED",
                              ![p].recovered = dataset.payments[p].amount]
  BY DEF SelfHeal, Deliver, OutcomeOfWebhook
<1>1. /\ position \in DOMAIN dataset.events /\ PhaseType' /\ Numbers' = Numbers
      /\ TurnOver' = TurnOver
      /\ \A q : FailureTaken(q)' <=> FailureTaken(q) \/ Delivery = Failed(Delivery.id, q)
      /\ \A q : CaptureTaken(q)' <=> CaptureTaken(q) \/ Delivery = Captured(Delivery.id, q)
  BY <1>0, TakeNext
<1>2. p \in Numbers /\ Delivery = Captured(Delivery.id, p)
  BY <1>0, <1>1, DeliveriesOfPayments DEF Delivery
<1>3. /\ \A q : Delivery = Captured(Delivery.id, q) <=> q = p
      /\ \A q : Delivery # Failed(Delivery.id, q)
  <2>1. ASSUME NEW q, Delivery = Captured(Delivery.id, q) PROVE q = p
    BY <2>1 DEF Captured
  <2>2. ASSUME NEW q, Delivery = Failed(Delivery.id, q) PROVE FALSE
    <3>1. Delivery.event = "payment.failed"
      BY <2>2 DEF Failed
    <3> QED  BY <1>0, <3>1
  <2> QED  BY <1>2, <2>1, <2>2
<1>4. FailureTaken(p)
  <2>1. PICK j \in 1..position : dataset.events[j] = Failed(dataset.events[j].id, p)
    BY <1>0, <1>1, DeliveriesOfPayments DEF Delivery
  <2>2. j # position
    BY <1>3, <2>1 DEF Delivery
  <2>3. j \in Taken
    BY <1>0, <2>1, <2>2 DEF Taken, PhaseType
  <2> QED  BY <2>1, <2>3 DEF FailureTaken
<1>5. p \notin TurnOver
  BY <1>0, <1>2, NewIsNotKept DEF TurnOver, TurnsTaken
<1>6. rows[p] \in {Untouched(p, "DETECTED"), Healed(p)}
  BY <1>2, <1>4, <1>5 DEF RowsTell
<1>7. rows' = [rows EXCEPT ![p] = Healed(p)]
  <2>1. rows'[p] = Healed(p)
    BY <1>0, <1>2, <1>6 DEF RowsTell, Healed, HealedRow, Untouched, NotOpened
  <2>2. DOMAIN rows' = DOMAIN rows /\ \A q \in DOMAIN rows : q # p => rows'[q] = rows[q]
    BY <1>0
  <2>3. rows' = [q \in Numbers |-> rows'[q]]
    BY <1>0 DEF RowsTell
  <2> HIDE DEF p
  <2> QED  BY <2>1, <2>2, <2>3 DEF RowsTell
<1>8. PaysAlone(p)
  BY <1>0, <1>1 DEF PaysAlone, Delivery
<1>9. LedgerCounts'
  BY <1>0, NewIdCounts
<1>10. OrderOpens'
  BY <1>0, <1>1, <1>3 DEF OrderOpens
<1>11. RowsTell'
  <2>1. /\ \A q, t : Untouched(q, t)' = Untouched(q, t) /\ Healed(q)' = Healed(q)
        /\ \A q, row : Ended(q, row)' <=> Ended(q, row)
    BY <1>0 DEF Untouched, Healed, Ended
  <2>2. ASSUME NEW q \in Numbers
        PROVE  /\ CaptureTaken(q)' => rows'[q] = Healed(q)
               /\ ~CaptureTaken(q)' /\ q \in TurnOver => Ended(q, rows'[q])
               /\ ~CaptureTaken(q)' /\ q \notin TurnOver =>
                    rows'[q] = Untouched(q, IF FailureTaken(q)' THEN "DETECTED" ELSE "none")
    <3>1. CASE q = p
      BY <1>1, <1>2, <1>7, <3>1 DEF RowsTell
    <3>2. CASE q # p
      <4>1. (FailureTaken(q)' <=> FailureTaken(q)) /\ (CaptureTaken(q)' <=> CaptureTaken(q))
        BY <1>1, <1>3, <3>2
      <4>2. rows'[q] = rows[q]
        BY <1>7, <3>2 DEF RowsTell
      <4> QED  BY <4>1, <4>2 DEF RowsTell
    <3> QED  BY <3>1, <3>2
  <2>3. rows' = [q \in Numbers |-> rows'[q]]
    BY <1>7 DEF RowsTell
  <2> QED  BY <1>1, <2>1, <2>2, <2>3 DEF RowsTell
<1> QED  BY <1>1, <1>2, <1>6, <1>7, <1>8, <1>9, <1>10, <1>11

-----------------------------------------------------------------------------
(***************************************************************************)
(* The cases take their turns.                                             *)
(***************************************************************************)

\* Once all is ingested, every payment has a case.
LEMMA IngestedAll ==
  ASSUME IngestInv, phase # "ingesting", NEW p \in Numbers
  PROVE  /\ FailureTaken(p) /\ \E k \in 1..Len(order) : order[k] = p
         /\ PaysAlone(p) <=> CaptureTaken(p)
<1>1. Taken = DOMAIN dataset.events
  BY DEF Taken
<1>2. FailureTaken(p) /\ \E k \in 1..Len(order) : order[k] = p
  BY <1>1, OneFailureEach DEF FailureTaken, OrderOpens, IngestInv
<1>3. ASSUME NEW i \in DOMAIN dataset.events
      PROVE  dataset.events[i] = Captured(dataset.events[i].id, p) <=>
               dataset.events[i].of = p /\ dataset.events[i].event = "payment.captured"
  <2>1. CASE dataset.events[i] = Failed(dataset.events[i].id, dataset.events[i].of)
    BY <2>1 DEF Failed, Captured
  <2>2. CASE dataset.events[i] = Captured(dataset.events[i].id, dataset.events[i].of)
    BY <2>2 DEF Captured
  <2> QED  BY <1>3, <2>1, <2>2, DeliveriesOfPayments DEF IngestInv
<1> QED  BY <1>1, <1>2, <1>3 DEF PaysAlone, CaptureTaken

\* The case whose turn it is had none before in this run: its payment healed,
\* or it had ended before, or it was opened and left alone.
LEMMA CurrentHasTurn ==
  ASSUME IngestInv, phase # "ingesting", position <= Len(order)
  PROVE  /\ Current \in Numbers /\ Current \notin TurnsTaken
         /\ EndedBefore \cup {order[k] : k \in 1..position} = TurnOver \cup {Current}
         /\ \/ CaptureTaken(Current) /\ rows[Current] = Healed(Current)
            \/ Current \in EndedBefore /\ Ended(Current, rows[Current])
            \/ /\ ~CaptureTaken(Current) /\ Current \notin EndedBefore
               /\ rows[Current] = Untouched(Current, "DETECTED")
<1>1. position \in 1..Len(order) /\ order \in Seq(Numbers) /\ Len(order) \in Nat
  BY DEF IngestInv, PhaseType, OrderOpens
<1>2. Current \in Numbers
  BY <1>1 DEF Current
<1>3. TurnsTaken = {order[k] : k \in 1..(position - 1)}
  BY DEF TurnsTaken
<1>4. Current \notin TurnsTaken
  BY <1>1, <1>3 DEF Current, IngestInv, OrderOpens
<1>5. EndedBefore \cup {order[k] : k \in 1..position} = TurnOver \cup {Current}
  <2>1. 1..position = (1..(position - 1)) \cup {position}
    BY <1>1
  <2> QED  BY <1>3, <2>1 DEF Current, TurnOver
<1> QED  BY <1>2, <1>4, <1>5, IngestedAll DEF IngestInv, RowsTell, TurnOver

\* What the run knows of its payments does not depend on the phase.
LEMMA SameRows ==
  ASSUME IngestInv, PhaseType', UNCHANGED <<dataset, ledger, duplicates, order, rows>>,
         Taken' = Taken, TurnOver' = TurnOver
  PROVE  IngestInv'
<1>1. \A q : (FailureTaken(q)' <=> FailureTaken(q)) /\ (CaptureTaken(q)' <=> CaptureTaken(q))
  BY DEF FailureTaken, CaptureTaken
<1>2. Numbers' = Numbers
  BY DEF Numbers
<1>3. LedgerCounts'
  BY DEF IngestInv, LedgerCounts, TakenNow, KeptIds
<1>4. OrderOpens'
  BY <1>1, <1>2 DEF IngestInv, OrderOpens
<1>5. RowsTell'
  <2>1. /\ \A q, t : Untouched(q, t)' = Untouched(q, t) /\ Healed(q)' = Healed(q)
        /\ \A q, r : Ended(q, r)' <=> Ended(q, r)
    BY DEF Untouched, Healed, Ended
  <2> QED  BY <1>1, <1>2, <2>1 DEF IngestInv, RowsTell
<1> QED  BY <1>3, <1>4, <1>5 DEF IngestInv

LEMMA IngestedKeepsIngest == IngestInv /\ Ingested => IngestInv'
<1> SUFFICES ASSUME IngestInv, Ingested PROVE IngestInv'
  OBVIOUS
<1>1. /\ phase = "ingesting" /\ position > Len(dataset.events)
      /\ phase' = "between" /\ position' = 1
      /\ UNCHANGED <<dataset, ledger, duplicates, order, rows>>
  BY DEF Ingested
<1>2. PhaseType'
  BY <1>1 DEF IngestInv, PhaseType, OrderOpens
<1>3. Taken' = Taken
  BY <1>1, DeliveriesOfPayments DEF Taken, IngestInv, PhaseType
<1>4. TurnOver' = TurnOver
  BY <1>1 DEF TurnOver, TurnsTaken, EndedBefore, Numbers
<1> QED  BY <1>1, <1>2, <1>3, <1>4, SameRows

\* A case that is loaded is opened and was not yet advanced.
LEMMA LoadKeepsIngest ==
  IngestInv /\ LoadCase =>
    /\ IngestInv' /\ Current' = Current /\ Current \in Numbers
    /\ ~CaptureTaken(Current) /\ ~CaptureTaken(Current)'
    /\ Current \notin TurnOver /\ (Current \notin EndedBefore)'
    /\ rows[Current] = Untouched(Current, "DETECTED")
<1> SUFFICES ASSUME IngestInv, LoadCase
             PROVE  /\ IngestInv' /\ Current' = Current /\ Current \in Numbers
                    /\ ~CaptureTaken(Current) /\ ~CaptureTaken(Current)'
                    /\ Current \notin TurnOver /\ (Current \notin EndedBefore)'
                    /\ rows[Current] = Untouched(Current, "DETECTED")
  OBVIOUS
<1>1. /\ phase = "between" /\ position <= Len(order) /\ ~IsTerminal(rows[Current].status)
      /\ phase' = "advancing"
      /\ UNCHANGED <<dataset, position, ledger, duplicates, order, rows>>
  BY DEF LoadCase
<1>2. PhaseType' /\ Taken' = Taken /\ TurnOver' = TurnOver /\ Current' = Current
  BY <1>1 DEF IngestInv, PhaseType, Taken, TurnOver, TurnsTaken, EndedBefore, Numbers, Current
<1>3. /\ ~CaptureTaken(Current) /\ rows[Current] = Untouched(Current, "DETECTED")
      /\ Current \notin EndedBefore
  <2>1. Healed(Current).status = "RECOVERED"
    BY DEF Healed, HealedRow, NotOpened
  <2>2. Ended(Current, rows[Current]) => IsTerminal(rows[Current].status)
    BY DEF Ended, EndedRow, IsTerminal, TerminalStatuses
  <2>3. IsTerminal("RECOVERED")
    BY DEF IsTerminal, TerminalStatuses
  <2> QED  BY <1>1, <2>1, <2>2, <2>3, CurrentHasTurn
<1>4. ~CaptureTaken(Current)'
  BY <1>1, <1>2, <1>3 DEF CaptureTaken
<1>5. Current \notin TurnOver /\ (Current \notin EndedBefore)'
  <2>1. EndedBefore' = EndedBefore
    BY <1>1 DEF EndedBefore, Numbers
  <2> QED  BY <1>1, <1>2, <1>3, <2>1, CurrentHasTurn DEF TurnOver
<1> QED  BY <1>1, <1>2, <1>3, <1>4, <1>5, SameRows, CurrentHasTurn

\* A case that is skipped had ended before the run, or is of a payment that healed.
LEMMA SkipEndedKeepsIngest == IngestInv /\ SkipEnded => IngestInv'
<1> SUFFICES ASSUME IngestInv, SkipEnded PROVE IngestInv'
  OBVIOUS
<1>1. /\ phase = "between" /\ position <= Len(order) /\ IsTerminal(rows[Current].status)
      /\ position' = position + 1
      /\ UNCHANGED <<dataset, phase, ledger, duplicates, order, rows>>
  BY DEF SkipEnded
<1>2. PhaseType' /\ Taken' = Taken /\ Numbers' = Numbers
  BY <1>1 DEF IngestInv, PhaseType, Taken, OrderOpens, Numbers
<1>3. TurnOver' = TurnOver \cup {Current}
  <2>1. TurnOver' = EndedBefore \cup {order[k] : k \in 1..position}
    BY <1>1 DEF TurnOver, TurnsTaken, EndedBefore, Numbers, IngestInv, PhaseType
  <2> QED  BY <1>1, <2>1, CurrentHasTurn
<1>4. CaptureTaken(Current) \/ Current \in TurnOver
  <2>1. Untouched(Current, "DETECTED").status = "DETECTED" /\ ~IsTerminal("DETECTED")
    BY DEF Untouched, NotOpened, IsTerminal, TerminalStatuses
  <2> QED  BY <1>1, <2>1, CurrentHasTurn DEF TurnOver
<1>5. \A q : (FailureTaken(q)' <=> FailureTaken(q)) /\ (CaptureTaken(q)' <=> CaptureTaken(q))
  BY <1>1, <1>2 DEF FailureTaken, CaptureTaken
<1>6. LedgerCounts'
  BY <1>1, <1>2 DEF IngestInv, LedgerCounts, TakenNow, KeptIds
<1>7. OrderOpens'
  BY <1>1, <1>2, <1>5 DEF IngestInv, OrderOpens
<1>8. RowsTell'
  <2>1. /\ \A q, t : Untouched(q, t)' = Untouched(q, t) /\ Healed(q)' = Healed(q)
        /\ \A q, r : Ended(q, r)' <=> Ended(q, r)
    BY <1>1 DEF Untouched, Healed, Ended
  <2> QED  BY <1>1, <1>2, <1>3, <1>4, <1>5, <2>1 DEF IngestInv, RowsTell
<1> QED  BY <1>2, <1>6, <1>7, <1>8 DEF IngestInv

\* A case that was advanced has ended, its money booked to an action.
LEMMA AdvancedKeepsIngest ==
  IngestInv /\ CaseInv /\ CaseIsCurrent /\ CaseAdvanced => IngestInv'
<1> SUFFICES ASSUME IngestInv, CaseInv, CaseIsCurrent, CaseAdvanced PROVE IngestInv'
  OBVIOUS
<1> DEFINE row == [status |-> status, outcome |-> outcome, recovered |-> recovered,
                   retries |-> retryCount, charges |-> charges, contacts |-> contacts]
<1>1. /\ phase = "advancing" /\ pc = "done" /\ phase' = "between" /\ position' = position + 1
      /\ rows' = [rows EXCEPT ![Current] = row]
      /\ UNCHANGED <<dataset, ledger, duplicates, order>>
  BY DEF CaseAdvanced
<1>2. PhaseType' /\ Taken' = Taken /\ Numbers' = Numbers /\ position <= Len(order)
  BY <1>1 DEF IngestInv, PhaseType, Taken, OrderOpens, Numbers
<1>3. /\ TurnOver' = TurnOver \cup {Current} /\ Current \in Numbers
      /\ ~CaptureTaken(Current)
  <2>1. TurnOver' = EndedBefore \cup {order[k] : k \in 1..position}
    BY <1>1 DEF TurnOver, TurnsTaken, EndedBefore, Numbers, IngestInv, PhaseType
  <2> QED  BY <1>1, <1>2, <2>1, CurrentHasTurn DEF CaseIsCurrent
<1>4. facts.amount = dataset.payments[Current].amount
  <2>1. dataset.payments[Current] \in CaseFacts
    BY <1>3, PaymentsAreCases DEF IngestInv
  <2> QED  BY <1>1, <2>1 DEF CaseIsCurrent, CaseFacts
<1>5. Ended(Current, row)
  <2>1. /\ IsTerminal(status) /\ status \notin {"FAILED", "EXPIRED", "CANCELLED"}
        /\ charges \in Nat /\ contacts \in Nat
        /\ outcome \in {"none", "RECOVERED", "UNRECOVERED"}
    BY <1>1 DEF CaseInv, CaseEnds, BudgetInv, TypeOK
  <2>2. /\ recovered = IF status = "RECOVERED" THEN facts.amount ELSE 0
        /\ status = "RECOVERED" => charges + contacts = 1
    BY DEF CaseInv, MoneyInv, MoneyIsCaptured
  <2>3. retryCount \in 0..MaxRetries /\ contacts \in 0..ContactCap
    <3>1. /\ retryCount \in Nat /\ contacts \in Nat
          /\ retryCount <= MaxRetries /\ contacts <= ContactCap
      BY DEF CaseInv, BudgetInv, TypeOK, WithinBudgets
    <3> QED  BY <3>1, PolicyConfigAssumption
  <2> QED  BY <1>4, <2>1, <2>2, <2>3 DEF Ended, EndedRow, IsTerminal, TerminalStatuses
<1>6. \A q : (FailureTaken(q)' <=> FailureTaken(q)) /\ (CaptureTaken(q)' <=> CaptureTaken(q))
  BY <1>1, <1>2 DEF FailureTaken, CaptureTaken
<1>7. LedgerCounts'
  BY <1>1, <1>2 DEF IngestInv, LedgerCounts, TakenNow, KeptIds
<1>8. OrderOpens'
  BY <1>1, <1>2, <1>6 DEF IngestInv, OrderOpens
<1>9. RowsTell'
  <2>1. /\ \A q, t : Untouched(q, t)' = Untouched(q, t) /\ Healed(q)' = Healed(q)
        /\ \A q, r : Ended(q, r)' <=> Ended(q, r)
    BY <1>1 DEF Untouched, Healed, Ended
  <2> HIDE DEF row
  <2>2. rows' = [q \in Numbers |-> IF q = Current THEN row ELSE rows[q]]
    BY <1>1 DEF IngestInv, RowsTell
  <2>3. rows' = [q \in Numbers' |-> rows'[q]]
    BY <1>2, <2>2
  <2>4. ASSUME NEW q \in Numbers
        PROVE  /\ CaptureTaken(q) => rows'[q] = Healed(q)
               /\ ~CaptureTaken(q) /\ q \in TurnOver' => Ended(q, rows'[q])
               /\ ~CaptureTaken(q) /\ q \notin TurnOver' =>
                    rows'[q] = Untouched(q, IF FailureTaken(q) THEN "DETECTED" ELSE "none")
    <3>1. CASE q = Current
      BY <1>3, <1>5, <2>2, <3>1
    <3>2. CASE q # Current
      <4>1. rows'[q] = rows[q] /\ (q \in TurnOver' <=> q \in TurnOver)
        BY <1>3, <2>2, <3>2
      <4> QED  BY <4>1 DEF IngestInv, RowsTell
    <3> QED  BY <3>1, <3>2
  <2> QED  BY <1>2, <1>6, <2>1, <2>3, <2>4 DEF RowsTell
<1> QED  BY <1>2, <1>7, <1>8, <1>9 DEF IngestInv

-----------------------------------------------------------------------------
(***************************************************************************)
(* advance_case inside the run.                                            *)
(***************************************************************************)

\* The facts a case is loaded with: those of a payment, beside the charges of
\* the others.
LoadedFacts == {[c EXCEPT !.otherCharges = n] : c \in Cases, n \in Nat}

LEMMA LoadedIsPossible ==
  ASSUME NEW f \in LoadedFacts
  PROVE  f \in PossibleFacts /\ \E c \in Cases : f.priorAttempts = c.priorAttempts
<1>1. PICK c \in Cases, n \in Nat : f = [c EXCEPT !.otherCharges = n]
  BY DEF LoadedFacts
<1>2. c \in CaseFacts /\ c.priorAttempts <= MaxRetries
  BY PipelineAssumption DEF PossibleFacts
<1>3. f \in CaseFacts /\ f.priorAttempts = c.priorAttempts
  BY <1>1, <1>2 DEF CaseFacts
<1> QED  BY <1>2, <1>3 DEF PossibleFacts

\* Only cases that had their turn have charges.
LEMMA RowCharges ==
  ASSUME IngestInv, NEW p \in Numbers
  PROVE  /\ rows[p].charges \in Nat
         /\ CaptureTaken(p) \/ p \notin TurnOver => rows[p].charges = 0
<1>1. Healed(p).charges = 0 /\ \A t : Untouched(p, t).charges = 0
  BY DEF Healed, HealedRow, Untouched, NotOpened
<1> QED  BY <1>1 DEF IngestInv, RowsTell, Ended, EndedRow

LEMMA SpentType ==
  ASSUME IngestInv PROVE Spent \in Nat /\ ChargesOfOthers = Spent
<1>1. Spent \in Nat
  <2> DEFINE f == [p \in Numbers |-> rows[p].charges]
  <2>1. \A p \in Numbers : f[p] \in Nat
    BY RowCharges
  <2> HIDE DEF f
  <2>2. SumFunctionOnSet(f, Numbers) \in Nat
    BY <2>1, PaymentsAreCases, SumType DEF IngestInv
  <2> QED  BY <2>2 DEF f, Spent
<1> QED  BY <1>1 DEF ChargesOfOthers, Total, TotalOver, Spent

LEMMA SameSpent ==
  ASSUME UNCHANGED dataset, \A p \in Numbers : rows'[p].charges = rows[p].charges
  PROVE  Spent' = Spent /\ SpentEarlier' = SpentEarlier
<1>1. Numbers' = Numbers
  BY DEF Numbers
<1>2. [p \in Numbers' |-> rows'[p].charges] = [p \in Numbers |-> rows[p].charges]
  BY <1>1
<1>3. SpentEarlier' = SpentEarlier
  BY <1>1 DEF SpentEarlier
<1>4. Spent' = Spent
  BY <1>1, <1>2, Zenon DEF Spent
<1> QED  BY <1>3, <1>4

\* load_case_full gives a case as it was opened.
LEMMA LoadMakesNewCase ==
  IngestInv /\ LoadCase => NewCase' /\ facts' \in LoadedFacts
<1> SUFFICES ASSUME IngestInv, LoadCase PROVE NewCase' /\ facts' \in LoadedFacts
  OBVIOUS
<1>1. Current \in Numbers /\ rows[Current] = Untouched(Current, "DETECTED")
  BY LoadKeepsIngest
<1>2. /\ dataset.payments[Current] \in Cases /\ dataset.payments[Current] \in CaseFacts
  BY <1>1, PaymentsAreCases DEF IngestInv
<1>3. ChargesOfOthers \in Nat
  BY SpentType, PaymentsAreCases DEF IngestInv
<1>4. facts' = [dataset.payments[Current] EXCEPT !.otherCharges = ChargesOfOthers]
  BY DEF LoadCase
<1>5. facts' \in LoadedFacts
  BY <1>2, <1>3, <1>4 DEF LoadedFacts
<1>6. /\ facts'.priorAttempts = dataset.payments[Current].priorAttempts
      /\ facts'.age = dataset.payments[Current].age
  BY <1>2, <1>4 DEF CaseFacts
<1>7. rows[Current].retries = dataset.payments[Current].priorAttempts
  BY <1>1 DEF Untouched, NotOpened
<1> QED  BY <1>5, <1>6, <1>7 DEF LoadCase, NewCase

\* Whatever a run does, it makes a step of the case at hand, takes up a new
\* one or leaves the pipeline alone.
LEMMA RunMovesCase ==
  IngestInv /\ [RunNext]_runVars => [Next]_vars \/ (NewCase' /\ facts' \in LoadedFacts)
<1> SUFFICES ASSUME IngestInv, [RunNext]_runVars
             PROVE  [Next]_vars \/ (NewCase' /\ facts' \in LoadedFacts)
  OBVIOUS
<1>1. CASE LoadCase
  BY <1>1, LoadMakesNewCase
<1>2. CASE AdvanceCase
  BY <1>2 DEF AdvanceCase, Next
<1>3. CASE ~LoadCase /\ ~AdvanceCase
  <2>1. UNCHANGED vars
    BY <1>3 DEF RunNext, SkipDuplicate, OpenCase, SelfHeal, Deliver, Ingested, SkipEnded,
       CaseAdvanced, Score, Over, runVars
  <2> QED  BY <2>1
<1> QED  BY <1>1, <1>2, <1>3

\* A case that has ended did so by a transition to a terminal status.
LEMMA StepKeepsEnds == BudgetInv /\ CaseEnds /\ [Next]_vars => CaseEnds'
<1> SUFFICES ASSUME BudgetInv, CaseEnds, [Next]_vars PROVE CaseEnds'
  OBVIOUS
<1> USE DEF CaseEnds
<1>0. ~RealLinks
  BY DatasetAssumption
<1>1. CASE PrepareStep
  BY <1>1 DEF PrepareStep, Detected, Analyzing, Diagnosed, Planned, Steps
<1>2. CASE PolicyStep
  BY <1>2 DEF PolicyStep, Allow, Escalate, Wait, BlockAndSwap, StatusAfterSwap, Block,
     PolicyRaises, Gate, Steps
<1>3. CASE ExecuteRetry \/ ExecuteSimulatedLink
  BY <1>3, SettleType DEF ExecuteRetry, ExecuteSimulatedLink, BudgetInv, Steps
<1>4. CASE ExecuteEscalation \/ ExecuteStop
  BY <1>4 DEF ExecuteEscalation, ExecuteStop, Steps
<1>5. ~ExecuteRealLink /\ ~RealLinkRaises
  BY <1>0 DEF ExecuteRealLink, RealLinkRaises
<1>6. CASE VerifyStep
  BY <1>6 DEF VerifyStep, LadderCloses, CloseUnrecovered, LadderEscalates, LadderRepeats,
     AwaitingApproval, Steps
<1>7. CASE EndStep
  BY <1>7 DEF EndStep, Return, CloseAndReturn, CloseUnrecovered, CloseRaises,
     IsTerminal, TerminalStatuses
<1>8. CASE UNCHANGED vars
  BY <1>8 DEF vars
<1> QED  BY <1>1, <1>2, <1>3, <1>4, <1>5, <1>6, <1>7, <1>8 DEF Next, ExecuteStep, Returned

LEMMA NewCaseInv == facts \in PossibleFacts /\ NewCase => CaseInv
BY NewBudget DEF NewCase, CaseInv, MoneyInv, MoneyIsCaptured, RollRemembers, CaseEnds,
   IsTerminal, TerminalStatuses

LEMMA StepKeepsCaseInv == CaseInv /\ [Next]_vars => CaseInv'
BY StepKeepsBudget, StepKeepsMoney, StepKeepsEnds, DatasetAssumption DEF CaseInv

LEMMA RunKeepsCaseInv == IngestInv /\ CaseInv /\ [RunNext]_runVars => CaseInv'
<1>1. (facts \in PossibleFacts /\ NewCase)' => CaseInv'
  BY NewCaseInv, PTL
<1>2. facts' \in LoadedFacts => facts' \in PossibleFacts
  BY LoadedIsPossible
<1> QED  BY <1>1, <1>2, RunMovesCase, StepKeepsCaseInv

-----------------------------------------------------------------------------
(***************************************************************************)
(* The invariant holds.                                                    *)
(***************************************************************************)

LEMMA RunInitInv == RunInit => RunInv
<1> SUFFICES ASSUME RunInit PROVE RunInv
  OBVIOUS
<1> USE DEF RunInit
<1>0. Deliveries(dataset) /\ Kept(dataset)
  BY DatasetAssumption DEF WellFormed
<1>1. PhaseType
  <2>1. Len(dataset.events) \in Nat /\ dataset.before \in 0..Len(dataset.events)
    BY <1>0 DEF Deliveries, Kept
  <2> QED  BY <2>1 DEF PhaseType
<1>2. Taken = 1..dataset.before /\ TurnOver = EndedBefore
  BY <1>0 DEF Taken, TurnOver, TurnsTaken, Kept
<1>3. LedgerCounts
  <2>1. TakenNow = {} /\ ledger \ KeptIds = {}
    BY <1>2 DEF TakenNow
  <2>2. ledger = {dataset.events[i].id : i \in Taken}
    BY <1>2 DEF KeptIds
  <2>3. duplicates + Cardinality(ledger \ KeptIds) = Cardinality(TakenNow) /\ duplicates \in Nat
    BY <2>1, FS_EmptySet
  <2> QED  BY <2>2, <2>3, Zenon DEF LedgerCounts
<1>4. \A p : /\ FailureTaken(p) <=> FailedBefore(dataset, p)
             /\ CaptureTaken(p) <=> CapturedBefore(dataset, p)
  BY <1>2 DEF FailureTaken, CaptureTaken, FailedBefore, CapturedBefore
<1>5. OrderOpens
  BY <1>0, <1>4 DEF OrderOpens, Kept, Numbers
<1>6. ASSUME NEW p \in Numbers
      PROVE  /\ CaptureTaken(p) => rows[p] = Healed(p)
             /\ ~CaptureTaken(p) /\ p \in TurnOver => Ended(p, rows[p])
             /\ ~CaptureTaken(p) /\ p \notin TurnOver =>
                  rows[p] = Untouched(p, IF FailureTaken(p) THEN "DETECTED" ELSE "none")
  <2>1. CASE CapturedBefore(dataset, p)
    BY <1>0, <1>4, <1>6, <2>1 DEF Kept, Numbers, Healed
  <2>2. CASE ~CapturedBefore(dataset, p) /\ p \in EndedBefore
    BY <1>2, <1>4, <2>2 DEF EndedBefore, Ended
  <2>3. CASE ~CapturedBefore(dataset, p) /\ p \notin EndedBefore
    <3>1. rows[p] = IF FailedBefore(dataset, p) THEN OpenedRow(dataset.payments[p])
                    ELSE NotOpened(dataset.payments[p])
      BY <1>0, <1>6, <2>3 DEF Kept, Numbers, EndedBefore
    <3>2. NotOpened(dataset.payments[p]) = Untouched(p, "none")
      BY DEF NotOpened, Untouched
    <3>3. OpenedRow(dataset.payments[p]) = Untouched(p, "DETECTED")
      BY DEF OpenedRow, Untouched
    <3> QED  BY <1>2, <1>4, <2>3, <3>1, <3>2, <3>3
  <2> QED  BY <2>1, <2>2, <2>3
<1>7. RowsTell
  <2>1. rows = [p \in Numbers |-> rows[p]]
    BY <1>0 DEF Kept, Numbers
  <2> QED  BY <1>6, <2>1 DEF RowsTell
<1>8. IngestInv
  BY <1>1, <1>3, <1>5, <1>7 DEF IngestInv
<1>9. CaseInv
  BY NewCaseInv, PipelineAssumption DEF Init
<1>10. CaseIsCurrent /\ ReportIsScore
  BY DEF CaseIsCurrent, ReportIsScore
<1>11. SpentWithinBudget
  <2>1. Spent = SpentEarlier /\ Spent \in Nat
    BY <1>8, SpentType DEF Spent, SpentEarlier
  <2> QED  BY <2>1 DEF SpentWithinBudget
<1> QED  BY <1>8, <1>9, <1>10, <1>11 DEF RunInv

LEMMA RunKeepsIngest ==
  IngestInv /\ CaseInv /\ CaseIsCurrent /\ [RunNext]_runVars => IngestInv'
<1> SUFFICES ASSUME IngestInv, CaseInv, CaseIsCurrent, [RunNext]_runVars PROVE IngestInv'
  OBVIOUS
<1>1. CASE UNCHANGED runVars \/ Over \/ AdvanceCase
  <2>1. UNCHANGED run
    BY <1>1 DEF Over, AdvanceCase, runVars
  <2>2. PhaseType' /\ Taken' = Taken /\ TurnOver' = TurnOver
    BY <2>1 DEF run, IngestInv, PhaseType, Taken, TurnOver, TurnsTaken, EndedBefore, Numbers
  <2> QED  BY <2>1, <2>2, SameRows DEF run
<1>2. CASE Score
  <2>1. /\ phase = "between" /\ phase' = "scored"
        /\ UNCHANGED <<dataset, position, ledger, duplicates, order, rows>>
    BY <1>2 DEF Score
  <2>2. PhaseType' /\ Taken' = Taken /\ TurnOver' = TurnOver
    BY <2>1 DEF IngestInv, PhaseType, Taken, TurnOver, TurnsTaken, EndedBefore, Numbers
  <2> QED  BY <2>1, <2>2, SameRows
<1> QED
  BY <1>1, <1>2, SkipKeepsIngest, OpenKeepsIngest, HealKeepsIngest, IngestedKeepsIngest,
     LoadKeepsIngest, SkipEndedKeepsIngest, AdvancedKeepsIngest DEF RunNext

LEMMA RunKeepsCurrent ==
  IngestInv /\ CaseIsCurrent /\ [RunNext]_runVars => CaseIsCurrent'
<1> SUFFICES ASSUME IngestInv, CaseIsCurrent, [RunNext]_runVars PROVE CaseIsCurrent'
  OBVIOUS
<1>1. CASE LoadCase
  <2>1. /\ Current' = Current /\ ~CaptureTaken(Current)' /\ UNCHANGED <<dataset, rows>>
        /\ (Current \notin EndedBefore)'
        /\ facts' = [dataset.payments[Current] EXCEPT !.otherCharges = ChargesOfOthers]
    BY <1>1, LoadKeepsIngest DEF LoadCase
  <2>2. ChargesOfOthers' = ChargesOfOthers
    BY <2>1 DEF ChargesOfOthers, Total, TotalOver, Numbers
  <2> QED  BY <2>1, <2>2 DEF CaseIsCurrent
<1>2. CASE UNCHANGED runVars \/ Over \/ AdvanceCase
  <2>1. UNCHANGED run
    BY <1>2 DEF Over, AdvanceCase, runVars
  <2>2. facts' = facts
    <3>1. [Next]_vars
      BY <1>2 DEF Over, AdvanceCase, Next, runVars
    <3> QED  BY <3>1, WhoDecides
  <2>3. ChargesOfOthers' = ChargesOfOthers /\ Current' = Current
    BY <2>1 DEF run, ChargesOfOthers, Total, TotalOver, Numbers, Current
  <2>4. CaptureTaken(Current)' <=> CaptureTaken(Current)
    BY <2>1 DEF run, CaptureTaken, Taken, Current
  <2>5. Current' \in EndedBefore' <=> Current \in EndedBefore
    BY <2>1 DEF run, EndedBefore, Numbers, Current
  <2> QED  BY <2>1, <2>2, <2>3, <2>4, <2>5 DEF run, CaseIsCurrent
<1>3. CASE ~LoadCase /\ ~AdvanceCase /\ ~Over /\ RunNext
  <2>1. phase' # "advancing"
    BY <1>3 DEF RunNext, SkipDuplicate, OpenCase, SelfHeal, Deliver, Ingested, SkipEnded,
       CaseAdvanced, Score
  <2> QED  BY <2>1 DEF CaseIsCurrent
<1> QED  BY <1>1, <1>2, <1>3

\* The charges of an advanced case were gated with those of the others as they
\* still are.
LEMMA RunKeepsSpent ==
  RunInv /\ [RunNext]_runVars => SpentWithinBudget'
<1> SUFFICES ASSUME RunInv, [RunNext]_runVars PROVE SpentWithinBudget'
  OBVIOUS
<1> USE DEF RunInv
<1>1. ASSUME UNCHANGED dataset, \A p \in Numbers : rows'[p].charges = rows[p].charges
      PROVE  SpentWithinBudget'
  BY <1>1, SameSpent DEF SpentWithinBudget
<1>2. CASE OpenCase
  <2>1. /\ Delivery.of \in Numbers /\ rows[Delivery.of] = Untouched(Delivery.of, "none")
        /\ rows' = [rows EXCEPT ![Delivery.of] = Untouched(Delivery.of, "DETECTED")]
    BY <1>2, OpenKeepsIngest
  <2>2. UNCHANGED dataset
    BY <1>2 DEF OpenCase, Deliver
  <2>3. ASSUME NEW p \in Numbers PROVE rows'[p].charges = rows[p].charges
    <3>1. DOMAIN rows = Numbers
      BY DEF IngestInv, RowsTell
    <3>2. CASE p = Delivery.of
      <4>1. rows'[p].charges = 0 /\ rows[p].charges = 0
        BY <2>1, <3>1, <3>2 DEF Untouched, NotOpened
      <4> QED  BY <4>1
    <3>3. CASE p # Delivery.of
      BY <2>1, <3>1, <3>3
    <3> QED  BY <3>2, <3>3
  <2> QED  BY <1>1, <2>2, <2>3
<1>3. CASE SelfHeal
  <2>1. /\ Delivery.of \in Numbers
        /\ rows[Delivery.of] \in {Untouched(Delivery.of, "DETECTED"), Healed(Delivery.of)}
        /\ rows' = [rows EXCEPT ![Delivery.of] = Healed(Delivery.of)]
    BY <1>3, HealKeepsIngest
  <2>2. UNCHANGED dataset
    BY <1>3 DEF SelfHeal, Deliver
  <2>3. ASSUME NEW p \in Numbers PROVE rows'[p].charges = rows[p].charges
    <3>1. DOMAIN rows = Numbers
      BY DEF IngestInv, RowsTell
    <3>2. CASE p = Delivery.of
      <4>1. rows'[p].charges = 0 /\ rows[p].charges = 0
        BY <2>1, <3>1, <3>2 DEF Untouched, Healed, HealedRow, NotOpened
      <4> QED  BY <4>1
    <3>3. CASE p # Delivery.of
      BY <2>1, <3>1, <3>3
    <3> QED  BY <3>2, <3>3
  <2> QED  BY <1>1, <2>2, <2>3
<1>4. CASE CaseAdvanced
  <2>1. /\ phase = "advancing" /\ UNCHANGED dataset /\ position <= Len(order)
        /\ DOMAIN rows = Numbers /\ DOMAIN rows' = Numbers
        /\ rows'[Current].charges = charges
        /\ \A p \in Numbers : p # Current => rows'[p].charges = rows[p].charges
    BY <1>4, CurrentHasTurn DEF CaseAdvanced, IngestInv, RowsTell, PhaseType
  <2>2. Current \in Numbers /\ rows[Current].charges = 0
    BY <2>1, CurrentHasTurn, RowCharges DEF CaseIsCurrent, TurnOver
  <2> DEFINE f == [p \in Numbers |-> rows[p].charges]
             g == [p \in Numbers |-> rows'[p].charges]
  <2>3. charges \in Nat /\ (charges > 0 => facts.otherCharges + charges <= SimulationBudget)
    BY DEF CaseInv, BudgetInv, TypeOK, WithinBudgets
  <2>4. \A p \in Numbers : f[p] \in Nat /\ g[p] \in Nat
    BY <2>1, <2>3, RowCharges
  <2>5. (\A p \in Numbers : p # Current => f[p] = g[p]) /\ f[Current] = 0 /\ g[Current] = charges
    BY <2>1, <2>2
  <2>6. Spent = SumFunctionOnSet(f, Numbers) /\ Spent' = SumFunctionOnSet(g, Numbers)
    BY <2>1 DEF Spent, Numbers
  <2> HIDE DEF f, g
  <2>7. Spent \in Nat /\ Spent' \in Nat
    BY <2>4, <2>6, PaymentsAreCases, SumType DEF IngestInv
  <2>8. Spent' = Spent + charges
    <3>1. IsFiniteSet(Numbers)
      BY PaymentsAreCases DEF IngestInv
    <3>2. SumFunctionOnSet(g, Numbers) + f[Current] = SumFunctionOnSet(f, Numbers) + g[Current]
      BY <2>2, <2>4, <2>5, <3>1, SumOfUpdate
    <3>3. SumFunctionOnSet(g, Numbers) = SumFunctionOnSet(f, Numbers) + charges
      BY <2>3, <2>5, <2>6, <2>7, <3>2
    <3> QED  BY <2>6, <3>3
  <2>9. facts.otherCharges = Spent
    <3>1. dataset.payments[Current] \in CaseFacts
      BY <2>2, PaymentsAreCases DEF IngestInv
    <3> QED  BY <2>1, <3>1, SpentType DEF CaseIsCurrent, CaseFacts
  <2>10. SimulationBudget \in Nat
    BY PolicyConfigAssumption
  <2>11. SpentWithinBudget /\ SpentEarlier' = SpentEarlier
    BY <2>1 DEF SpentEarlier, Numbers
  <2>12. CASE charges = 0
    <3>1. Spent' = Spent
      BY <2>7, <2>8, <2>12
    <3> QED  BY <2>11, <3>1 DEF SpentWithinBudget
  <2>13. CASE charges > 0
    <3>1. Spent' <= SimulationBudget
      BY <2>3, <2>7, <2>8, <2>9, <2>10, <2>13
    <3> QED  BY <3>1 DEF SpentWithinBudget
  <2> QED  BY <2>3, <2>12, <2>13
<1>5. CASE ~OpenCase /\ ~SelfHeal /\ ~CaseAdvanced
  <2>1. UNCHANGED <<dataset, rows>>
    BY <1>5 DEF RunNext, SkipDuplicate, Ingested, LoadCase, SkipEnded, AdvanceCase, Score,
       Over, runVars, run
  <2> QED  BY <1>1, <2>1
<1> QED  BY <1>2, <1>3, <1>4, <1>5

LEMMA RunKeepsReport ==
  RunInv /\ [RunNext]_runVars => ReportIsScore'
<1> SUFFICES ASSUME RunInv, [RunNext]_runVars PROVE ReportIsScore'
  OBVIOUS
<1>1. CASE Score
  BY <1>1 DEF Score, ReportIsScore, Having, SelfHealed, Total, TotalOver, Numbers
<1>2. CASE UNCHANGED runVars \/ Over \/ AdvanceCase
  <2>1. UNCHANGED run
    BY <1>2 DEF Over, AdvanceCase, runVars
  <2> QED  BY <2>1 DEF RunInv, run, ReportIsScore, Having, SelfHealed, Total, TotalOver, Numbers
<1>3. CASE ~Score /\ ~AdvanceCase /\ ~Over /\ RunNext
  <2>1. phase' # "scored"
    BY <1>3 DEF RunNext, SkipDuplicate, OpenCase, SelfHeal, Deliver, Ingested, LoadCase,
       SkipEnded, CaseAdvanced
  <2> QED  BY <2>1 DEF ReportIsScore
<1> QED  BY <1>1, <1>2, <1>3

LEMMA RunInvariant == RunSpec => []RunInv
<1>1. RunInv /\ [RunNext]_runVars => RunInv'
  BY RunKeepsIngest, RunKeepsCaseInv, RunKeepsCurrent, RunKeepsSpent, RunKeepsReport DEF RunInv
<1> QED  BY <1>1, RunInitInv, PTL DEF RunSpec

-----------------------------------------------------------------------------
(***************************************************************************)
(* What a run keeps.                                                       *)
(***************************************************************************)

LEMMA BudgetOfRun == RunInv => RunWithinBudget
<1> SUFFICES ASSUME RunInv PROVE RunWithinBudget
  OBVIOUS
<1> USE DEF RunInv
<1> DEFINE f == [p \in Numbers |-> rows[p].charges]
           g == [p \in Numbers |-> IF phase = "advancing" /\ Current = p THEN charges
                                   ELSE rows[p].charges]
           made == SumFunctionOnSet(g, Numbers)
<1>1. SUFFICES made > SpentEarlier => made <= SimulationBudget
  BY Zenon DEF RunWithinBudget, EarlierCharges, SpentEarlier, Total, TotalOver
<1>2. Spent = SumFunctionOnSet(f, Numbers) /\ IsFiniteSet(Numbers)
  BY PaymentsAreCases DEF Spent, IngestInv
<1>3. CASE phase # "advancing"
  <2>1. g = f
    BY <1>3
  <2> QED  BY <1>2, <2>1 DEF SpentWithinBudget
<1>4. CASE phase = "advancing"
  <2>1. Current \in Numbers /\ rows[Current].charges = 0
    BY <1>4, CurrentHasTurn, RowCharges DEF IngestInv, PhaseType, CaseIsCurrent, TurnOver
  <2>2. charges \in Nat /\ (charges > 0 => facts.otherCharges + charges <= SimulationBudget)
    BY DEF CaseInv, BudgetInv, TypeOK, WithinBudgets
  <2>3. \A p \in Numbers : f[p] \in Nat /\ g[p] \in Nat
    BY <2>2, RowCharges
  <2>4. (\A p \in Numbers : p # Current => f[p] = g[p]) /\ f[Current] = 0 /\ g[Current] = charges
    BY <1>4, <2>1
  <2>5. Spent \in Nat /\ facts.otherCharges = Spent
    <3>1. dataset.payments[Current] \in CaseFacts
      BY <2>1, PaymentsAreCases DEF IngestInv
    <3> QED  BY <1>4, <3>1, SpentType DEF CaseIsCurrent, CaseFacts
  <2> HIDE DEF f, g
  <2>6. made = Spent + charges
    <3>1. made \in Nat
      BY <1>2, <2>3, SumType
    <3>2. made + f[Current] = SumFunctionOnSet(f, Numbers) + g[Current]
      BY <1>2, <2>1, <2>3, <2>4, SumOfUpdate
    <3> QED  BY <1>2, <2>2, <2>4, <2>5, <3>1, <3>2
  <2>7. SimulationBudget \in Nat
    BY PolicyConfigAssumption
  <2> HIDE DEF made
  <2>8. CASE charges = 0
    <3>1. made = Spent
      BY <2>5, <2>6, <2>8
    <3> QED  BY <3>1 DEF SpentWithinBudget
  <2>9. CASE charges > 0
    BY <2>2, <2>5, <2>6, <2>7, <2>9
  <2> QED  BY <2>2, <2>8, <2>9
<1> QED  BY <1>3, <1>4

\* simulation_max_calls_per_run holds of all the cases of the database together,
\* those that earlier runs have left too, however many payments there are.
THEOREM RunKeepsBudget == RunSpec => []RunWithinBudget
BY RunInvariant, BudgetOfRun, PTL

-----------------------------------------------------------------------------
(***************************************************************************)
(* The report.                                                             *)
(***************************************************************************)

\* After the last turn a payment has healed or its case has ended, and only the
\* latter was acted upon.
LEMMA EveryTurnOver ==
  ASSUME RunInv, phase = "scored", NEW p \in Numbers
  PROVE  /\ PaysAlone(p) => rows[p] = Healed(p)
         /\ ~PaysAlone(p) => Ended(p, rows[p])
<1>1. position > Len(order)
  BY DEF RunInv, ReportIsScore
<1>2. FailureTaken(p) /\ (PaysAlone(p) <=> CaptureTaken(p))
  BY IngestedAll DEF RunInv
<1>3. PICK k \in 1..Len(order) : order[k] = p
  BY IngestedAll DEF RunInv
<1>4. k \in 1..(position - 1)
  BY <1>1, <1>3 DEF RunInv, IngestInv, PhaseType, OrderOpens
<1>5. p \in TurnOver
  BY <1>3, <1>4 DEF TurnOver, TurnsTaken
<1> QED  BY <1>2, <1>5 DEF RunInv, IngestInv, RowsTell

\* What a run leaves, its deliveries all ingested.
Left == [payments |-> dataset.payments, events |-> dataset.events,
         before |-> Len(dataset.events), order |-> order, rows |-> rows]

LEMMA LeftIsKept == ASSUME RunInv, phase = "scored" PROVE WellFormed(Left)
<1> USE DEF RunInv, IngestInv
<1> DEFINE d == Left
<1>1. /\ d.payments = dataset.payments /\ d.events = dataset.events
      /\ d.before = Len(dataset.events) /\ d.order = order /\ d.rows = rows
  BY DEF Left
<1> HIDE DEF d
<1>2. /\ Taken = DOMAIN dataset.events /\ DOMAIN dataset.events = 1..Len(dataset.events)
      /\ Len(dataset.events) \in Nat
  BY DeliveriesOfPayments DEF Taken
<1>3. Deliveries(d)
  BY <1>1, DatasetIsWellFormed DEF Deliveries
<1>4. \A p : /\ FailedBefore(d, p) <=> FailureTaken(p)
             /\ CapturedBefore(d, p) <=> CaptureTaken(p)
  BY <1>1, <1>2 DEF FailedBefore, CapturedBefore, FailureTaken, CaptureTaken
<1>5. d.before \in 0..Len(d.events)
  BY <1>1, <1>2
<1>6. \A i \in DOMAIN d.events : \E j \in 1..d.before : d.events[j].id = d.events[i].id
  BY <1>1, <1>2
<1>7. /\ d.order \in Seq(DOMAIN d.payments)
      /\ \A j, k \in 1..Len(d.order) : d.order[j] = d.order[k] => j = k
      /\ \A p \in DOMAIN d.payments :
           FailedBefore(d, p) <=> \E k \in 1..Len(d.order) : d.order[k] = p
  BY <1>1, <1>4 DEF OrderOpens, Numbers
<1>8. d.rows = [p \in DOMAIN d.payments |-> d.rows[p]]
  BY <1>1 DEF RowsTell, Numbers
<1>9. ASSUME NEW p \in DOMAIN d.payments
      PROVE  IF CapturedBefore(d, p) THEN d.rows[p] = HealedRow(d.payments[p])
             ELSE FailedBefore(d, p) /\ EndedRow(d.payments[p], d.rows[p])
  <2>1. p \in Numbers
    BY <1>1, <1>9 DEF Numbers
  <2>2. FailureTaken(p) /\ (PaysAlone(p) <=> CaptureTaken(p))
    BY <2>1, IngestedAll
  <2> QED  BY <1>1, <1>4, <2>1, <2>2, EveryTurnOver DEF Healed, Ended
<1>10. Kept(d)
  BY <1>5, <1>6, <1>7, <1>8, <1>9 DEF Kept
<1> QED  BY <1>3, <1>10 DEF WellFormed, d

\* Runs follow each other: what one leaves is what the next is assumed to find,
\* however many payments there are.
THEOREM RunsFollowEachOther == RunSpec => [](phase = "scored" => WellFormed(Left))
<1>1. RunInv => (phase = "scored" => WellFormed(Left))
  BY LeftIsKept
<1> QED  BY <1>1, RunInvariant, PTL

LEMMA DisjointUnion ==
  ASSUME NEW S, IsFiniteSet(S), NEW T, IsFiniteSet(T), S \cap T = {}
  PROVE  Cardinality(S \cup T) = Cardinality(S) + Cardinality(T)
<1>1. Cardinality(S \cap T) = 0
  BY FS_EmptySet
<1>2. Cardinality(S) \in Nat /\ Cardinality(T) \in Nat
  BY FS_CardinalityType
<1>3. Cardinality(S \cup T) = Cardinality(S) + Cardinality(T) - Cardinality(S \cap T)
  BY FS_Union
<1> QED  BY <1>1, <1>2, <1>3

\* There are as many cases as payments.
LEMMA OneCaseEach ==
  ASSUME IngestInv, phase # "ingesting" PROVE Len(order) = Cardinality(Numbers)
<1>1. order \in Seq(Numbers) /\ Len(order) \in Nat
  BY DEF IngestInv, OrderOpens
<1> DEFINE S == 1..Len(order)
<1>2. order \in Bijection(S, Numbers)
  <2>1. order \in [S -> Numbers]
    BY <1>1
  <2>2. \A j, k \in S : order[j] = order[k] => j = k
    BY DEF IngestInv, OrderOpens
  <2>3. \A p \in Numbers : \E k \in S : order[k] = p
    BY IngestedAll
  <2> HIDE DEF S
  <2> QED  BY <2>1, <2>2, <2>3 DEF Bijection, Injection, IsInjective, Surjection
<1>3. IsFiniteSet(S) /\ Cardinality(S) = Len(order)
  <2>1. IsFiniteSet(1..Len(order)) /\
        Cardinality(1..Len(order)) = IF 1 > Len(order) THEN 0 ELSE Len(order) - 1 + 1
    BY <1>1, FS_Interval
  <2> QED  BY <1>1, <2>1
<1> HIDE DEF S
<1>4. Cardinality(S) = Cardinality(Numbers)
  BY <1>2, <1>3, FS_Bijection DEF ExistsBijection
<1> QED  BY <1>3, <1>4

LEMMA ReportIsTrue == RunInv => ReportAddsUp
<1> SUFFICES ASSUME RunInv, phase = "scored" PROVE ReportAddsUp
  BY DEF ReportAddsUp
<1> DEFINE healed == {p \in Numbers : PaysAlone(p)}
           acted == {p \in Numbers : rows[p].charges + rows[p].contacts > 0}
           paid == {p \in acted : rows[p].status = "RECOVERED"}
           In(s) == {p \in Numbers : rows[p].status = s}
           due == [p \in Numbers |-> dataset.payments[p].amount]
           booked == [p \in Numbers |-> IF rows[p].status = "RECOVERED"
                                        THEN rows[p].recovered ELSE 0]
<1>1. IsFiniteSet(Numbers) /\ \A S \in SUBSET Numbers : IsFiniteSet(S) /\ Cardinality(S) \in Nat
  BY PaymentsAreCases, FS_Subset, FS_CardinalityType DEF RunInv, IngestInv
<1>2. ASSUME NEW p \in Numbers
      PROVE  /\ p \in healed => /\ rows[p].status = "RECOVERED"
                                /\ rows[p].outcome = "SELF_HEALED"
                                /\ rows[p].recovered = due[p]
                                /\ rows[p].charges + rows[p].contacts = 0
             /\ p \notin healed =>
                  /\ rows[p].status \in {"RECOVERED", "CLOSED_UNRECOVERED", "BLOCKED", "ESCALATED"}
                  /\ rows[p].outcome # "SELF_HEALED"
                  /\ rows[p].status = "RECOVERED" =>
                       rows[p].recovered = due[p] /\ rows[p].charges + rows[p].contacts > 0
  <2>1. CASE PaysAlone(p)
    <3>1. rows[p] = Healed(p)
      BY <2>1, EveryTurnOver
    <3>2. /\ rows[p].status = "RECOVERED" /\ rows[p].outcome = "SELF_HEALED"
          /\ rows[p].recovered = dataset.payments[p].amount
          /\ rows[p].charges = 0 /\ rows[p].contacts = 0
      BY <3>1 DEF Healed, HealedRow, NotOpened
    <3> QED  BY <2>1, <3>2
  <2>2. CASE ~PaysAlone(p)
    <3>1. Ended(p, rows[p])
      BY <2>2, EveryTurnOver
    <3> QED  BY <2>2, <3>1 DEF Ended, EndedRow
  <2> QED  BY <2>1, <2>2
<1>3. report.total = Cardinality(Numbers)
  BY OneCaseEach DEF RunInv, ReportIsScore
<1>4. duplicates = (Len(dataset.events) - dataset.before) - Cardinality(ledger \ KeptIds)
  <2>1. /\ Taken = 1..Len(dataset.events) /\ Len(dataset.events) \in Nat
        /\ dataset.before \in 0..Len(dataset.events)
    BY DeliveriesOfPayments, DatasetIsWellFormed DEF Taken, RunInv, IngestInv, Kept
  <2>2. TakenNow = (dataset.before + 1)..Len(dataset.events)
    BY <2>1 DEF TakenNow
  <2>3. Cardinality(TakenNow) = Len(dataset.events) - dataset.before
    <3> DEFINE a == dataset.before + 1
               b == Len(dataset.events)
    <3>1. a \in Int /\ b \in Int /\ a <= b + 1 /\ b - a + 1 = b - dataset.before
      BY <2>1
    <3> HIDE DEF a, b
    <3>2. Cardinality(a..b) = IF a > b THEN 0 ELSE b - a + 1
      BY <3>1, FS_Interval
    <3>3. Cardinality(a..b) = b - a + 1
      BY <3>1, <3>2
    <3> QED  BY <2>2, <3>1, <3>3 DEF a, b
  <2>4. Cardinality(ledger \ KeptIds) \in Nat
    BY <2>1, FS_Interval, LedgerIsFinite DEF RunInv, IngestInv
  <2> QED  BY <2>1, <2>3, <2>4 DEF RunInv, IngestInv, LedgerCounts
<1>5. report.recovered + report.unrecovered + report.escalated + report.blocked = report.total
  <2> DEFINE A == In("RECOVERED")
             B == In("CLOSED_UNRECOVERED")
             C == In("ESCALATED")
             D == In("BLOCKED")
  <2>1. A \cap B = {} /\ (A \cup B) \cap C = {} /\ (A \cup B \cup C) \cap D = {}
    OBVIOUS
  <2>2. A \cup B \cup C \cup D = Numbers
    BY <1>2
  <2>3. /\ report.recovered = Cardinality(A) /\ report.unrecovered = Cardinality(B)
        /\ report.escalated = Cardinality(C) /\ report.blocked = Cardinality(D)
    BY DEF RunInv, ReportIsScore, Having
  <2>4. /\ IsFiniteSet(A) /\ IsFiniteSet(B) /\ IsFiniteSet(C) /\ IsFiniteSet(D)
        /\ IsFiniteSet(A \cup B) /\ IsFiniteSet(A \cup B \cup C)
        /\ Cardinality(A) \in Nat /\ Cardinality(B) \in Nat
        /\ Cardinality(C) \in Nat /\ Cardinality(D) \in Nat
    BY <1>1
  <2> HIDE DEF A, B, C, D
  <2>5. Cardinality(A \cup B) = Cardinality(A) + Cardinality(B)
    BY <2>1, <2>4, DisjointUnion
  <2>6. Cardinality(A \cup B \cup C) = Cardinality(A \cup B) + Cardinality(C)
    BY <2>1, <2>4, DisjointUnion
  <2>7. Cardinality(A \cup B \cup C \cup D) = Cardinality(A \cup B \cup C) + Cardinality(D)
    BY <2>1, <2>4, DisjointUnion
  <2> QED  BY <1>3, <2>2, <2>3, <2>4, <2>5, <2>6, <2>7
<1>6. report.selfHealed = Cardinality(healed)
  <2>1. {p \in Numbers : rows[p].outcome = "SELF_HEALED"} = healed
    BY <1>2
  <2> QED  BY <2>1 DEF RunInv, ReportIsScore, SelfHealed
<1>7. healed \cup paid = In("RECOVERED") /\ healed \cap paid = {}
  BY <1>2
<1>8. report.agentRecovered = Cardinality(paid)
  <2>1. report.agentRecovered = Cardinality(In("RECOVERED")) - Cardinality(healed)
    BY <1>6 DEF RunInv, ReportIsScore, Having
  <2>2. /\ IsFiniteSet(healed) /\ IsFiniteSet(paid)
        /\ Cardinality(healed) \in Nat /\ Cardinality(paid) \in Nat
    BY <1>1
  <2> HIDE DEF healed, paid, In
  <2>3. Cardinality(healed \cup paid) = Cardinality(healed) + Cardinality(paid)
    BY <1>7, <2>2, DisjointUnion
  <2>4. Cardinality(In("RECOVERED")) = Cardinality(healed) + Cardinality(paid)
    BY <1>7, <2>3, Zenon
  <2> QED  BY <2>1, <2>2, <2>4
<1>9. report.amount = SumFunctionOnSet(due, healed \cup paid)
  <2>1. report.amount = SumFunctionOnSet(booked, Numbers)
    BY Zenon DEF RunInv, ReportIsScore, Total, TotalOver
  <2>2. \A p \in Numbers : due[p] \in Nat
    BY PaymentsAreCases DEF RunInv, IngestInv
  <2>3. \A p \in Numbers : booked[p] = IF p \in healed \cup paid THEN due[p] ELSE 0
    BY <1>2, <1>7
  <2>4. healed \cup paid \in SUBSET Numbers
    OBVIOUS
  <2> HIDE DEF healed, paid, due, booked
  <2> DEFINE T == healed \cup paid
  <2>5. \A p \in Numbers : booked[p] \in Nat
    BY <2>2, <2>3
  <2>6. \A p \in Numbers \ T : booked[p] = 0
    BY <2>3
  <2>7. IsFiniteSet(T) /\ \A p \in T : booked[p] = due[p]
    BY <1>1, <2>3, <2>4
  <2>8. T \in SUBSET Numbers
    BY <2>4
  <2> HIDE DEF T
  <2>9. SumFunctionOnSet(booked, Numbers) = SumFunctionOnSet(booked, T)
    BY <1>1, <2>5, <2>6, <2>8, SumOfSubset
  <2>10. SumFunctionOnSet(booked, T) = SumFunctionOnSet(due, T)
    BY <2>7, SumOfSame
  <2> QED  BY <2>1, <2>9, <2>10 DEF T
<1> QED
  BY <1>3, <1>4, <1>5, <1>6, <1>8, <1>9, Zenon DEF ReportAddsUp, TotalOver

\* Whatever was delivered, in whatever order and however often, in this run or
\* in earlier ones whose cases were kept, the report of _score adds up to the
\* payments in the database and their money.
THEOREM ReportsAddUp == RunSpec => []ReportAddsUp
BY RunInvariant, ReportIsTrue, PTL

-----------------------------------------------------------------------------
(***************************************************************************)
(* The promise to every payment of the run.                                *)
(***************************************************************************)

\* What the promise sees of a payment.
View(p) == <<StageOf(Now(p).status), Now(p).retries, Now(p).contacts, Now(p).recovered>>

LEMMA PromisesStutter ==
  ASSUME UNCHANGED dataset, \A p \in Numbers : View(p)' = View(p)
  PROVE  UNCHANGED Promises!vars
<1>1. Numbers' = Numbers /\ \A p : PaysAlone(p)' <=> PaysAlone(p)
  BY DEF Numbers, PaysAlone
<1>2. \A p \in Numbers :
        /\ StageOf(Now(p).status)' = StageOf(Now(p).status)
        /\ Now(p).retries' = Now(p).retries
        /\ Now(p).contacts' = Now(p).contacts
        /\ Now(p).recovered' = Now(p).recovered
  BY DEF View
<1> QED  BY <1>1, <1>2 DEF Promises!vars

\* When one payment makes a move of the promise and the others stay, the run
\* takes a step of it.
LEMMA PromisesMove ==
  ASSUME UNCHANGED dataset, NEW c \in Numbers, \A q \in Numbers \ {c} : View(q)' = View(q),
         Promises!Moves(c)
  PROVE  Promises!Next
<1>1. Numbers' = Numbers /\ \A p : PaysAlone(p)' <=> PaysAlone(p)
  BY DEF Numbers, PaysAlone
<1>2. Promises!Numbers = Numbers /\ Promises!Numbers' = Numbers
  BY <1>1 DEF Promises!Numbers
<1>3. ASSUME NEW q \in Numbers \ {c} PROVE Promises!Stays(q)
  BY <1>1, <1>3 DEF Promises!Stays, View
<1> QED  BY <1>1, <1>2, <1>3 DEF Promises!Next

\* A case that an earlier run has ended is of a payment that nobody paid unprompted.
LEMMA EndedIsUnpaid ==
  ASSUME PhaseType, NEW p \in EndedBefore PROVE ~PaysAlone(p)
<1>1. /\ p \in DOMAIN dataset.payments
      /\ dataset.rows[p].status # "none" /\ dataset.rows[p].outcome # "SELF_HEALED"
  BY DEF EndedBefore, EndedRow, Numbers
<1>2. \A f : HealedRow(f).outcome = "SELF_HEALED" /\ NotOpened(f).status = "none"
  BY DEF HealedRow, NotOpened
<1>3. FailedBefore(dataset, p) /\ ~CapturedBefore(dataset, p)
  BY <1>1, <1>2, DatasetIsWellFormed DEF Kept
<1>4. ASSUME NEW i \in DOMAIN dataset.events, dataset.events[i].of = p,
             dataset.events[i].event = "payment.captured"
      PROVE  FALSE
  <2>1. PICK j \in 1..dataset.before : dataset.events[j].id = dataset.events[i].id
    BY <1>3, <1>4, DatasetIsWellFormed DEF Kept
  <2>2. j \in DOMAIN dataset.events
    BY <2>1, DeliveriesOfPayments, DatasetIsWellFormed DEF Kept
  <2>3. dataset.events[j] = dataset.events[i]
    BY <2>1, <2>2, DatasetIsWellFormed DEF Deliveries
  <2>4. dataset.events[i] = Captured(dataset.events[i].id, p)
    <3>1. dataset.events[i] # Failed(dataset.events[i].id, p)
      BY <1>4 DEF Failed
    <3> QED  BY <1>4, <3>1, DeliveriesOfPayments
  <2> QED  BY <1>3, <2>1, <2>3, <2>4 DEF CapturedBefore
<1> QED  BY <1>4 DEF PaysAlone

LEMMA RunInitPromises == RunInit => Promises!Init
<1> SUFFICES ASSUME RunInit PROVE Promises!Init
  OBVIOUS
<1>1. RunInv /\ phase = "ingesting" /\ rows = dataset.rows
  BY RunInitInv DEF RunInit
<1>2. \A p \in Numbers : Now(p) = rows[p]
  BY <1>1 DEF Now
<1>3. ASSUME NEW p \in Numbers
      PROVE  /\ dataset.payments[p].amount \in Nat
             /\ rows[p].retries \in 0..MaxRetries
             /\ rows[p].contacts \in 0..ContactCap
             /\ rows[p].recovered = IF rows[p].status = "RECOVERED"
                                    THEN dataset.payments[p].amount ELSE 0
             /\ StageOf(rows[p].status) = "open" => rows[p].contacts = 0
             /\ PaysAlone(p) =>
                  /\ StageOf(rows[p].status) \in {"open", "recovered"}
                  /\ rows[p].contacts = 0
  <2>1. /\ dataset.payments[p].amount \in Nat
        /\ dataset.payments[p].priorAttempts \in 0..MaxRetries /\ ContactCap \in Nat
    BY <1>1, PaymentsAreCases, PolicyConfigAssumption DEF RunInv, IngestInv
  <2>2. CASE rows[p] = Healed(p) \/ \E s \in {"none", "DETECTED"} : rows[p] = Untouched(p, s)
    <3>1. /\ rows[p].status \in {"none", "DETECTED", "RECOVERED"} /\ rows[p].contacts = 0
          /\ rows[p].retries = dataset.payments[p].priorAttempts
          /\ rows[p].recovered = IF rows[p].status = "RECOVERED"
                                 THEN dataset.payments[p].amount ELSE 0
      BY <2>2 DEF Healed, HealedRow, Untouched, NotOpened
    <3>2. /\ StageOf("none") = "open" /\ StageOf("DETECTED") = "open"
          /\ StageOf("RECOVERED") = "recovered"
      BY DEF StageOf, Ending
    <3> QED  BY <2>1, <3>1, <3>2
  <2>3. CASE Ended(p, rows[p]) /\ p \in EndedBefore
    <3>1. ~PaysAlone(p)
      BY <1>1, <2>3, EndedIsUnpaid DEF RunInv, IngestInv
    <3>2. StageOf(rows[p].status) # "open"
      BY <2>3 DEF Ended, EndedRow, StageOf, Ending
    <3> QED  BY <2>1, <2>3, <3>1, <3>2 DEF Ended, EndedRow
  <2>4. TurnOver = EndedBefore
    BY <1>1 DEF TurnOver, TurnsTaken
  <2> QED  BY <1>1, <2>2, <2>3, <2>4 DEF RunInv, IngestInv, RowsTell
<1>4. ASSUME NEW p \in Numbers
      PROVE  StageOf(rows[p].status) = "recovered" <=> rows[p].status = "RECOVERED"
  BY DEF StageOf, Ending
<1> QED  BY <1>2, <1>3, <1>4 DEF Promises!Init, Promises!Numbers

\* A move of the pipeline's case is one of the payment whose turn it is.
LEMMA AdvanceKeepsPromises ==
  RunInv /\ AdvanceCase => [Promises!Next]_(Promises!vars)
<1> SUFFICES ASSUME RunInv, AdvanceCase PROVE [Promises!Next]_(Promises!vars)
  OBVIOUS
<1>1. phase = "advancing" /\ UNCHANGED run /\ [Next]_vars
  BY DEF AdvanceCase, Next
<1>2. UNCHANGED <<dataset, phase, position, order, rows>> /\ Current' = Current
  BY <1>1 DEF run, Current
<1>3. PICK c \in Numbers : c = Current /\ ~PaysAlone(c)
  BY <1>1, CurrentHasTurn, IngestedAll DEF RunInv, IngestInv, PhaseType, CaseIsCurrent
<1>4. ASSUME NEW q \in Numbers \ {c} PROVE View(q)' = View(q)
  BY <1>2, <1>3, <1>4 DEF View, Now
<1>5. facts.amount = dataset.payments[c].amount /\ facts' = facts
  <2>1. dataset.payments[c] \in CaseFacts
    BY <1>3, PaymentsAreCases DEF RunInv, IngestInv
  <2>2. facts' = facts
    BY <1>1, WhoDecides
  <2> QED  BY <1>1, <1>3, <2>1, <2>2 DEF RunInv, CaseIsCurrent, CaseFacts
<1>6. /\ Now(c) = [status |-> status, recovered |-> recovered, retries |-> retryCount,
                   contacts |-> contacts]
      /\ Now(c)' = [status |-> status', recovered |-> recovered', retries |-> retryCount',
                    contacts |-> contacts']
  BY <1>1, <1>2, <1>3 DEF Now
<1>7. [Abstract!Next]_(Abstract!vars)
  BY <1>1, StepKeepsPromise DEF RunInv, CaseInv
<1>8. CASE UNCHANGED Abstract!vars
  <2>1. View(c)' = View(c)
    BY <1>6, <1>8 DEF Abstract!vars, View
  <2>2. ASSUME NEW p \in Numbers PROVE View(p)' = View(p)
    BY <1>4, <2>1
  <2> QED  BY <1>2, <2>2, PromisesStutter
<1>9. CASE Abstract!Next
  <2>1. Numbers' = Numbers
    BY <1>2 DEF Numbers
  <2>2. c \in Numbers /\ c \in Numbers' /\ c \notin {p \in Numbers : PaysAlone(p)}
    BY <1>3, <2>1
  <2>3. /\ StageOf(Now(c).status) = StageOf(status)
        /\ Now(c).retries = retryCount /\ Now(c).contacts = contacts
        /\ Now(c).recovered = recovered
    BY <1>6
  <2>4. /\ StageOf(Now(c).status)' = StageOf(status')
        /\ Now(c).retries' = retryCount' /\ Now(c).contacts' = contacts'
        /\ Now(c).recovered' = recovered'
    BY <1>6
  <2>5. StageOf(status) = "open"
    BY <1>9 DEF Abstract!Next, Abstract!Charge, Abstract!Contact, Abstract!GiveUp
  <2>6. ASSUME Abstract!Charge PROVE Promises!Moves(c)
    BY <1>5, <2>2, <2>3, <2>4, <2>5, <2>6
       DEF Promises!Moves, Promises!Charge, Promises!Settle, Abstract!Charge, Abstract!Settle
  <2>7. ASSUME Abstract!Contact PROVE Promises!Moves(c)
    BY <1>5, <2>2, <2>3, <2>4, <2>5, <2>7
       DEF Promises!Moves, Promises!Contact, Promises!Settle, Abstract!Contact, Abstract!Settle
  <2>8. ASSUME Abstract!GiveUp PROVE Promises!Moves(c)
    BY <2>2, <2>3, <2>4, <2>5, <2>8
       DEF Promises!Moves, Promises!GiveUp, Abstract!GiveUp
  <2>9. Promises!Moves(c)
    BY <1>9, <2>6, <2>7, <2>8 DEF Abstract!Next
  <2> QED  BY <1>2, <1>4, <2>9, PromisesMove
<1> QED  BY <1>7, <1>8, <1>9

\* A capture that finds the case open pays it unprompted; another is nothing new.
LEMMA HealKeepsPromises ==
  RunInv /\ SelfHeal => [Promises!Next]_(Promises!vars)
<1> SUFFICES ASSUME RunInv, SelfHeal PROVE [Promises!Next]_(Promises!vars)
  OBVIOUS
<1>1. PICK d \in Numbers :
        /\ PaysAlone(d)
        /\ rows[d] \in {Untouched(d, "DETECTED"), Healed(d)}
        /\ rows' = [rows EXCEPT ![d] = Healed(d)]
  BY HealKeepsIngest DEF RunInv
<1>2. phase = "ingesting" /\ phase' = "ingesting" /\ UNCHANGED dataset /\ DOMAIN rows = Numbers
  BY DEF SelfHeal, Deliver, RunInv, IngestInv, RowsTell
<1>3. \A p \in Numbers : Now(p) = rows[p] /\ Now(p)' = rows'[p]
  BY <1>2 DEF Now
<1>4. ASSUME NEW q \in Numbers \ {d} PROVE View(q)' = View(q)
  <2>1. rows'[q] = rows[q]
    BY <1>1, <1>2
  <2> QED  BY <1>3, <2>1 DEF View
<1>5. rows'[d] = Healed(d)
  BY <1>1, <1>2
<1>6. CASE rows[d] = Healed(d)
  <2>1. Now(d)' = Now(d)
    BY <1>3, <1>5, <1>6
  <2>2. ASSUME NEW p \in Numbers PROVE View(p)' = View(p)
    BY <1>4, <2>1 DEF View
  <2> QED  BY <1>2, <2>2, PromisesStutter
<1>7. CASE rows[d] = Untouched(d, "DETECTED")
  <2>1. /\ Now(d).status = "DETECTED" /\ Now(d)'.status = "RECOVERED"
        /\ Now(d)'.recovered = dataset.payments[d].amount
        /\ Now(d)'.retries = Now(d).retries /\ Now(d)'.contacts = Now(d).contacts
    <3>1. LET open == Untouched(d, "DETECTED")
              healed == Healed(d)
          IN  /\ open.status = "DETECTED" /\ healed.status = "RECOVERED"
              /\ healed.recovered = dataset.payments[d].amount
              /\ healed.retries = open.retries /\ healed.contacts = open.contacts
      BY DEF Healed, HealedRow, Untouched, NotOpened
    <3>2. Now(d) = Untouched(d, "DETECTED") /\ Now(d)' = Healed(d)
      BY <1>3, <1>5, <1>7
    <3> QED  BY <3>1, <3>2
  <2>2. StageOf("DETECTED") = "open" /\ StageOf("RECOVERED") = "recovered"
    BY DEF StageOf, Ending
  <2>3. d \in Numbers' /\ d \in {p \in Numbers : PaysAlone(p)}
    BY <1>1, <1>2 DEF Numbers
  <2>4. Promises!Moves(d)
    BY <2>1, <2>2, <2>3 DEF Promises!Moves, Promises!PaysUnprompted
  <2> QED  BY <1>2, <1>4, <2>4, PromisesMove
<1> QED  BY <1>1, <1>6, <1>7

\* Opening, loading and putting back a case are nothing to the promise.
LEMMA RunKeepsPromises ==
  RunInv /\ [RunNext]_runVars => [Promises!Next]_(Promises!vars)
<1> SUFFICES ASSUME RunInv, [RunNext]_runVars PROVE [Promises!Next]_(Promises!vars)
  OBVIOUS
<1> USE DEF RunInv
<1>1. CASE OpenCase
  <2>1. PICK d \in Numbers :
          /\ rows[d] = Untouched(d, "none")
          /\ rows' = [rows EXCEPT ![d] = Untouched(d, "DETECTED")]
    BY <1>1, OpenKeepsIngest
  <2>2. phase = "ingesting" /\ phase' = "ingesting" /\ UNCHANGED dataset /\ DOMAIN rows = Numbers
    BY <1>1 DEF OpenCase, Deliver, IngestInv, RowsTell
  <2>3. \A p \in Numbers : Now(p) = rows[p] /\ Now(p)' = rows'[p]
    BY <2>2 DEF Now
  <2>4. StageOf("none") = "open" /\ StageOf("DETECTED") = "open"
    BY DEF StageOf, Ending
  <2>5. ASSUME NEW p \in Numbers PROVE View(p)' = View(p)
    <3>1. CASE p = d
      <4>1. rows'[p] = Untouched(p, "DETECTED") /\ rows[p] = Untouched(p, "none")
        BY <2>1, <2>2, <3>1
      <4> QED  BY <2>3, <2>4, <4>1 DEF View, Untouched, NotOpened
    <3>2. CASE p # d
      <4>1. rows'[p] = rows[p]
        BY <2>1, <2>2, <3>2
      <4> QED  BY <2>3, <4>1 DEF View
    <3> QED  BY <3>1, <3>2
  <2> QED  BY <2>2, <2>5, PromisesStutter
<1>2. CASE LoadCase
  <2>1. /\ phase = "between" /\ phase' = "advancing" /\ UNCHANGED <<dataset, rows>>
        /\ status' = "DETECTED" /\ retryCount' = rows[Current].retries
        /\ recovered' = 0 /\ contacts' = 0
    BY <1>2 DEF LoadCase
  <2>2. Current' = Current /\ rows[Current] = Untouched(Current, "DETECTED")
    BY <1>2, LoadKeepsIngest
  <2>3. ASSUME NEW p \in Numbers PROVE View(p)' = View(p)
    <3>1. Now(p) = rows[p]
      BY <2>1 DEF Now
    <3>2. CASE p = Current
      <4>1. Now(p)' = [status |-> "DETECTED", recovered |-> 0, retries |-> rows[p].retries,
                       contacts |-> 0]
        BY <2>1, <2>2, <3>2 DEF Now
      <4>2. /\ rows[p].status = "DETECTED" /\ rows[p].recovered = 0 /\ rows[p].contacts = 0
        BY <2>2, <3>2 DEF Untouched, NotOpened
      <4> QED  BY <3>1, <4>1, <4>2 DEF View
    <3>3. CASE p # Current
      <4>1. Now(p)' = rows[p]
        BY <2>1, <2>2, <3>3 DEF Now
      <4> QED  BY <3>1, <4>1 DEF View
    <3> QED  BY <3>2, <3>3
  <2> QED  BY <2>1, <2>3, PromisesStutter
<1>3. CASE CaseAdvanced
  <2>1. /\ phase = "advancing" /\ phase' = "between" /\ UNCHANGED dataset
        /\ rows' = [rows EXCEPT ![Current] =
             [status |-> status, outcome |-> outcome, recovered |-> recovered,
              retries |-> retryCount, charges |-> charges, contacts |-> contacts]]
        /\ DOMAIN rows = Numbers
    BY <1>3 DEF CaseAdvanced, IngestInv, RowsTell
  <2>2. ASSUME NEW p \in Numbers PROVE View(p)' = View(p)
    <3>1. Now(p)' = rows'[p]
      BY <2>1 DEF Now
    <3>2. CASE p = Current
      BY <2>1, <3>1, <3>2 DEF View, Now
    <3>3. CASE p # Current
      BY <2>1, <3>1, <3>3 DEF View, Now
    <3> QED  BY <3>2, <3>3
  <2> QED  BY <2>1, <2>2, PromisesStutter
<1>4. CASE SkipDuplicate \/ Ingested \/ SkipEnded \/ Score
  <2>1. phase # "advancing" /\ phase' # "advancing" /\ UNCHANGED <<dataset, rows>>
    BY <1>4 DEF SkipDuplicate, Ingested, SkipEnded, Score
  <2>2. ASSUME NEW p \in Numbers PROVE View(p)' = View(p)
    BY <2>1 DEF View, Now
  <2> QED  BY <2>1, <2>2, PromisesStutter
<1>5. CASE UNCHANGED runVars
  <2>1. /\ UNCHANGED dataset
        /\ \A p \in Numbers : View(p)' = View(p)
    BY <1>5 DEF runVars, run, vars, caseRow, effects, View, Now, Current
  <2> QED  BY <2>1, PromisesStutter
<1> QED
  BY <1>1, <1>2, <1>3, <1>4, <1>5, AdvanceKeepsPromises, HealKeepsPromises DEF RunNext, Over

\* Each payment of a run, also while others have their turn, keeps the promise
\* to a payment; who pays unprompted is neither charged nor sent a link.
THEOREM RunKeepsItsPromises == RunSpec => KeepsPromises
<1>1. RunSpec => Promises!Init /\ [][Promises!Next]_(Promises!vars)
  BY RunInvariant, RunInitPromises, RunKeepsPromises, PTL DEF RunSpec
<1> QED  BY <1>1 DEF KeepsPromises, Promises!Safe

-----------------------------------------------------------------------------
(***************************************************************************)
(* What holds of one case holds of every case of a run.                    *)
(***************************************************************************)

LEMMA RunKeepsQueue ==
  RunInv /\ QueueMatchesCase /\ [RunNext]_runVars => QueueMatchesCase'
<1>1. NewCase' => QueueMatchesCase'
  BY DEF NewCase, QueueMatchesCase
<1> QED  BY <1>1, RunMovesCase, StepKeepsQueue DEF RunInv, CaseInv

\* The queue of the humans and the money booked are exact in a run, from case
\* to case.
THEOREM EveryCaseOfARun == RunSpec => [](QueueMatchesCase /\ MoneyIsCaptured)
<1>1. RunInit => QueueMatchesCase
  BY DEF RunInit, Init, NewCase, QueueMatchesCase
<1>2. RunInv => MoneyIsCaptured
  BY DEF RunInv, CaseInv, MoneyInv
<1> QED  BY <1>1, <1>2, RunInvariant, RunKeepsQueue, PTL DEF RunSpec

\* Without a model: what the table decides of a case, and that the case has
\* charges or contacts only below the approval limit.
BelowLimit == charges > 0 \/ contacts > 0 => facts.amount < ApprovalLimit
TableRunInv == TableInv /\ NotifiedIsLast /\ BelowLimit

LEMMA NewTableRun == facts \in PossibleFacts /\ NewCase => TableRunInv
BY NewTable DEF NewCase, TableRunInv, NotifiedIsLast, BelowLimit

LEMMA StepKeepsTableRun ==
  ASSUME ~LLMConfigured PROVE TableRunInv /\ [Next]_vars => TableRunInv'
<1> SUFFICES ASSUME TableRunInv, [Next]_vars PROVE TableRunInv'
  OBVIOUS
<1>1. BelowLimit'
  <2>1. facts' = facts
    BY WhoDecides
  <2>2. CASE charges' # charges \/ contacts' # contacts
    BY <2>1, <2>2, AttemptIsBelowLimit DEF TableRunInv, BelowLimit
  <2>3. CASE charges' = charges /\ contacts' = contacts
    BY <2>1, <2>3 DEF TableRunInv, BelowLimit
  <2> QED  BY <2>2, <2>3
<1> QED  BY <1>1, StepKeepsTableInv, StepKeepsNotified DEF TableRunInv

LEMMA TableRunInvariant == ASSUME ~LLMConfigured PROVE RunSpec => []TableRunInv
<1>1. RunInit => TableRunInv
  BY NewTableRun, PipelineAssumption DEF RunInit, Init
<1>2. (facts \in PossibleFacts /\ NewCase)' => TableRunInv'
  BY NewTableRun, PTL
<1>3. facts' \in LoadedFacts => facts' \in PossibleFacts
  BY LoadedIsPossible
<1>4. RunInv /\ TableRunInv /\ [RunNext]_runVars => TableRunInv'
  BY <1>2, <1>3, RunMovesCase, StepKeepsTableRun DEF RunInv
<1> QED  BY <1>1, <1>4, RunInvariant, PTL DEF RunSpec

\* Without a model no case of a run, whatever the others do, contacts the
\* customer of an invalid instrument twice.
THEOREM RunNotifiesOnce == ~LLMConfigured => (RunSpec => []InvalidInstrumentNotifiedOnce)
<1>1. TableRunInv => InvalidInstrumentNotifiedOnce
  BY DEF TableRunInv, TableInv, TableDecides, NotifiedIsLast, InvalidInstrumentNotifiedOnce,
         BudgetInv, TypeOK
<1>2. ASSUME ~LLMConfigured PROVE RunSpec => []InvalidInstrumentNotifiedOnce
  <2>1. RunSpec => []TableRunInv
    BY <1>2, TableRunInvariant
  <2> QED  BY <1>1, <2>1, PTL
<1> QED  BY <1>2

\* Without a model no amount at the approval limit is charged or brought to a
\* customer in a run.
THEOREM RunRespectsCeiling == ~LLMConfigured => (RunSpec => CeilingNeedsHuman)
<1> SUFFICES ASSUME ~LLMConfigured PROVE RunSpec => CeilingNeedsHuman
  OBVIOUS
<1>1. RunInv /\ TableRunInv /\ [RunNext]_runVars
        => [charges' # charges \/ contacts' # contacts => facts.amount < ApprovalLimit]_vars
  <2> SUFFICES ASSUME RunInv, TableRunInv, [RunNext]_runVars,
                      charges' # charges \/ contacts' # contacts
               PROVE  facts.amount < ApprovalLimit
    OBVIOUS
  <2>1. CASE [Next]_vars
    BY <2>1, AttemptIsBelowLimit DEF TableRunInv
  <2>2. CASE NewCase'
    <3>1. charges' = 0 /\ contacts' = 0 /\ charges \in Nat /\ contacts \in Nat
      BY <2>2 DEF NewCase, RunInv, CaseInv, BudgetInv, TypeOK
    <3>2. charges > 0 \/ contacts > 0
      BY <3>1
    <3> QED  BY <3>2 DEF TableRunInv, BelowLimit
  <2> QED  BY <2>1, <2>2, RunMovesCase DEF RunInv
<1> QED  BY <1>1, RunInvariant, TableRunInvariant, PTL DEF RunSpec, CeilingNeedsHuman

\* Where the thresholds fit the table, a run refuses a case only for its age or
\* for the charges of the whole run.
THEOREM RunNeverBlocksTable ==
  TableFitsPolicy => (RunSpec => []BlockedOnlyByAgeOrRunBudget)
<1> SUFFICES ASSUME TableFitsPolicy PROVE RunSpec => []BlockedOnlyByAgeOrRunBudget
  OBVIOUS
<1> DEFINE Inv == ContactHasRoom /\ BlockedOnlyByAgeOrRunBudget
<1>1. facts.priorAttempts # 1 /\ NewCase => Inv
  BY NewContactRoom DEF NewCase, BlockedOnlyByAgeOrRunBudget
<1>2. RunInit => Inv
  BY <1>1 DEF RunInit, Init, TableFitsPolicy
<1>3. (facts.priorAttempts # 1 /\ NewCase)' => Inv'
  BY <1>1, PTL
<1>4. facts' \in LoadedFacts => facts'.priorAttempts # 1
  BY LoadedIsPossible DEF TableFitsPolicy
<1>5. TableInv /\ Inv /\ [Next]_vars => Inv'
  BY StepKeepsContactRoom, StepKeepsBlocked
<1>6. RunInv /\ TableRunInv /\ Inv /\ [RunNext]_runVars => Inv'
  <2> HIDE DEF Inv
  <2> QED  BY <1>3, <1>4, <1>5, RunMovesCase DEF RunInv, TableRunInv
<1>7. RunSpec => []TableRunInv
  BY TableRunInvariant DEF TableFitsPolicy
<1> QED  BY <1>2, <1>6, <1>7, RunInvariant, PTL DEF RunSpec

\* Without a model, with a contact to make and a base cooldown of at most an
\* hour, no case of a run waits at the gate.
THEOREM RunNeverWaits ==
  ~LLMConfigured /\ ContactCap >= 1 /\ CooldownBase <= 60 => (RunSpec => []WaitNeverNeeded)
<1> SUFFICES ASSUME ~LLMConfigured, ContactCap >= 1, CooldownBase <= 60
             PROVE  RunSpec => []WaitNeverNeeded
  OBVIOUS
<1> DEFINE Inv == PlannedIsSpaced /\ WaitNeverNeeded
<1>1. NewCase => Inv
  BY DEF NewCase, NoGate, PlannedIsSpaced, WaitNeverNeeded
<1>2. RunInit => Inv
  BY <1>1 DEF RunInit, Init
<1>3. NewCase' => Inv'
  BY <1>1, PTL
<1>4. TableInv /\ Inv /\ [Next]_vars => Inv'
  BY StepKeepsPlannedSpaced, StepKeepsNoWait
<1>5. RunInv /\ TableRunInv /\ Inv /\ [RunNext]_runVars => Inv'
  <2> HIDE DEF Inv
  <2> QED  BY <1>3, <1>4, RunMovesCase DEF RunInv, TableRunInv
<1>6. RunSpec => []TableRunInv
  BY TableRunInvariant
<1> QED  BY <1>2, <1>5, <1>6, RunInvariant, PTL DEF RunSpec

\* Under the same settings no case of a run raises or is cut short, whatever
\* charges the others have used: the one transaction of run_eval is not lost.
THEOREM RunLosesNoCase == TableFitsLoop => (RunSpec => []LoopEndsByItself)
<1> SUFFICES ASSUME TableFitsLoop PROVE RunSpec => []LoopEndsByItself
  OBVIOUS
<1> DEFINE Inv == PlannedIsSpaced /\ LoopIsFree
<1>1. NewCase => Inv
  BY NewLoop DEF NewCase, PlannedIsSpaced
<1>2. RunInit => Inv
  BY <1>1 DEF RunInit, Init
<1>3. NewCase' => Inv'
  BY <1>1, PTL
<1>4. TableInv /\ Inv /\ [Next]_vars => Inv'
  BY StepKeepsPlannedSpaced, StepKeepsLoopFree DEF TableFitsLoop
<1>5. RunInv /\ TableRunInv /\ Inv /\ [RunNext]_runVars => Inv'
  <2> HIDE DEF Inv
  <2> QED  BY <1>3, <1>4, RunMovesCase DEF RunInv, TableRunInv
<1>6. TableRunInv /\ Inv => LoopEndsByItself
  BY FreeLoopEnds DEF TableRunInv
<1>7. RunSpec => []TableRunInv
  BY TableRunInvariant DEF TableFitsLoop
<1> QED  BY <1>2, <1>5, <1>6, <1>7, RunInvariant, PTL DEF RunSpec

=============================================================================
