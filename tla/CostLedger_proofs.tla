------------------------- MODULE CostLedger_proofs -------------------------
(***************************************************************************)
(* Proofs about module CostLedger, for any budgets, reservations, calls,   *)
(* amounts and bounds.  First what is needed about sums over finite sets,  *)
(* then the inductive invariant in three parts: types, the control of who  *)
(* finalizes and when amounts are charged, and the books, which say that   *)
(* the two columns of a budget are sums over the rows behind them.         *)
(***************************************************************************)
EXTENDS CostLedger, FiniteSetTheorems, TLAPS

-----------------------------------------------------------------------------
(* Sums over finite sets. *)

\* Induction on finite sets, as a minimal counterexample: a nonempty family of
\* subsets has a member none of whose strict subsets belongs to it.
LEMMA MinimalSubset ==
  ASSUME NEW S, IsFiniteSet(S), NEW T, T \subseteq SUBSET S, T # {}
  PROVE  \E x \in T : \A y \in T : y \subseteq x => y = x
<1>1. FiniteSubsetsOf(S) = SUBSET S
  BY FS_FiniteSubsetsOfFinite
<1>2. IsWellFoundedOn(StrictSubsetOrdering(S), SUBSET S)
  BY <1>1, FS_StrictSubsetOrderingWellFounded
<1>3. PICK x \in T : \A y \in T : ~ (<<y, x>> \in StrictSubsetOrdering(S))
  BY <1>2, WFMin
<1> QED BY <1>3 DEF StrictSubsetOrdering

\* Induction on the naturals, for a set.
LEMMA SetInduction ==
  ASSUME NEW P, 0 \in P, \A n \in Nat : n \in P => n + 1 \in P
  PROVE  Nat \subseteq P
<1> DEFINE T == Nat \ P
<1>1. SUFFICES ASSUME T # {} PROVE FALSE
  OBVIOUS
<1>2. PICK x \in T : \A y \in T : ~(<<y, x>> \in OpToRel(<, Nat))
  <2>1. IsWellFoundedOn(OpToRel(<, Nat), Nat)
    BY NatLessThanWellFounded
  <2> HIDE DEF T
  <2>2. T \subseteq Nat BY DEF T
  <2> QED BY <1>1, <2>1, <2>2, WFMin
<1>3. \A y \in T : ~(y < x)
  BY <1>2 DEF OpToRel
<1> QED BY <1>3

\* The community module's fold: a table over the subsets, filled by taking out
\* one chosen element at a time.
Pick(s) == CHOOSE x \in s : TRUE
Body(g, f, s) == IF s = {} THEN 0 ELSE f[Pick(s)] + g[s \ {Pick(s)}]
Table(f, S) == CHOOSE g : g = [s \in SUBSET S |-> Body(g, f, s)]

\* A sum is the entry of its table.
LEMMA SumIsTable ==
  ASSUME NEW S, NEW f
  PROVE SumOver(f, S) = Table(f, S)[S]
BY DEF SumOver, MapThenSumSet, MapThenFoldSet, Body, Pick, Table

\* The table that the fold chooses exists, for every finite set.
LEMMA TableExists ==
  ASSUME NEW S, IsFiniteSet(S), NEW f
  PROVE  Table(f, S) = [s \in SUBSET S |-> Body(Table(f, S), f, s)]
<1> DEFINE Upto(n) == {s \in SUBSET S : Cardinality(s) <= n}
           Good == {n \in Nat : \E g : \A s \in Upto(n) : g[s] = Body(g, f, s)}
<1>0. \A s \in SUBSET S : IsFiniteSet(s) /\ Cardinality(s) \in Nat /\ Cardinality(s) <= Cardinality(S)
  BY FS_Subset, FS_CardinalityType
<1>1. 0 \in Good
  <2> DEFINE g == [s \in SUBSET S |-> 0]
  <2>1. \A s \in Upto(0) : s = {}
    BY <1>0, FS_EmptySet
  <2>2. \A s \in Upto(0) : g[s] = Body(g, f, s)
    BY <2>1 DEF Body
  <2> QED BY <2>2
<1>2. ASSUME NEW n \in Nat, n \in Good PROVE n + 1 \in Good
  <2>1. PICK g : \A s \in Upto(n) : g[s] = Body(g, f, s)
    BY <1>2
  <2> DEFINE h == [s \in SUBSET S |-> Body(g, f, s)]
  <2>2. ASSUME NEW s \in Upto(n + 1) PROVE h[s] = Body(h, f, s)
    <3>1. CASE s = {}
      BY <3>1 DEF Body
    <3>2. CASE s # {}
      <4>1. Pick(s) \in s
        BY <3>2 DEF Pick
      <4>2. s \ {Pick(s)} \in Upto(n)
        BY <4>1, <1>0, FS_RemoveElement
      <4>3. h[s \ {Pick(s)}] = g[s \ {Pick(s)}]
        BY <4>2, <2>1
      <4> QED BY <4>3, <3>2 DEF Body
    <3> QED BY <3>1, <3>2
  <2> HIDE DEF h
  <2>3. \E gg : \A s \in Upto(n + 1) : gg[s] = Body(gg, f, s)
    BY <2>2
  <2> QED BY <2>3
<1>3. Cardinality(S) \in Good
  <2> HIDE DEF Good
  <2> QED BY <1>1, <1>2, <1>0, FS_CardinalityType, SetInduction
<1>4. PICK g : \A s \in SUBSET S : g[s] = Body(g, f, s)
  BY <1>3, <1>0
<1> DEFINE h == [s \in SUBSET S |-> g[s]]
<1>5. \A s \in SUBSET S : Body(h, f, s) = Body(g, f, s)
  BY DEF Body
<1>6. h = [s \in SUBSET S |-> Body(h, f, s)]
  BY <1>4, <1>5
<1> HIDE DEF h
<1> QED BY <1>6 DEF Table

\* Tables over a set and over one of its subsets agree where both are defined.
LEMMA TablesAgree ==
  ASSUME NEW S, IsFiniteSet(S), NEW A \in SUBSET S, NEW f
  PROVE  \A s \in SUBSET A : Table(f, S)[s] = Table(f, A)[s]
<1> DEFINE g == Table(f, S)
           h == Table(f, A)
           Bad == {s \in SUBSET A : g[s] # h[s]}
<1>1. IsFiniteSet(A)
  BY FS_Subset
<1>2. \A s \in SUBSET A : g[s] = Body(g, f, s) /\ h[s] = Body(h, f, s)
  <2>1. g = [s \in SUBSET S |-> Body(g, f, s)]
    BY TableExists
  <2>2. h = [s \in SUBSET A |-> Body(h, f, s)]
    BY <1>1, TableExists
  <2> HIDE DEF g, h
  <2>3. \A s \in SUBSET A : s \in SUBSET S
    OBVIOUS
  <2>4. ASSUME NEW s \in SUBSET A PROVE g[s] = Body(g, f, s)
    BY <2>1, <2>3
  <2>5. ASSUME NEW s \in SUBSET A PROVE h[s] = Body(h, f, s)
    BY <2>2
  <2> QED BY <2>4, <2>5
<1> HIDE DEF g, h
<1>3. SUFFICES ASSUME Bad # {} PROVE FALSE
  BY DEF g, h
<1>4. PICK s \in Bad : \A y \in Bad : y \subseteq s => y = s
  <2>1. Bad \subseteq SUBSET A
    OBVIOUS
  <2> HIDE DEF Bad
  <2> QED BY <1>1, <1>3, <2>1, MinimalSubset
<1>5. s # {}
  BY <1>2 DEF Body
<1>6. Pick(s) \in s
  BY <1>5 DEF Pick
<1>7. s \ {Pick(s)} \notin Bad /\ s \ {Pick(s)} \in SUBSET A
  BY <1>4, <1>6
<1>8. g[s \ {Pick(s)}] = h[s \ {Pick(s)}]
  BY <1>7
<1>9. s \in SUBSET A /\ g[s] # h[s]
  OBVIOUS
<1> QED BY <1>2, <1>5, <1>8, <1>9 DEF Body

\* The recursion a sum obeys.
LEMMA SumUnfolds ==
  ASSUME NEW S, IsFiniteSet(S), NEW f
  PROVE  SumOver(f, S) = IF S = {} THEN 0
                         ELSE f[Pick(S)] + SumOver(f, S \ {Pick(S)})
<1>1. Table(f, S)[S] = Body(Table(f, S), f, S)
  <2> DEFINE g == Table(f, S)
  <2>1. g = [s \in SUBSET S |-> Body(g, f, s)]
    BY TableExists
  <2> HIDE DEF g
  <2>2. g[S] = Body(g, f, S)
    BY <2>1
  <2> QED BY <2>2 DEF g
<1>2. CASE S = {}
  BY <1>1, <1>2, SumIsTable DEF Body
<1>3. CASE S # {}
  <2> DEFINE R == S \ {Pick(S)}
  <2>1. R \in SUBSET S
    OBVIOUS
  <2>2. Table(f, S)[R] = Table(f, R)[R]
    BY <2>1, TablesAgree
  <2>3. SumOver(f, R) = Table(f, R)[R] /\ SumOver(f, S) = Table(f, S)[S]
    BY SumIsTable
  <2> HIDE DEF R
  <2>4. Table(f, S)[S] = f[Pick(S)] + Table(f, S)[R]
    BY <1>1, <1>3 DEF Body, R
  <2>5. SumOver(f, S) = f[Pick(S)] + SumOver(f, R)
    BY <2>2, <2>3, <2>4
  <2> QED BY <2>5, <1>3 DEF R
<1> QED BY <1>2, <1>3

\* Nothing sums up to 0.
LEMMA SumEmpty ==
  ASSUME NEW f
  PROVE  SumOver(f, {}) = 0
BY SumUnfolds, FS_EmptySet

\* A sum of naturals is a natural.
LEMMA SumType ==
  ASSUME NEW S, IsFiniteSet(S), NEW f, \A x \in S : f[x] \in Nat
  PROVE  SumOver(f, S) \in Nat
<1> DEFINE Bad == {s \in SUBSET S : SumOver(f, s) \notin Nat}
<1>1. SUFFICES ASSUME Bad # {} PROVE FALSE
  OBVIOUS
<1>2. PICK s \in Bad : \A y \in Bad : y \subseteq s => y = s
  <2>1. Bad \subseteq SUBSET S
    OBVIOUS
  <2> HIDE DEF Bad
  <2> QED BY <1>1, <2>1, MinimalSubset
<1>3. SumOver(f, s) = IF s = {} THEN 0 ELSE f[Pick(s)] + SumOver(f, s \ {Pick(s)})
  BY FS_Subset, SumUnfolds
<1>4. s # {}
  BY <1>3
<1>5. Pick(s) \in s
  BY <1>4 DEF Pick
<1>6. SumOver(f, s \ {Pick(s)}) \in Nat
  BY <1>2, <1>5
<1> QED BY <1>3, <1>4, <1>5, <1>6

\* Any element may be taken out of a sum, not only the one the fold picks.
LEMMA SumRemove ==
  ASSUME NEW S, IsFiniteSet(S), NEW f, \A y \in S : f[y] \in Nat, NEW x \in S
  PROVE  SumOver(f, S) = f[x] + SumOver(f, S \ {x})
<1> DEFINE Bad == {s \in SUBSET S : \E y \in s : SumOver(f, s) # f[y] + SumOver(f, s \ {y})}
<1>1. SUFFICES ASSUME Bad # {} PROVE FALSE
  OBVIOUS
<1>2. PICK s \in Bad : \A t \in Bad : t \subseteq s => t = s
  <2>1. Bad \subseteq SUBSET S
    OBVIOUS
  <2> HIDE DEF Bad
  <2> QED BY <1>1, <2>1, MinimalSubset
<1>3. PICK y \in s : SumOver(f, s) # f[y] + SumOver(f, s \ {y})
  OBVIOUS
<1> DEFINE p == Pick(s)
<1>4. p \in s /\ SumOver(f, s) = f[p] + SumOver(f, s \ {p})
  BY FS_Subset, SumUnfolds DEF Pick
<1>5. y # p
  BY <1>3, <1>4
<1>6. SumOver(f, s \ {p}) = f[y] + SumOver(f, (s \ {p}) \ {y})
  BY <1>2, <1>4, <1>5
<1>7. SumOver(f, s \ {y}) = f[p] + SumOver(f, (s \ {y}) \ {p})
  BY <1>2, <1>4, <1>5
<1>8. (s \ {p}) \ {y} = (s \ {y}) \ {p}
  OBVIOUS
<1>9. SumOver(f, (s \ {p}) \ {y}) \in Nat
  <2>1. (s \ {p}) \ {y} \in SUBSET S
    OBVIOUS
  <2> QED BY <2>1, FS_Subset, SumType
<1>10. f[p] \in Nat /\ f[y] \in Nat
  BY <1>4
<1> HIDE DEF p
<1> QED BY <1>3, <1>4, <1>6, <1>7, <1>8, <1>9, <1>10

\* A sum depends on the values at the elements only.
LEMMA SumSame ==
  ASSUME NEW S, IsFiniteSet(S), NEW f, NEW g, \A x \in S : f[x] = g[x]
  PROVE  SumOver(f, S) = SumOver(g, S)
<1> DEFINE Bad == {s \in SUBSET S : SumOver(f, s) # SumOver(g, s)}
<1>1. SUFFICES ASSUME Bad # {} PROVE FALSE
  OBVIOUS
<1>2. PICK s \in Bad : \A t \in Bad : t \subseteq s => t = s
  <2>1. Bad \subseteq SUBSET S
    OBVIOUS
  <2> HIDE DEF Bad
  <2> QED BY <1>1, <2>1, MinimalSubset
<1>3. IsFiniteSet(s)
  BY FS_Subset
<1>4. /\ SumOver(f, s) = IF s = {} THEN 0 ELSE f[Pick(s)] + SumOver(f, s \ {Pick(s)})
      /\ SumOver(g, s) = IF s = {} THEN 0 ELSE g[Pick(s)] + SumOver(g, s \ {Pick(s)})
  BY <1>3, SumUnfolds
<1>5. s # {} /\ Pick(s) \in s
  BY <1>4 DEF Pick
<1>6. SumOver(f, s \ {Pick(s)}) = SumOver(g, s \ {Pick(s)})
  BY <1>2, <1>5
<1> QED BY <1>4, <1>5, <1>6

\* An element's value is part of the sum.
LEMMA SumAtLeast ==
  ASSUME NEW S, IsFiniteSet(S), NEW f, \A y \in S : f[y] \in Nat, NEW x \in S
  PROVE  f[x] <= SumOver(f, S)
<1>1. IsFiniteSet(S \ {x})
  BY FS_Subset
<1>2. SumOver(f, S \ {x}) \in Nat
  BY <1>1, SumType
<1> QED BY <1>2, SumRemove

\* One row joins a sum.
LEMMA SumJoins ==
  ASSUME NEW S, IsFiniteSet(S), NEW f, NEW g, NEW x, x \notin S,
         \A y \in S : f[y] = g[y] /\ f[y] \in Nat, g[x] \in Nat
  PROVE  SumOver(g, S \cup {x}) = SumOver(f, S) + g[x]
<1>1. IsFiniteSet(S \cup {x})
  BY FS_AddElement
<1>2. (S \cup {x}) \ {x} = S
  OBVIOUS
<1>3. SumOver(g, S \cup {x}) = g[x] + SumOver(g, S)
  BY <1>1, <1>2, SumRemove
<1>4. SumOver(g, S) = SumOver(f, S) /\ SumOver(f, S) \in Nat
  BY SumSame, SumType
<1> QED BY <1>3, <1>4

\* One row leaves a sum, which was at least its value.
LEMMA SumLeaves ==
  ASSUME NEW S, IsFiniteSet(S), NEW f, NEW g, NEW x \in S,
         \A y \in S : f[y] \in Nat, \A y \in S \ {x} : f[y] = g[y]
  PROVE  /\ SumOver(g, S \ {x}) = SumOver(f, S) - f[x]
         /\ SumOver(f, S) >= f[x]
<1>1. IsFiniteSet(S \ {x})
  BY FS_Subset
<1>2. SumOver(g, S \ {x}) = SumOver(f, S \ {x}) /\ SumOver(f, S \ {x}) \in Nat
  BY <1>1, SumSame, SumType
<1>3. SumOver(f, S) = f[x] + SumOver(f, S \ {x})
  BY SumRemove
<1> QED BY <1>2, <1>3

\* One row changes its value in a sum.
LEMMA SumChanges ==
  ASSUME NEW S, IsFiniteSet(S), NEW f, NEW g, NEW x \in S,
         \A y \in S : f[y] \in Nat /\ g[y] \in Nat, \A y \in S \ {x} : f[y] = g[y]
  PROVE  /\ SumOver(g, S) = SumOver(f, S) - f[x] + g[x]
         /\ SumOver(f, S) >= f[x]
<1>1. SumOver(g, S \ {x}) = SumOver(f, S) - f[x] /\ SumOver(f, S) >= f[x]
  BY SumLeaves
<1>2. SumOver(g, S) = g[x] + SumOver(g, S \ {x})
  BY SumRemove
<1>3. SumOver(f, S) \in Nat
  BY SumType
<1> QED BY <1>1, <1>2, <1>3

-----------------------------------------------------------------------------
(* Rows keep their types. *)

\* The column updates of a budget.
LEMMA BudgetRowUpdates ==
  ASSUME NEW row \in BudgetRow
  PROVE  /\ \A n \in Nat : [row EXCEPT !.reserved = n] \in BudgetRow
         /\ \A n \in Nat : [row EXCEPT !.spent = n] \in BudgetRow
         /\ [row EXCEPT !.elapsed = TRUE] \in BudgetRow
         /\ \A n, m \in Nat : [row EXCEPT !.reserved = n, !.spent = m] \in BudgetRow
         /\ \A n \in Nat, s \in {"active", "paused", "exceeded"} :
               [row EXCEPT !.limit = n, !.status = s] \in BudgetRow
<1>1. \A n \in Nat : [row EXCEPT !.reserved = n] \in BudgetRow
  BY DEF BudgetRow
<1>2. \A n \in Nat : [row EXCEPT !.spent = n] \in BudgetRow
  BY DEF BudgetRow
<1>3. [row EXCEPT !.elapsed = TRUE] \in BudgetRow
  BY DEF BudgetRow
<1>4. \A n, m \in Nat : [row EXCEPT !.reserved = n, !.spent = m] \in BudgetRow
  BY DEF BudgetRow
<1>5. \A n \in Nat, s \in {"active", "paused", "exceeded"} :
        [row EXCEPT !.limit = n, !.status = s] \in BudgetRow
  BY DEF BudgetRow
<1> QED BY <1>1, <1>2, <1>3, <1>4, <1>5

Statuses == {"none", "failed", "reserved", "committed", "released"}

\* The column updates of a reservation.
LEMMA ReservationRowUpdates ==
  ASSUME NEW row \in ReservationRow
  PROVE  /\ \A s \in Statuses : [row EXCEPT !.status = s] \in ReservationRow
         /\ \A s \in Statuses, n \in Nat :
               /\ [row EXCEPT !.status = s, !.est = n] \in ReservationRow
               /\ [row EXCEPT !.status = s, !.charged = n] \in ReservationRow
         /\ \A n \in Nat : [row EXCEPT !.charged = n] \in ReservationRow
         /\ \A o \in Settled : [row EXCEPT !.outcome = o] \in ReservationRow
<1> USE DEF Statuses
<1>1. \A s \in Statuses : [row EXCEPT !.status = s] \in ReservationRow
  BY DEF ReservationRow
<1>2. \A s \in Statuses, n \in Nat : [row EXCEPT !.status = s, !.est = n] \in ReservationRow
  BY DEF ReservationRow
<1>3. \A s \in Statuses, n \in Nat : [row EXCEPT !.status = s, !.charged = n] \in ReservationRow
  BY DEF ReservationRow
<1>4. \A n \in Nat : [row EXCEPT !.charged = n] \in ReservationRow
  BY DEF ReservationRow
<1>5. \A o \in Settled : [row EXCEPT !.outcome = o] \in ReservationRow
  BY DEF ReservationRow
<1> QED BY <1>1, <1>2, <1>3, <1>4, <1>5

\* The initial rows are typed.
LEMMA TypeInit == Init => TypeOK
<1> SUFFICES ASSUME Init PROVE TypeOK
  OBVIOUS
<1> USE LedgerAssumption DEF Init
<1>1. budget \in [Budgets -> BudgetRow]
  <2>1. \A n \in Limits : [status |-> "active", limit |-> n, reserved |-> 0, spent |-> 0,
                           elapsed |-> FALSE] \in BudgetRow
    BY DEF BudgetRow
  <2> QED BY <2>1
<1>2. rsv \in [Reservations -> ReservationRow]
  BY DEF ReservationRow
<1>3. (CHOOSE r \in Reservations : TRUE) \in Reservations
  OBVIOUS
<1>4. call \in [Calls -> [state : {"new", "calling", "reconcile", "done"}, rsv : Reservations]]
  BY <1>3
<1> QED BY <1>1, <1>2, <1>4 DEF TypeOK, NoEvents, EventSum

\* GREATEST(.., 0).
LEMMA FloorNat == \A n \in Int : Floor(n) \in Nat /\ Floor(n) >= n
BY DEF Floor

\* A new window clears spent, and nothing that is held.
LEMMA ResetType ==
  ASSUME NEW row \in BudgetRow
  PROVE  /\ Reset(row) \in BudgetRow
         /\ Reset(row).reserved = row.reserved
         /\ Reset(row).limit = row.limit
         /\ Reset(row).spent <= row.spent
         /\ ~row.elapsed => Reset(row) = row
         /\ row.status = "active" => Reset(row).status = "active"
         /\ ~Reset(row).elapsed
<1>1. Reset(row) \in BudgetRow
  BY DEF BudgetRow, Reset
<1>2. Reset(row).reserved = row.reserved /\ Reset(row).limit = row.limit
  BY DEF BudgetRow, Reset
<1>3. Reset(row).spent <= row.spent
  BY DEF BudgetRow, Reset
<1>4. ~row.elapsed => Reset(row) = row
  BY DEF Reset
<1>5. row.status = "active" => Reset(row).status = "active"
  BY DEF BudgetRow, Reset
<1>6. ~Reset(row).elapsed
  BY DEF BudgetRow, Reset
<1> QED BY <1>1, <1>2, <1>3, <1>4, <1>5, <1>6

\* What a finalization charges is an amount.
LEMMA ActualType ==
  ASSUME TypeOK, NEW r \in Reservations
  PROVE  ActualOf(r) \in Nat
BY DEF TypeOK, ReservationRow, EventSum, ActualOf

\* Recorded costs only add up.
LEMMA RecordType ==
  ASSUME TypeOK, NEW r \in Reservations, RecordEvent(r)
  PROVE  /\ events' \in [Reservations -> EventSum]
         /\ \A q \in Reservations : events[q].sum <= events'[q].sum
         /\ \A q \in Reservations : events[q].any => events'[q].any
<1> USE LedgerAssumption DEF TypeOK, EventSum
<1>1. CASE UNCHANGED events
  BY <1>1
<1>2. CASE \E a \in Amounts : events' = [events EXCEPT ![r] = [any |-> TRUE, sum |-> @.sum + a]]
  BY <1>2
<1> QED BY <1>1, <1>2 DEF RecordEvent

\* Every action keeps the types: the amounts stay naturals because every
\* subtraction of the code is floored.
LEMMA TypeStep == TypeOK /\ [Next]_vars => TypeOK'
<1> SUFFICES ASSUME TypeOK, [Next]_vars PROVE TypeOK'
  OBVIOUS
<1> USE LedgerAssumption
<1>1. CASE UNCHANGED vars
  BY <1>1 DEF vars, TypeOK
<1>2. ASSUME NEW r \in Reservations, Reserve(r) PROVE TypeOK'
  <2>1. PICK est \in Estimates, bs \in SUBSET Budgets :
          \/ /\ budget' = [b \in Budgets |->
                             IF b \in selectBudgets(bs)
                             THEN [Reset(budget[b]) EXCEPT !.reserved = @ + est]
                             ELSE budget[b]]
             /\ hold' = [hold EXCEPT ![r] = [b \in Budgets |->
                                 IF b \in selectBudgets(bs) THEN "reserved" ELSE "none"]]
             /\ rsv' = [rsv EXCEPT ![r].status = "reserved", ![r].est = est]
          \/ /\ rsv' = [rsv EXCEPT ![r].status = "failed", ![r].est = est]
             /\ hold' = hold
             /\ UNCHANGED budget
    BY <1>2 DEF Reserve, HoldsAfterDenial
  <2>2. est \in Nat
    OBVIOUS
  <2>3. budget' \in [Budgets -> BudgetRow]
    <3>1. \A b \in Budgets : Reset(budget[b]) \in BudgetRow /\ budget[b] \in BudgetRow
      BY ResetType DEF TypeOK
    <3>2. \A b \in Budgets : Reset(budget[b]).reserved + est \in Nat
      BY <2>2, <3>1 DEF BudgetRow
    <3>3. \A b \in Budgets : [Reset(budget[b]) EXCEPT !.reserved = @ + est] \in BudgetRow
      BY <3>1, <3>2, BudgetRowUpdates
    <3>4. CASE UNCHANGED budget
      BY <3>4 DEF TypeOK
    <3>5. CASE budget' = [b \in Budgets |->
                            IF b \in selectBudgets(bs)
                            THEN [Reset(budget[b]) EXCEPT !.reserved = @ + est]
                            ELSE budget[b]]
      BY <3>1, <3>3, <3>5
    <3> QED BY <2>1, <3>4, <3>5
  <2>4. rsv' \in [Reservations -> ReservationRow]
    <3>1. rsv[r] \in ReservationRow /\ "reserved" \in Statuses /\ "failed" \in Statuses
      BY DEF TypeOK, Statuses
    <3>2. /\ [rsv[r] EXCEPT !.status = "reserved", !.est = est] \in ReservationRow
          /\ [rsv[r] EXCEPT !.status = "failed", !.est = est] \in ReservationRow
      BY <2>2, <3>1, ReservationRowUpdates
    <3>3. CASE rsv' = [rsv EXCEPT ![r].status = "reserved", ![r].est = est]
      BY <3>2, <3>3 DEF TypeOK
    <3>4. CASE rsv' = [rsv EXCEPT ![r].status = "failed", ![r].est = est]
      BY <3>2, <3>4 DEF TypeOK
    <3> QED BY <2>1, <3>3, <3>4
  <2>5. hold' \in [Reservations -> [Budgets -> {"none", "reserved"} \cup Settled]]
    BY <2>1 DEF TypeOK
  <2> QED BY <1>2, <2>3, <2>4, <2>5 DEF Reserve, TypeOK
<1>3. ASSUME NEW r \in Reservations, ReserveUnpriced(r) PROVE TypeOK'
  BY <1>3, ReservationRowUpdates DEF Statuses, ReserveUnpriced, TypeOK
<1>4. ASSUME NEW r \in Reservations, JobEnds(r) PROVE TypeOK'
  <2>1. PICK target \in Settled : rsv' = [rsv EXCEPT ![r].outcome = target]
    BY <1>4 DEF JobEnds
  <2>2. [rsv[r] EXCEPT !.outcome = target] \in ReservationRow
    BY ReservationRowUpdates DEF TypeOK
  <2>3. rsv' \in [Reservations -> ReservationRow]
    BY <2>1, <2>2 DEF TypeOK
  <2> QED BY <1>4, <2>3 DEF JobEnds, TypeOK
<1>5. ASSUME NEW r \in Reservations, BeginFinalize(r) PROVE TypeOK'
  BY <1>5 DEF BeginFinalize, TypeOK
<1>6. ASSUME NEW r \in Reservations, EndFinalize(r) PROVE TypeOK'
  <2>1. ActualOf(r) \in Nat /\ rsv[r].est \in Nat
    BY ActualType DEF TypeOK, ReservationRow
  <2>2. rsv' \in [Reservations -> ReservationRow]
    <3>1. rsv[r].outcome \in {"none", "failed", "reserved", "committed", "released"}
      BY DEF TypeOK, ReservationRow, Settled
    <3> QED BY <1>6, <2>1, <3>1, ReservationRowUpdates DEF Statuses, EndFinalize, TypeOK
  <2>3. budget' \in [Budgets -> BudgetRow]
    <3>1. ASSUME NEW b \in Budgets PROVE SettledRow(budget[b], rsv[r].est, ActualOf(r)) \in BudgetRow
      <4>1. budget[b] \in BudgetRow
        BY DEF TypeOK
      <4>2. Floor(budget[b].reserved - rsv[r].est) \in Nat /\ budget[b].spent + ActualOf(r) \in Nat
        BY <2>1, <4>1, FloorNat DEF BudgetRow
      <4> QED BY <4>1, <4>2, BudgetRowUpdates DEF SettledRow
    <3> QED BY <1>6, <3>1 DEF EndFinalize, TypeOK
  <2>4. hold' \in [Reservations -> [Budgets -> {"none", "reserved"} \cup Settled]]
    BY <1>6 DEF EndFinalize, TypeOK, ReservationRow
  <2>5. over' \in [Budgets -> Nat]
    BY <1>6, <2>1, FloorNat DEF EndFinalize, TypeOK
  <2>6. fin' \in [Reservations -> [open : BOOLEAN, seen : EventSum]]
    BY <1>6 DEF EndFinalize, TypeOK, NoEvents, EventSum
  <2> QED BY <1>6, <2>2, <2>3, <2>4, <2>5, <2>6 DEF EndFinalize, TypeOK
<1>7. ASSUME NEW c \in Calls, StartCall(c) PROVE TypeOK'
  BY <1>7 DEF StartCall, TypeOK
<1>8. ASSUME NEW c \in Calls, PersistedSuccess(c) PROVE TypeOK'
  <2>1. call[c].rsv \in Reservations
    BY DEF TypeOK
  <2> QED BY <1>8, <2>1, RecordType DEF PersistedSuccess, TypeOK
<1>9. ASSUME NEW c \in Calls, DiscardedSuccess(c) PROVE TypeOK'
  <2>1. call[c].rsv \in Reservations
    BY DEF TypeOK
  <2> QED BY <1>9, <2>1, RecordType DEF DiscardedSuccess, TypeOK
<1>10. ASSUME NEW c \in Calls, FailedCall(c) PROVE TypeOK'
  <2>1. call[c].rsv \in Reservations
    BY DEF TypeOK
  <2> QED BY <1>10, <2>1, RecordType DEF FailedCall, TypeOK
<1>11. ASSUME NEW c \in Calls, ReconcileForReservation(c) PROVE TypeOK'
  <2> DEFINE r == call[c].rsv
  <2>1. r \in Reservations
    BY DEF TypeOK
  <2> HIDE DEF r
  <2>2. Delta(r) \in Int /\ Recharged(r) \in Nat
    BY <2>1 DEF TypeOK, EventSum, ReservationRow, Delta, Recharged
  <2>0. \/ /\ rsv' = [rsv EXCEPT ![r].charged = Recharged(r)]
           /\ budget' = [b \in Budgets |-> IF hold[r][b] \in Settled
                                           THEN AdjustedRow(budget[b], Delta(r)) ELSE budget[b]]
           /\ over' = [b \in Budgets |-> IF hold[r][b] \in Settled
                                         THEN over[b] + Floor(Delta(r)) ELSE over[b]]
        \/ UNCHANGED <<rsv, budget, over>>
    BY <1>11 DEF ReconcileForReservation, r
  <2>3. rsv' \in [Reservations -> ReservationRow]
    <3>1. [rsv[r] EXCEPT !.charged = Recharged(r)] \in ReservationRow
      BY <2>1, <2>2, ReservationRowUpdates DEF TypeOK
    <3>2. CASE UNCHANGED rsv
      BY <3>2 DEF TypeOK
    <3>3. CASE rsv' = [rsv EXCEPT ![r].charged = Recharged(r)]
      BY <2>1, <3>1, <3>3 DEF TypeOK
    <3> QED BY <2>0, <3>2, <3>3
  <2>4. budget' \in [Budgets -> BudgetRow]
    <3>1. ASSUME NEW b \in Budgets PROVE AdjustedRow(budget[b], Delta(r)) \in BudgetRow
      <4>1. budget[b] \in BudgetRow
        BY DEF TypeOK
      <4>2. Floor(budget[b].spent + Delta(r)) \in Nat
        BY <2>2, <4>1, FloorNat DEF BudgetRow
      <4> QED BY <4>1, <4>2, BudgetRowUpdates DEF AdjustedRow
    <3> QED BY <2>0, <3>1 DEF TypeOK
  <2>5. over' \in [Budgets -> Nat]
    <3>1. Floor(Delta(r)) \in Nat
      BY <2>2, FloorNat
    <3> QED BY <2>0, <3>1 DEF TypeOK
  <2> QED BY <1>11, <2>3, <2>4, <2>5 DEF ReconcileForReservation, TypeOK
<1>12. ASSUME NEW b \in Budgets, UpdateBudget(b) PROVE TypeOK'
  <2>1. budget' \in [Budgets -> BudgetRow]
    <3>1. PICK limit \in Limits, status \in {"active", "paused", "exceeded"} :
            budget' = [budget EXCEPT ![b].limit = limit, ![b].status = status]
      BY <1>12 DEF UpdateBudget
    <3>2. [budget[b] EXCEPT !.limit = limit, !.status = status] \in BudgetRow
      <4>1. limit \in Nat /\ budget[b] \in BudgetRow
        BY DEF TypeOK
      <4> QED BY <4>1, BudgetRowUpdates
    <3> QED BY <3>1, <3>2 DEF TypeOK
  <2> QED BY <1>12, <2>1 DEF UpdateBudget, TypeOK
<1>13. ASSUME NEW b \in Budgets, WindowElapses(b) PROVE TypeOK'
  <2>1. budget' \in [Budgets -> BudgetRow]
    BY <1>13, BudgetRowUpdates DEF WindowElapses, TypeOK
  <2> QED BY <1>13, <2>1 DEF WindowElapses, TypeOK
<1> QED BY <1>1, <1>2, <1>3, <1>4, <1>5, <1>6, <1>7, <1>8, <1>9, <1>10, <1>11, <1>12,
           <1>13 DEF Next

\* Every variable keeps its type and no amount goes negative, whatever is
\* reserved, finalized and reconciled.
THEOREM TypeCorrect == Spec => []TypeOK
BY TypeInit, TypeStep, PTL DEF Spec

-----------------------------------------------------------------------------
(* What the three actions that move money do, row by row. *)

\* Reserve: all enforced budgets, or none.
LEMMA ReserveEffect ==
  ASSUME TypeOK, NEW r \in Reservations, Reserve(r)
  PROVE  /\ rsv[r].status = "none"
         /\ UNCHANGED <<fin, events, call, over, updates, windows>>
         /\ \A q \in Reservations : q # r => rsv'[q] = rsv[q] /\ hold'[q] = hold[q]
         /\ rsv'[r].charged = rsv[r].charged /\ rsv'[r].outcome = rsv[r].outcome
         /\ rsv'[r].est \in Nat
         /\ \/ /\ rsv'[r].status = "failed" /\ hold'[r] = hold[r]
               /\ UNCHANGED budget
            \/ /\ rsv'[r].status = "reserved"
               /\ \A b \in Budgets :
                    \/ /\ hold'[r][b] = "none"
                       /\ budget'[b] = budget[b]
                    \/ /\ hold'[r][b] = "reserved"
                       /\ Admits(Reset(budget[b]), rsv'[r].est)
                       /\ budget'[b] = [Reset(budget[b]) EXCEPT !.reserved = @ + rsv'[r].est]
<1> USE LedgerAssumption
<1>1. PICK est \in Estimates, bs \in SUBSET Budgets :
        \/ /\ \A b \in selectBudgets(bs) : Admits(Reset(budget[b]), est)
           /\ budget' = [b \in Budgets |->
                           IF b \in selectBudgets(bs)
                           THEN [Reset(budget[b]) EXCEPT !.reserved = @ + est]
                           ELSE budget[b]]
           /\ hold' = [hold EXCEPT ![r] = [b \in Budgets |->
                               IF b \in selectBudgets(bs) THEN "reserved" ELSE "none"]]
           /\ rsv' = [rsv EXCEPT ![r].status = "reserved", ![r].est = est]
        \/ /\ rsv' = [rsv EXCEPT ![r].status = "failed", ![r].est = est]
           /\ hold' = hold
           /\ UNCHANGED budget
  BY DEF Reserve, HoldsAfterDenial
<1>2. rsv[r].status = "none" /\ UNCHANGED <<fin, events, call, over, updates, windows>>
  BY DEF Reserve
<1>3. est \in Nat /\ rsv[r] \in ReservationRow
  BY DEF TypeOK
<1>4. CASE /\ rsv' = [rsv EXCEPT ![r].status = "failed", ![r].est = est]
           /\ hold' = hold
           /\ UNCHANGED budget
  BY <1>2, <1>3, <1>4 DEF TypeOK, ReservationRow
<1>5. CASE /\ \A b \in selectBudgets(bs) : Admits(Reset(budget[b]), est)
           /\ budget' = [b \in Budgets |->
                           IF b \in selectBudgets(bs)
                           THEN [Reset(budget[b]) EXCEPT !.reserved = @ + est]
                           ELSE budget[b]]
           /\ hold' = [hold EXCEPT ![r] = [b \in Budgets |->
                               IF b \in selectBudgets(bs) THEN "reserved" ELSE "none"]]
           /\ rsv' = [rsv EXCEPT ![r].status = "reserved", ![r].est = est]
  <2>1. /\ rsv'[r].charged = rsv[r].charged /\ rsv'[r].outcome = rsv[r].outcome
        /\ rsv'[r].est = est /\ rsv'[r].status = "reserved"
        /\ \A q \in Reservations : q # r => rsv'[q] = rsv[q]
    BY <1>3, <1>5 DEF TypeOK, ReservationRow
  <2>2. /\ \A q \in Reservations : q # r => hold'[q] = hold[q]
        /\ \A b \in Budgets : hold'[r][b] = IF b \in selectBudgets(bs) THEN "reserved" ELSE "none"
    BY <1>5 DEF TypeOK
  <2>3. ASSUME NEW b \in Budgets
        PROVE  \/ /\ hold'[r][b] = "none"
                  /\ budget'[b] = budget[b]
               \/ /\ hold'[r][b] = "reserved"
                  /\ Admits(Reset(budget[b]), est)
                  /\ budget'[b] = [Reset(budget[b]) EXCEPT !.reserved = @ + est]
    BY <1>5, <2>2
  <2> QED BY <1>2, <1>3, <2>1, <2>2, <2>3
<1> QED BY <1>1, <1>4, <1>5

\* The end of a finalization: the holds of one reservation are settled.
LEMMA EndFinalizeEffect ==
  ASSUME TypeOK, NEW r \in Reservations, EndFinalize(r)
  PROVE  /\ fin[r].open
         /\ UNCHANGED <<events, call, updates, windows>>
         /\ \A q \in Reservations : q # r => /\ rsv'[q] = rsv[q] /\ hold'[q] = hold[q]
                                             /\ fin'[q] = fin[q]
         /\ ~fin'[r].open /\ fin'[r].seen.sum = 0
         /\ rsv'[r].status = rsv[r].outcome /\ rsv'[r].outcome = rsv[r].outcome
         /\ rsv'[r].est = rsv[r].est /\ rsv'[r].charged = ActualOf(r)
         /\ \A b \in Budgets :
              \/ /\ hold[r][b] # "reserved" /\ hold'[r][b] = hold[r][b]
                 /\ budget'[b] = budget[b] /\ over'[b] = over[b]
              \/ /\ hold[r][b] = "reserved" /\ hold'[r][b] = rsv[r].outcome
                 /\ budget'[b] = SettledRow(budget[b], rsv[r].est, ActualOf(r))
                 /\ over'[b] = over[b] + Floor(ActualOf(r) - rsv[r].est)
<1>1. /\ rsv'[r].status = rsv[r].outcome /\ rsv'[r].outcome = rsv[r].outcome
      /\ rsv'[r].est = rsv[r].est /\ rsv'[r].charged = ActualOf(r)
      /\ \A q \in Reservations : q # r => rsv'[q] = rsv[q]
  <2>1. rsv' = [rsv EXCEPT ![r].status = rsv[r].outcome, ![r].charged = ActualOf(r)]
    BY DEF EndFinalize
  <2>2. rsv[r] \in ReservationRow
    BY DEF TypeOK
  <2> QED BY <2>1, <2>2 DEF TypeOK, ReservationRow
<1>2. /\ fin[r].open /\ ~fin'[r].open /\ fin'[r].seen.sum = 0
      /\ \A q \in Reservations : q # r => fin'[q] = fin[q]
  BY DEF EndFinalize, TypeOK, NoEvents
<1>3. \A q \in Reservations : q # r => hold'[q] = hold[q]
  BY DEF EndFinalize, TypeOK
<1>4. ASSUME NEW b \in Budgets
      PROVE  \/ /\ hold[r][b] # "reserved" /\ hold'[r][b] = hold[r][b]
                /\ budget'[b] = budget[b] /\ over'[b] = over[b]
             \/ /\ hold[r][b] = "reserved" /\ hold'[r][b] = rsv[r].outcome
                /\ budget'[b] = SettledRow(budget[b], rsv[r].est, ActualOf(r))
                /\ over'[b] = over[b] + Floor(ActualOf(r) - rsv[r].est)
  <2>1. hold'[r][b] = IF hold[r][b] = "reserved" THEN rsv[r].outcome ELSE hold[r][b]
    BY DEF EndFinalize, TypeOK
  <2>2. /\ budget'[b] = IF hold[r][b] = "reserved"
                        THEN SettledRow(budget[b], rsv[r].est, ActualOf(r)) ELSE budget[b]
        /\ over'[b] = IF hold[r][b] = "reserved"
                      THEN over[b] + Floor(ActualOf(r) - rsv[r].est) ELSE over[b]
    BY DEF EndFinalize
  <2> QED BY <2>1, <2>2
<1>5. UNCHANGED <<events, call, updates, windows>>
  BY DEF EndFinalize
<1> QED BY <1>1, <1>2, <1>3, <1>4, <1>5

\* Of a reconciliation that charges something.
LEMMA ReconcileEffect ==
  ASSUME TypeOK, NEW c \in Calls, ReconcileForReservation(c)
  PROVE  /\ UNCHANGED <<hold, fin, events, updates, windows>>
         /\ \/ UNCHANGED <<rsv, budget, over>>
            \/ \E r \in Reservations :
                 /\ rsv[r].status \in Settled
                 /\ \A q \in Reservations : q # r => rsv'[q] = rsv[q]
                 /\ rsv'[r].status = rsv[r].status /\ rsv'[r].outcome = rsv[r].outcome
                 /\ rsv'[r].est = rsv[r].est /\ rsv'[r].charged = events[r].sum
                 /\ \A b \in Budgets :
                      \/ /\ hold[r][b] \notin Settled
                         /\ budget'[b] = budget[b] /\ over'[b] = over[b]
                      \/ /\ hold[r][b] \in Settled
                         /\ budget'[b] = AdjustedRow(budget[b], Delta(r))
                         /\ over'[b] = over[b] + Floor(Delta(r))
<1> DEFINE r == call[c].rsv
<1>1. r \in Reservations
  BY DEF TypeOK
<1>2. UNCHANGED <<hold, fin, events, updates, windows>>
  BY DEF ReconcileForReservation
<1>3. \/ /\ rsv[r].status \in Settled
         /\ rsv' = [rsv EXCEPT ![r].charged = Recharged(r)]
         /\ budget' = [b \in Budgets |-> IF hold[r][b] \in Settled
                                         THEN AdjustedRow(budget[b], Delta(r)) ELSE budget[b]]
         /\ over' = [b \in Budgets |-> IF hold[r][b] \in Settled
                                       THEN over[b] + Floor(Delta(r)) ELSE over[b]]
      \/ UNCHANGED <<rsv, budget, over>>
  BY DEF ReconcileForReservation
<1> HIDE DEF r
<1>4. CASE UNCHANGED <<rsv, budget, over>>
  BY <1>2, <1>4
<1>5. CASE /\ rsv[r].status \in Settled
           /\ rsv' = [rsv EXCEPT ![r].charged = Recharged(r)]
           /\ budget' = [b \in Budgets |-> IF hold[r][b] \in Settled
                                           THEN AdjustedRow(budget[b], Delta(r)) ELSE budget[b]]
           /\ over' = [b \in Budgets |-> IF hold[r][b] \in Settled
                                         THEN over[b] + Floor(Delta(r)) ELSE over[b]]
  <2>1. rsv[r] \in ReservationRow
    BY <1>1 DEF TypeOK
  <2>2. /\ rsv'[r].status = rsv[r].status /\ rsv'[r].outcome = rsv[r].outcome
        /\ rsv'[r].est = rsv[r].est /\ rsv'[r].charged = events[r].sum
        /\ \A q \in Reservations : q # r => rsv'[q] = rsv[q]
    BY <1>1, <1>5, <2>1 DEF TypeOK, ReservationRow, Recharged
  <2>3. ASSUME NEW b \in Budgets
        PROVE  \/ /\ hold[r][b] \notin Settled
                  /\ budget'[b] = budget[b] /\ over'[b] = over[b]
               \/ /\ hold[r][b] \in Settled
                  /\ budget'[b] = AdjustedRow(budget[b], Delta(r))
                  /\ over'[b] = over[b] + Floor(Delta(r))
    BY <1>5
  <2> QED BY <1>1, <1>2, <1>5, <2>2, <2>3
<1> QED BY <1>3, <1>4, <1>5

-----------------------------------------------------------------------------
(* Who finalizes, and when amounts are charged. *)

\* An open finalizing transaction is the only one that may move its reservation
\* on: the row lock.
FinalizerOwns ==
  \A r \in Reservations :
    fin[r].open => rsv[r].status = "reserved" /\ rsv[r].outcome \in Settled

\* What a finalizer summed up is part of what is recorded now.
SeenIsPast == \A r \in Reservations : fin[r].seen.sum <= events[r].sum

\* Nothing is charged before a reservation is settled.
ChargedOnceSettled ==
  \A r \in Reservations : rsv[r].status \notin Settled => rsv[r].charged = 0

\* A budget's window elapses through the clock only.
ResetsNeedWindows == windows = 0 => \A b \in Budgets : ~budget[b].elapsed

\* A budget stops enforcing its limit through an admin only.
AdminsPause == updates = 0 => \A b \in Budgets : budget[b].status = "active"

\* The part of the inductive invariant that needs no sums.
ControlInv ==
  /\ TypeOK /\ FinalizerOwns /\ SeenIsPast /\ ChargedOnceSettled
  /\ ResetsNeedWindows /\ AdminsPause /\ HoldsFollowReservation /\ NeverOvercharged

\* It holds initially ...
LEMMA ControlInit == Init => ControlInv
<1> SUFFICES ASSUME Init PROVE ControlInv
  OBVIOUS
<1> USE DEF Init
<1>1. FinalizerOwns /\ SeenIsPast
  BY DEF FinalizerOwns, SeenIsPast, NoEvents
<1>2. ChargedOnceSettled /\ NeverOvercharged
  BY DEF ChargedOnceSettled, NeverOvercharged
<1>3. ResetsNeedWindows /\ AdminsPause
  BY DEF ResetsNeedWindows, AdminsPause
<1>4. HoldsFollowReservation
  BY DEF HoldsFollowReservation
<1> QED BY <1>1, <1>2, <1>3, <1>4, TypeInit DEF ControlInv

\* An event is all a call can leave behind before it reconciles.
LEMMA EventStep ==
  ASSUME NEW c \in Calls, TypeOK,
         PersistedSuccess(c) \/ DiscardedSuccess(c) \/ FailedCall(c)
  PROVE  /\ UNCHANGED <<budget, rsv, hold, fin, over, updates, windows>>
         /\ \A q \in Reservations : events[q].sum <= events'[q].sum
<1>1. call[c].rsv \in Reservations
  BY DEF TypeOK
<1> QED BY <1>1, RecordType DEF PersistedSuccess, DiscardedSuccess, FailedCall

\* A denied price and the end of a job move the status, and no amount.
LEMMA ReservationStep ==
  ASSUME TypeOK, NEW r \in Reservations, ReserveUnpriced(r) \/ JobEnds(r)
  PROVE  /\ UNCHANGED <<budget, hold, fin, events, call, over, updates, windows>>
         /\ \A q \in Reservations : q # r => rsv'[q] = rsv[q]
         /\ rsv'[r].charged = rsv[r].charged /\ rsv'[r].est = rsv[r].est
         /\ \/ /\ rsv[r].status = "none" /\ rsv'[r].status = "failed"
            \/ /\ rsv[r].status = "reserved" /\ rsv'[r].status = "reserved"
               /\ rsv[r].outcome = "none" /\ rsv'[r].outcome \in Settled
<1>1. rsv[r] \in ReservationRow
  BY DEF TypeOK
<1>2. CASE ReserveUnpriced(r)
  BY <1>1, <1>2 DEF ReserveUnpriced, TypeOK, ReservationRow
<1>3. CASE JobEnds(r)
  BY <1>1, <1>3 DEF JobEnds, TypeOK, ReservationRow
<1> QED BY <1>2, <1>3

\* ... and every action preserves it.
LEMMA ControlStep == ControlInv /\ [Next]_vars => ControlInv'
<1> SUFFICES ASSUME ControlInv, [Next]_vars PROVE ControlInv'
  OBVIOUS
<1> USE DEF FinalizerOwns, SeenIsPast, ChargedOnceSettled, ResetsNeedWindows, AdminsPause,
            HoldsFollowReservation, NeverOvercharged
<1>0. TypeOK /\ TypeOK'
  BY TypeStep DEF ControlInv
<1> DEFINE Rest == /\ FinalizerOwns /\ SeenIsPast /\ ChargedOnceSettled
                   /\ ResetsNeedWindows /\ AdminsPause /\ HoldsFollowReservation
                   /\ NeverOvercharged
<1> SUFFICES Rest'
  BY <1>0 DEF ControlInv
<1>1. CASE UNCHANGED vars
  BY <1>1 DEF vars, ControlInv
<1>2. ASSUME NEW r \in Reservations, Reserve(r) PROVE Rest'
  <2>1. rsv[r].charged = 0 /\ \A b \in Budgets : hold[r][b] = "none"
    BY <1>2, <1>0, ReserveEffect DEF ControlInv, Settled
  <2>2. FinalizerOwns' /\ SeenIsPast'
    BY <1>2, <1>0, ReserveEffect DEF ControlInv
  <2>3. ChargedOnceSettled' /\ NeverOvercharged'
    <3>1. rsv'[r].charged = 0 /\ rsv'[r].charged <= rsv'[r].est
      BY <1>2, <1>0, <2>1, ReserveEffect
    <3>2. \A q \in Reservations : q # r => rsv'[q] = rsv[q] /\ events'[q] = events[q]
      BY <1>2, <1>0, ReserveEffect
    <3> QED BY <3>1, <3>2 DEF ControlInv
  <2>4. HoldsFollowReservation'
    <3>1. ASSUME NEW b \in Budgets PROVE hold'[r][b] \in {"none", rsv'[r].status}
      <4>1. \/ hold'[r] = hold[r]
            \/ rsv'[r].status = "reserved" /\ hold'[r][b] \in {"none", "reserved"}
        BY <1>2, <1>0, ReserveEffect
      <4> QED BY <2>1, <4>1
    <3>2. \A q \in Reservations : q # r => rsv'[q] = rsv[q] /\ hold'[q] = hold[q]
      BY <1>2, <1>0, ReserveEffect
    <3> QED BY <3>1, <3>2 DEF ControlInv
  <2>5. ASSUME NEW b \in Budgets
        PROVE  /\ ~budget[b].elapsed => ~budget'[b].elapsed
               /\ budget[b].status = "active" => budget'[b].status = "active"
    <3>1. budget[b] \in BudgetRow
      BY <1>0 DEF TypeOK
    <3>2. CASE budget'[b] = budget[b]
      BY <3>2
    <3>3. CASE budget'[b] = [Reset(budget[b]) EXCEPT !.reserved = @ + rsv'[r].est]
      <4>1. Reset(budget[b]) \in BudgetRow
        BY <3>1, ResetType
      <4>2. /\ budget'[b].elapsed = Reset(budget[b]).elapsed
            /\ budget'[b].status = Reset(budget[b]).status
        BY <3>3, <4>1 DEF BudgetRow
      <4> QED BY <3>1, <4>2, ResetType
    <3> QED BY <1>2, <1>0, <3>2, <3>3, ReserveEffect
  <2>6. ResetsNeedWindows' /\ AdminsPause'
    BY <1>2, <1>0, <2>5, ReserveEffect DEF ControlInv
  <2> QED BY <2>2, <2>3, <2>4, <2>6
<1>3. ASSUME NEW r \in Reservations, ReserveUnpriced(r) \/ JobEnds(r) PROVE Rest'
  <2>1. FinalizerOwns' /\ SeenIsPast'
    BY <1>3, <1>0, ReservationStep DEF ControlInv
  <2>2. ChargedOnceSettled' /\ NeverOvercharged'
    BY <1>3, <1>0, ReservationStep DEF ControlInv, Settled
  <2>3. HoldsFollowReservation'
    <3>1. rsv[r].status = "none" => \A b \in Budgets : hold[r][b] = "none"
      BY DEF ControlInv
    <3> QED BY <1>3, <1>0, <3>1, ReservationStep DEF ControlInv
  <2>4. ResetsNeedWindows' /\ AdminsPause'
    BY <1>3, <1>0, ReservationStep DEF ControlInv
  <2> QED BY <2>1, <2>2, <2>3, <2>4
<1>4. ASSUME NEW r \in Reservations, BeginFinalize(r) PROVE Rest'
  <2>1. rsv[r].outcome \in Settled
    BY <1>0, <1>4 DEF BeginFinalize, TypeOK, ReservationRow
  <2>2. FinalizerOwns'
    BY <1>0, <1>4, <2>1 DEF BeginFinalize, MayFinalize, ControlInv, TypeOK
  <2>3. events[r].sum \in Nat
    BY <1>0 DEF TypeOK, EventSum
  <2>4. SeenIsPast'
    BY <1>0, <1>4, <2>3 DEF BeginFinalize, ControlInv, TypeOK
  <2> QED BY <1>4, <2>2, <2>4 DEF BeginFinalize, ControlInv
<1>5. ASSUME NEW r \in Reservations, EndFinalize(r) PROVE Rest'
  <2>1. /\ rsv[r].outcome \in Settled /\ rsv[r].status = "reserved"
        /\ fin[r].seen.sum <= events[r].sum
    BY <1>5, <1>0, EndFinalizeEffect DEF ControlInv
  <2>2. /\ rsv[r].est \in Nat /\ events[r].sum \in Nat /\ fin[r].seen.sum \in Nat
    BY <1>0 DEF TypeOK, ReservationRow, EventSum
  <2>3. ActualOf(r) <= rsv[r].est \/ ActualOf(r) <= events[r].sum
    BY <2>1, <2>2 DEF ActualOf
  <2>4. FinalizerOwns' /\ SeenIsPast'
    BY <1>5, <1>0, <2>2, EndFinalizeEffect DEF ControlInv
  <2>5. ChargedOnceSettled' /\ NeverOvercharged'
    BY <1>5, <1>0, <2>1, <2>3, EndFinalizeEffect DEF ControlInv
  <2>6. HoldsFollowReservation'
    BY <1>5, <1>0, <2>1, EndFinalizeEffect DEF ControlInv
  <2>7. ASSUME NEW b \in Budgets
        PROVE  /\ budget'[b].elapsed = budget[b].elapsed
               /\ budget'[b].status = budget[b].status
    <3>1. budget[b] \in BudgetRow
      BY <1>0 DEF TypeOK
    <3>2. \/ budget'[b] = budget[b]
          \/ budget'[b] = SettledRow(budget[b], rsv[r].est, ActualOf(r))
      BY <1>5, <1>0, EndFinalizeEffect
    <3> QED BY <3>1, <3>2 DEF BudgetRow, SettledRow
  <2>8. ResetsNeedWindows' /\ AdminsPause'
    BY <1>5, <1>0, <2>7, EndFinalizeEffect DEF ControlInv
  <2> QED BY <2>4, <2>5, <2>6, <2>8
<1>6. ASSUME NEW c \in Calls, StartCall(c) PROVE Rest'
  BY <1>6 DEF StartCall, ControlInv
<1>7. ASSUME NEW c \in Calls, PersistedSuccess(c) \/ DiscardedSuccess(c) \/ FailedCall(c)
      PROVE  Rest'
  <2>1. \A q \in Reservations : /\ events[q].sum \in Nat /\ events'[q].sum \in Nat
                                /\ fin[q].seen.sum \in Nat /\ rsv[q].charged \in Nat
    BY <1>0 DEF TypeOK, EventSum, ReservationRow
  <2>2. SeenIsPast' /\ NeverOvercharged'
    BY <1>7, <1>0, <2>1, EventStep DEF ControlInv
  <2> QED BY <1>7, <1>0, <2>2, EventStep DEF ControlInv
<1>8. ASSUME NEW c \in Calls, ReconcileForReservation(c) PROVE Rest'
  <2>1. FinalizerOwns' /\ SeenIsPast'
    BY <1>8, <1>0, ReconcileEffect DEF ControlInv
  <2>2. ChargedOnceSettled'
    BY <1>8, <1>0, ReconcileEffect DEF ControlInv
  <2>3. \A q \in Reservations : events[q].sum \in Nat
    BY <1>0 DEF TypeOK, EventSum
  <2>4. NeverOvercharged'
    BY <1>8, <1>0, <2>3, ReconcileEffect DEF ControlInv
  <2>5. HoldsFollowReservation'
    BY <1>8, <1>0, ReconcileEffect DEF ControlInv
  <2>6. ASSUME NEW b \in Budgets
        PROVE  /\ budget'[b].elapsed = budget[b].elapsed
               /\ budget'[b].status = budget[b].status
    <3>1. budget[b] \in BudgetRow
      BY <1>0 DEF TypeOK
    <3>2. \/ budget'[b] = budget[b]
          \/ \E r \in Reservations : budget'[b] = AdjustedRow(budget[b], Delta(r))
      BY <1>8, <1>0, ReconcileEffect
    <3> QED BY <3>1, <3>2 DEF BudgetRow, AdjustedRow
  <2>7. ResetsNeedWindows' /\ AdminsPause'
    BY <1>8, <1>0, <2>6, ReconcileEffect DEF ControlInv
  <2> QED BY <2>1, <2>2, <2>4, <2>5, <2>7
<1>9. ASSUME NEW b \in Budgets, UpdateBudget(b) PROVE Rest'
  <2>1. updates' # 0
    BY <1>0, <1>9, LedgerAssumption DEF UpdateBudget, TypeOK
  <2>2. \A a \in Budgets : budget'[a].elapsed = budget[a].elapsed
    BY <1>0, <1>9 DEF UpdateBudget, TypeOK, BudgetRow
  <2> QED BY <1>9, <2>1, <2>2 DEF UpdateBudget, ControlInv
<1>10. ASSUME NEW b \in Budgets, WindowElapses(b) PROVE Rest'
  <2>1. windows' # 0
    BY <1>0, <1>10, LedgerAssumption DEF WindowElapses, TypeOK
  <2>2. \A a \in Budgets : budget'[a].status = budget[a].status
    BY <1>0, <1>10 DEF WindowElapses, TypeOK, BudgetRow
  <2> QED BY <1>10, <2>1, <2>2 DEF WindowElapses, ControlInv
<1> HIDE DEF Rest
<1> QED BY <1>1, <1>2, <1>3, <1>4, <1>5, <1>6, <1>7, <1>8, <1>9, <1>10 DEF Next

-----------------------------------------------------------------------------
(* The books. *)

\* The reservations that hold, or were charged to, a budget.
Live(b) == HeldBy(b, {"reserved"})
Paid(b) == HeldBy(b, Settled)

\* Both sums range over finitely many naturals.
LEMMA SumTypes ==
  ASSUME TypeOK, NEW b \in Budgets
  PROVE  /\ IsFiniteSet(Live(b)) /\ IsFiniteSet(Paid(b))
         /\ \A r \in Reservations : Estimated[r] = rsv[r].est /\ Charged[r] = rsv[r].charged
         /\ \A r \in Reservations : Estimated[r] \in Nat /\ Charged[r] \in Nat
         /\ budget[b] \in BudgetRow
         /\ budget[b].reserved \in Nat /\ budget[b].spent \in Nat /\ budget[b].limit \in Nat
<1>1. Live(b) \subseteq Reservations /\ Paid(b) \subseteq Reservations
  BY DEF Live, Paid, HeldBy
<1>2. IsFiniteSet(Live(b)) /\ IsFiniteSet(Paid(b))
  BY <1>1, FS_Subset, LedgerAssumption
<1>3. \A r \in Reservations : rsv[r].est \in Nat /\ rsv[r].charged \in Nat
  BY DEF TypeOK, ReservationRow
<1>4. budget[b] \in BudgetRow
  BY DEF TypeOK
<1>5. budget[b].reserved \in Nat /\ budget[b].spent \in Nat /\ budget[b].limit \in Nat
  BY <1>4 DEF BudgetRow
<1> QED BY <1>2, <1>3, <1>4, <1>5 DEF Estimated, Charged

\* Both sums stand still when no hold moves and no amount changes where it counts.
LEMMA SumsStay ==
  ASSUME TypeOK, NEW b \in Budgets,
         \A r \in Reservations : hold'[r][b] = hold[r][b],
         \A r \in Reservations : hold[r][b] # "none" => rsv'[r].est = rsv[r].est,
         \A r \in Reservations : hold[r][b] \in Settled => rsv'[r].charged = rsv[r].charged
  PROVE  /\ SumOver(Estimated, Live(b))' = SumOver(Estimated, Live(b))
         /\ SumOver(Charged, Paid(b))' = SumOver(Charged, Paid(b))
<1>1. Live(b)' = Live(b) /\ Paid(b)' = Paid(b)
  BY DEF Live, Paid, HeldBy
<1>2. \A r \in Live(b) : Estimated[r] = Estimated'[r]
  BY DEF Live, HeldBy, Estimated
<1>3. \A r \in Paid(b) : Charged[r] = Charged'[r]
  BY DEF Paid, HeldBy, Charged
<1>4. SumOver(Estimated, Live(b)) = SumOver(Estimated', Live(b))
  BY <1>2, SumTypes, SumSame
<1>5. SumOver(Charged, Paid(b)) = SumOver(Charged', Paid(b))
  BY <1>3, SumTypes, SumSame
<1> QED BY <1>1, <1>4, <1>5

\* The columns of one budget are the sums of the rows behind them.
Books(b) ==
  /\ budget[b].reserved = SumOver(Estimated, Live(b))
  /\ windows = 0 => budget[b].spent = SumOver(Charged, Paid(b))

\* What a live hold set aside is still in the reserved column.
LEMMA HeldIsReserved ==
  ASSUME TypeOK, NEW b \in Budgets, Books(b), NEW r \in Reservations, hold[r][b] = "reserved"
  PROVE  rsv[r].est <= budget[b].reserved
<1>1. r \in Live(b)
  BY DEF Live, HeldBy
<1>2. Estimated[r] <= SumOver(Estimated, Live(b))
  <2>1. \A y \in Live(b) : y \in Reservations
    BY DEF Live, HeldBy
  <2>2. \A y \in Live(b) : Estimated[y] \in Nat
    BY <2>1, SumTypes
  <2> QED BY <1>1, <2>2, SumTypes, SumAtLeast
<1> QED BY <1>2, SumTypes DEF Books

\* Empty books balance ...
LEMMA BooksInit == Init => \A b \in Budgets : Books(b)
<1> SUFFICES ASSUME Init, NEW b \in Budgets PROVE Books(b)
  OBVIOUS
<1>1. Live(b) = {} /\ Paid(b) = {}
  BY DEF Init, Live, Paid, HeldBy, Settled
<1>2. budget[b].reserved = 0 /\ budget[b].spent = 0
  BY DEF Init
<1> QED BY <1>1, <1>2, SumEmpty DEF Books

\* ... and every action keeps them balanced.  Reserve adds a row to the live
\* holds, EndFinalize moves it over to the charged ones, a reconciliation changes
\* its amount there; the floors never bite because the sums contain the row.
LEMMA BooksStep ==
  ASSUME ControlInv, [Next]_vars, NEW b \in Budgets, Books(b)
  PROVE  Books(b)'
<1> USE LedgerAssumption
<1>0. /\ TypeOK /\ TypeOK' /\ HoldsFollowReservation /\ HoldsFollowReservation' /\ FinalizerOwns
      /\ ResetsNeedWindows
  BY ControlStep DEF ControlInv
<1>a. \A r \in Live(b) : r \in Reservations /\ hold[r][b] = "reserved"
  BY DEF Live, HeldBy
<1>b. \A r \in Paid(b) : r \in Reservations /\ hold[r][b] \in Settled
  BY DEF Paid, HeldBy
<1>c. /\ \A r \in Live(b) : Estimated[r] \in Nat
      /\ \A r \in Paid(b) : Charged[r] \in Nat
  BY <1>0, <1>a, <1>b, SumTypes
<1>d. \A r \in Reservations : /\ rsv'[r].est \in Nat /\ rsv'[r].charged \in Nat
                              /\ Estimated'[r] = rsv'[r].est /\ Charged'[r] = rsv'[r].charged
                              /\ Estimated[r] = rsv[r].est /\ Charged[r] = rsv[r].charged
  BY <1>0 DEF TypeOK, ReservationRow, Estimated, Charged
<1>e. IsFiniteSet(Live(b)) /\ IsFiniteSet(Paid(b))
  BY <1>0, SumTypes
<1>1. CASE UNCHANGED vars
  BY <1>1 DEF vars, Books, Live, Paid, HeldBy, Estimated, Charged
<1>2. ASSUME NEW r \in Reservations, Reserve(r) PROVE Books(b)'
  <2>0. hold[r][b] = "none"
    BY <1>0, <1>2, ReserveEffect DEF HoldsFollowReservation
  <2>1. CASE hold'[r][b] = "none" /\ budget'[b] = budget[b]
    <3>1. /\ SumOver(Estimated, Live(b))' = SumOver(Estimated, Live(b))
          /\ SumOver(Charged, Paid(b))' = SumOver(Charged, Paid(b))
      BY <1>0, <1>2, <2>0, <2>1, ReserveEffect, SumsStay
    <3>2. windows' = windows
      BY <1>2 DEF Reserve
    <3> QED BY <2>1, <3>1, <3>2 DEF Books
  <2>2. CASE /\ hold'[r][b] = "reserved"
             /\ budget'[b] = [Reset(budget[b]) EXCEPT !.reserved = @ + rsv'[r].est]
    <3>1. r \notin Live(b) /\ r \notin Paid(b)
      BY <2>0 DEF Live, Paid, HeldBy, Settled
    <3>2. Live(b)' = Live(b) \cup {r} /\ Paid(b)' = Paid(b)
      BY <1>0, <1>2, <2>0, <2>2, ReserveEffect DEF Live, Paid, HeldBy, Settled
    <3>3. \A q \in Live(b) : Estimated[q] = Estimated'[q] /\ Estimated[q] \in Nat
      BY <1>0, <1>2, <1>a, <1>c, <1>d, <3>1, ReserveEffect
    <3>4. \A q \in Paid(b) : Charged[q] = Charged'[q]
      BY <1>0, <1>2, <1>b, <1>d, <3>1, ReserveEffect
    <3>5. SumOver(Estimated', Live(b) \cup {r}) = SumOver(Estimated, Live(b)) + Estimated'[r]
      <4>1. Estimated'[r] \in Nat
        BY <1>d
      <4>2. ASSUME NEW f, f = Estimated, NEW g, g = Estimated', NEW S, S = Live(b)
            PROVE  SumOver(g, S \cup {r}) = SumOver(f, S) + g[r]
        <5>1. IsFiniteSet(S) /\ r \notin S /\ g[r] \in Nat
          BY <1>e, <3>1, <4>1, <4>2
        <5>2. \A q \in S : f[q] = g[q] /\ f[q] \in Nat
          BY <3>3, <4>2
        <5> QED BY <5>1, <5>2, SumJoins
      <4> QED BY <4>2
    <3>6. SumOver(Charged, Paid(b)) = SumOver(Charged', Paid(b))
      BY <1>0, <3>4, SumTypes, SumSame
    <3>7. Reset(budget[b]) \in BudgetRow /\ Reset(budget[b]).reserved = budget[b].reserved
      BY <1>0, SumTypes, ResetType
    <3>8. budget'[b].reserved = budget[b].reserved + rsv'[r].est
      BY <2>2, <3>7 DEF BudgetRow
    <3>9. windows = 0 => budget'[b].spent = budget[b].spent
      <4>1. ASSUME windows = 0 PROVE Reset(budget[b]) = budget[b]
        BY <1>0, <4>1, SumTypes, ResetType DEF ResetsNeedWindows
      <4>2. budget'[b].spent = Reset(budget[b]).spent
        BY <2>2, <3>7 DEF BudgetRow
      <4> QED BY <4>1, <4>2
    <3>10. windows' = windows
      BY <1>2 DEF Reserve
    <3> QED BY <1>d, <3>2, <3>5, <3>6, <3>8, <3>9, <3>10 DEF Books
  <2>3. \/ hold'[r][b] = "none" /\ budget'[b] = budget[b]
        \/ /\ hold'[r][b] = "reserved"
           /\ budget'[b] = [Reset(budget[b]) EXCEPT !.reserved = @ + rsv'[r].est]
    BY <1>0, <1>2, <2>0, ReserveEffect
  <2> QED BY <2>1, <2>2, <2>3
<1>3. ASSUME NEW r \in Reservations, ReserveUnpriced(r) \/ JobEnds(r) PROVE Books(b)'
  <2>1. /\ \A q \in Reservations : /\ hold'[q][b] = hold[q][b] /\ rsv'[q].est = rsv[q].est
                                   /\ rsv'[q].charged = rsv[q].charged
        /\ UNCHANGED <<budget, windows>>
    BY <1>0, <1>3, ReservationStep
  <2>2. /\ SumOver(Estimated, Live(b))' = SumOver(Estimated, Live(b))
        /\ SumOver(Charged, Paid(b))' = SumOver(Charged, Paid(b))
    BY <1>0, <2>1, SumsStay
  <2> QED BY <2>1, <2>2 DEF Books
<1>4. ASSUME NEW r \in Reservations, EndFinalize(r) PROVE Books(b)'
  <2>0. rsv[r].status = "reserved" /\ rsv[r].outcome \in Settled
    BY <1>0, <1>4 DEF FinalizerOwns, EndFinalize
  <2>1. CASE hold[r][b] # "reserved"
    <3>1. hold[r][b] = "none"
      BY <1>0, <2>0, <2>1 DEF HoldsFollowReservation
    <3>2. budget'[b] = budget[b] /\ windows' = windows
      BY <1>0, <1>4, <2>1, EndFinalizeEffect
    <3>3. /\ SumOver(Estimated, Live(b))' = SumOver(Estimated, Live(b))
          /\ SumOver(Charged, Paid(b))' = SumOver(Charged, Paid(b))
      <4>1. \A q \in Reservations : /\ hold'[q][b] = hold[q][b] /\ rsv'[q].est = rsv[q].est
                                    /\ hold[q][b] \in Settled => rsv'[q].charged = rsv[q].charged
        BY <1>0, <1>4, <2>1, <3>1, EndFinalizeEffect DEF Settled
      <4> QED BY <1>0, <4>1, SumsStay
    <3> QED BY <3>2, <3>3 DEF Books
  <2>2. CASE hold[r][b] = "reserved"
    <3>1. /\ r \in Live(b) /\ r \notin Paid(b)
      BY <2>2 DEF Live, Paid, HeldBy, Settled
    <3>2. /\ hold'[r][b] = rsv[r].outcome
          /\ \A q \in Reservations : q # r => hold'[q][b] = hold[q][b]
          /\ budget'[b] = SettledRow(budget[b], rsv[r].est, ActualOf(r))
          /\ windows' = windows
      BY <1>0, <1>4, <2>2, EndFinalizeEffect
    <3>3. Live(b)' = Live(b) \ {r} /\ Paid(b)' = Paid(b) \cup {r}
      BY <2>0, <2>2, <3>2 DEF Live, Paid, HeldBy, Settled
    <3>4. \A q \in Live(b) \ {r} : Estimated[q] = Estimated'[q]
      BY <1>0, <1>4, <1>a, <1>d, EndFinalizeEffect
    <3>5. \A q \in Paid(b) : Charged[q] = Charged'[q] /\ Charged[q] \in Nat
      BY <1>0, <1>4, <1>b, <1>c, <1>d, <3>1, EndFinalizeEffect
    <3>6. /\ SumOver(Estimated', Live(b) \ {r}) = SumOver(Estimated, Live(b)) - Estimated[r]
          /\ SumOver(Estimated, Live(b)) >= Estimated[r]
      <4>1. ASSUME NEW f, f = Estimated, NEW g, g = Estimated', NEW S, S = Live(b)
            PROVE  SumOver(g, S \ {r}) = SumOver(f, S) - f[r] /\ SumOver(f, S) >= f[r]
        <5>1. IsFiniteSet(S) /\ r \in S /\ \A q \in S : f[q] \in Nat
          BY <1>c, <1>e, <3>1, <4>1
        <5>2. \A q \in S \ {r} : f[q] = g[q]
          BY <3>4, <4>1
        <5> QED BY <5>1, <5>2, SumLeaves
      <4> QED BY <4>1
    <3>7. SumOver(Charged', Paid(b) \cup {r}) = SumOver(Charged, Paid(b)) + Charged'[r]
      <4>1. Charged'[r] \in Nat
        BY <1>d
      <4>2. ASSUME NEW f, f = Charged, NEW g, g = Charged', NEW S, S = Paid(b)
            PROVE  SumOver(g, S \cup {r}) = SumOver(f, S) + g[r]
        <5>1. IsFiniteSet(S) /\ r \notin S /\ g[r] \in Nat
          BY <1>e, <3>1, <4>1, <4>2
        <5>2. \A q \in S : f[q] = g[q] /\ f[q] \in Nat
          BY <3>5, <4>2
        <5> QED BY <5>1, <5>2, SumJoins
      <4> QED BY <4>2
    <3>8. Charged'[r] = ActualOf(r)
      BY <1>0, <1>4, <1>d, EndFinalizeEffect
    <3>9. /\ budget'[b].reserved = Floor(budget[b].reserved - rsv[r].est)
          /\ budget'[b].spent = budget[b].spent + ActualOf(r)
      BY <1>0, <3>2, SumTypes DEF SettledRow, BudgetRow
    <3>10. Floor(budget[b].reserved - rsv[r].est) = budget[b].reserved - rsv[r].est
      <4>1. rsv[r].est <= budget[b].reserved
        BY <1>0, <2>2, HeldIsReserved
      <4>2. rsv[r].est \in Nat /\ budget[b].reserved \in Nat
        BY <1>0, <1>d, SumTypes
      <4> QED BY <4>1, <4>2 DEF Floor
    <3> QED BY <1>d, <3>2, <3>3, <3>6, <3>7, <3>8, <3>9, <3>10 DEF Books
  <2> QED BY <2>1, <2>2
<1>5. ASSUME NEW c \in Calls, ReconcileForReservation(c) PROVE Books(b)'
  <2>0. UNCHANGED <<hold, windows>>
    BY <1>0, <1>5, ReconcileEffect
  <2>1. CASE UNCHANGED <<rsv, budget, over>>
    BY <2>0, <2>1 DEF Books, Live, Paid, HeldBy, Estimated, Charged
  <2>2. ASSUME NEW r \in Reservations,
               \A q \in Reservations : q # r => rsv'[q] = rsv[q],
               rsv'[r].est = rsv[r].est, rsv'[r].charged = events[r].sum,
               \/ hold[r][b] \notin Settled /\ budget'[b] = budget[b]
               \/ hold[r][b] \in Settled /\ budget'[b] = AdjustedRow(budget[b], Delta(r))
        PROVE  Books(b)'
    <3>1. CASE hold[r][b] \notin Settled /\ budget'[b] = budget[b]
      <4>1. \A q \in Reservations : /\ hold'[q][b] = hold[q][b] /\ rsv'[q].est = rsv[q].est
                                    /\ hold[q][b] \in Settled => rsv'[q].charged = rsv[q].charged
        BY <2>0, <2>2, <3>1
      <4>2. /\ SumOver(Estimated, Live(b))' = SumOver(Estimated, Live(b))
            /\ SumOver(Charged, Paid(b))' = SumOver(Charged, Paid(b))
        BY <1>0, <4>1, SumsStay
      <4> QED BY <2>0, <3>1, <4>2 DEF Books
    <3>2. CASE hold[r][b] \in Settled /\ budget'[b] = AdjustedRow(budget[b], Delta(r))
      <4>1. r \in Paid(b) /\ Live(b)' = Live(b) /\ Paid(b)' = Paid(b)
        BY <2>0, <3>2 DEF Live, Paid, HeldBy
      <4>2. \A q \in Live(b) : Estimated[q] = Estimated'[q]
        BY <1>a, <1>d, <2>2
      <4>3. /\ \A q \in Paid(b) \ {r} : Charged[q] = Charged'[q]
            /\ \A q \in Paid(b) : Charged[q] \in Nat /\ Charged'[q] \in Nat
        BY <1>b, <1>c, <1>d, <2>2
      <4>4. SumOver(Estimated, Live(b)) = SumOver(Estimated', Live(b))
        BY <1>0, <4>2, SumTypes, SumSame
      <4>5. /\ SumOver(Charged', Paid(b)) = SumOver(Charged, Paid(b)) - Charged[r] + Charged'[r]
            /\ SumOver(Charged, Paid(b)) >= Charged[r]
        BY <1>e, <4>1, <4>3, SumChanges
      <4>6. /\ budget'[b].reserved = budget[b].reserved
            /\ budget'[b].spent = Floor(budget[b].spent + Delta(r))
        BY <1>0, <3>2, SumTypes DEF AdjustedRow, BudgetRow
      <4>7. events[r].sum \in Nat /\ rsv[r].charged \in Nat /\ budget[b].spent \in Nat
        BY <1>0, SumTypes DEF TypeOK, EventSum, ReservationRow
      <4>8. ASSUME windows = 0
            PROVE  budget'[b].spent = SumOver(Charged', Paid(b))
        <5>1. budget[b].spent = SumOver(Charged, Paid(b)) /\ budget[b].spent >= rsv[r].charged
          BY <1>d, <4>5, <4>8 DEF Books
        <5> QED BY <1>d, <2>2, <4>5, <4>6, <4>7, <5>1 DEF Floor, Delta
      <4> QED BY <2>0, <4>1, <4>4, <4>6, <4>8 DEF Books
    <3> QED BY <2>2, <3>1, <3>2
  <2> QED BY <1>0, <1>5, <2>1, <2>2, ReconcileEffect
<1>6. ASSUME UNCHANGED <<rsv, hold>>, budget'[b].reserved = budget[b].reserved,
             windows' = 0 => windows = 0 /\ budget'[b].spent = budget[b].spent
      PROVE  Books(b)'
  BY <1>6 DEF Books, Live, Paid, HeldBy, Estimated, Charged
<1>7. ASSUME NEW r \in Reservations, BeginFinalize(r) PROVE Books(b)'
  BY <1>6, <1>7 DEF BeginFinalize
<1>8. ASSUME NEW c \in Calls,
             StartCall(c) \/ PersistedSuccess(c) \/ DiscardedSuccess(c) \/ FailedCall(c)
      PROVE  Books(b)'
  BY <1>6, <1>8 DEF StartCall, PersistedSuccess, DiscardedSuccess, FailedCall
<1>9. ASSUME NEW a \in Budgets, UpdateBudget(a) PROVE Books(b)'
  <2>1. budget'[b].reserved = budget[b].reserved /\ budget'[b].spent = budget[b].spent
    BY <1>0, <1>9 DEF UpdateBudget, TypeOK, BudgetRow
  <2> QED BY <1>6, <1>9, <2>1 DEF UpdateBudget
<1>10. ASSUME NEW a \in Budgets, WindowElapses(a) PROVE Books(b)'
  <2>1. budget'[b].reserved = budget[b].reserved /\ windows' # 0
    BY <1>0, <1>10 DEF WindowElapses, TypeOK, BudgetRow
  <2> QED BY <1>6, <1>10, <2>1 DEF WindowElapses
<1> QED BY <1>1, <1>2, <1>3, <1>4, <1>5, <1>7, <1>8, <1>9, <1>10 DEF Next

\* The books are what the two invariants of the ledger say, budget by budget.
LEMMA BooksAreTheInvariants ==
  (\A b \in Budgets : Books(b)) <=> ReservedMatchesHolds /\ SpentMatchesCharges
BY DEF Books, ReservedMatchesHolds, SpentMatchesCharges, Live, Paid

\* The inductive invariant.
LedgerInv == ControlInv /\ \A b \in Budgets : Books(b)

\* The inductive invariant holds in every reachable state: types, who may
\* finalize, when amounts are charged, and the sums behind both budget columns.
THEOREM LedgerInvariant == Spec => []LedgerInv
<1>1. Init => LedgerInv
  BY ControlInit, BooksInit DEF LedgerInv
<1>2. LedgerInv /\ [Next]_vars => LedgerInv'
  BY ControlStep, BooksStep DEF LedgerInv
<1> QED BY <1>1, <1>2, PTL DEF Spec

\* The books balance for any number of budgets, reservations and calls: denials,
\* resets, repeated finalizations and late reconciliations leak no hold and count
\* no event twice.
THEOREM BudgetsBalanceHolds == Spec => []BudgetsBalance
<1>1. LedgerInv => BudgetsBalance
  BY BooksAreTheInvariants DEF LedgerInv, ControlInv, BudgetsBalance
<1> QED BY <1>1, LedgerInvariant, PTL

\* Commit and release reverse exactly what Reserve did: a hold always has the
\* status of its reservation.
THEOREM HoldsFollowReservationHolds == Spec => []HoldsFollowReservation
<1>1. LedgerInv => HoldsFollowReservation
  BY DEF LedgerInv, ControlInv
<1> QED BY <1>1, LedgerInvariant, PTL

\* No action sells more of a budget than its limit and what providers overran.
\* Settling needs the books: a hold that is given back was in the reserved column.
LEMMA NeverOversoldStep ==
  ASSUME LedgerInv, NeverOversold, [Next]_vars
  PROVE  NeverOversold'
<1> USE LedgerAssumption DEF NeverOversold
<1>0. /\ TypeOK /\ TypeOK' /\ AdminsPause /\ HoldsFollowReservation
  BY TypeStep DEF LedgerInv, ControlInv
<1> SUFFICES ASSUME updates' = 0, NEW b \in Budgets
             PROVE  budget'[b].reserved + budget'[b].spent <= budget'[b].limit + over'[b]
  OBVIOUS
<1>1. updates = 0
  <2>1. updates' = updates \/ updates' = updates + 1
    BY DEF Next, vars, Reserve, ReserveUnpriced, JobEnds, BeginFinalize, EndFinalize,
       StartCall, PersistedSuccess, DiscardedSuccess, ReconcileForReservation, FailedCall,
       UpdateBudget, WindowElapses
  <2> QED BY <1>0, <2>1 DEF TypeOK
<1>2. /\ budget[b].reserved + budget[b].spent <= budget[b].limit + over[b]
      /\ budget[b].status = "active"
  BY <1>0, <1>1 DEF AdminsPause
<1>3. /\ budget[b] \in BudgetRow /\ over[b] \in Nat
      /\ budget[b].reserved \in Nat /\ budget[b].spent \in Nat /\ budget[b].limit \in Nat
  BY <1>0, SumTypes DEF TypeOK
<1>4. CASE budget'[b] = budget[b] /\ over'[b] = over[b]
  BY <1>2, <1>4
<1> DEFINE Goal == budget'[b].reserved + budget'[b].spent <= budget'[b].limit + over'[b]
<1>5. ASSUME NEW r \in Reservations, Reserve(r) PROVE Goal
  <2>1. over' = over
    BY <1>5 DEF Reserve
  <2>2. ASSUME Admits(Reset(budget[b]), rsv'[r].est),
               budget'[b] = [Reset(budget[b]) EXCEPT !.reserved = @ + rsv'[r].est]
        PROVE  Goal
    <3> DEFINE row == Reset(budget[b])
    <3>1. /\ row \in BudgetRow /\ row.status = "active" /\ row.limit = budget[b].limit
      BY <1>2, <1>3, ResetType
    <3>2. rsv'[r].est \in Nat
      BY <1>0 DEF TypeOK, ReservationRow
    <3> HIDE DEF row
    <3>3. row.reserved + row.spent + rsv'[r].est <= row.limit
      BY <2>2, <3>1 DEF row, Admits
    <3>4. /\ budget'[b].reserved = row.reserved + rsv'[r].est
          /\ budget'[b].spent = row.spent /\ budget'[b].limit = row.limit
      BY <2>2, <3>1 DEF row, BudgetRow
    <3>5. row.reserved \in Nat /\ row.spent \in Nat /\ row.limit \in Nat
      BY <3>1 DEF BudgetRow
    <3> QED BY <1>3, <2>1, <3>2, <3>3, <3>4, <3>5
  <2> QED BY <1>0, <1>4, <1>5, <2>1, <2>2, ReserveEffect
<1>6. ASSUME NEW r \in Reservations, EndFinalize(r) PROVE Goal
  <2>1. ASSUME hold[r][b] = "reserved",
               budget'[b] = SettledRow(budget[b], rsv[r].est, ActualOf(r)),
               over'[b] = over[b] + Floor(ActualOf(r) - rsv[r].est)
        PROVE  Goal
    <3>1. rsv[r].est <= budget[b].reserved
      BY <1>0, <2>1, HeldIsReserved DEF LedgerInv
    <3>2. rsv[r].est \in Nat /\ ActualOf(r) \in Nat
      BY <1>0, ActualType DEF TypeOK, ReservationRow
    <3>3. /\ budget'[b].reserved = Floor(budget[b].reserved - rsv[r].est)
          /\ budget'[b].spent = budget[b].spent + ActualOf(r)
          /\ budget'[b].limit = budget[b].limit
      BY <1>3, <2>1 DEF SettledRow, BudgetRow
    <3> QED BY <1>2, <1>3, <2>1, <3>1, <3>2, <3>3 DEF Floor
  <2> QED BY <1>0, <1>4, <1>6, <2>1, EndFinalizeEffect
<1>7. ASSUME NEW c \in Calls, ReconcileForReservation(c) PROVE Goal
  <2>1. ASSUME NEW r \in Reservations,
               budget'[b] = AdjustedRow(budget[b], Delta(r)),
               over'[b] = over[b] + Floor(Delta(r))
        PROVE  Goal
    <3>1. Delta(r) \in Int
      BY <1>0 DEF Delta, TypeOK, EventSum, ReservationRow
    <3>2. /\ budget'[b].reserved = budget[b].reserved /\ budget'[b].limit = budget[b].limit
          /\ budget'[b].spent = Floor(budget[b].spent + Delta(r))
      BY <1>3, <2>1 DEF AdjustedRow, BudgetRow
    <3> QED BY <1>2, <1>3, <2>1, <3>1, <3>2 DEF Floor
  <2> QED BY <1>0, <1>4, <1>7, <2>1, ReconcileEffect
<1>8. ASSUME NEW a \in Budgets, UpdateBudget(a) \/ WindowElapses(a) PROVE Goal
  <2>1. WindowElapses(a)
    BY <1>0, <1>1, <1>8 DEF UpdateBudget
  <2>2. /\ budget'[b].reserved = budget[b].reserved /\ budget'[b].limit = budget[b].limit
        /\ budget'[b].spent = budget[b].spent /\ over' = over
    BY <1>0, <2>1 DEF WindowElapses, TypeOK, BudgetRow
  <2> QED BY <1>2, <2>2
<1>9. CASE UNCHANGED <<budget, over>>
  BY <1>4, <1>9
<1>10. [Next]_vars =>
         \/ \E r \in Reservations : Reserve(r) \/ EndFinalize(r)
         \/ \E c \in Calls : ReconcileForReservation(c)
         \/ \E a \in Budgets : UpdateBudget(a) \/ WindowElapses(a)
         \/ UNCHANGED <<budget, over>>
  BY DEF Next, vars, ReserveUnpriced, JobEnds, BeginFinalize, StartCall, PersistedSuccess,
     DiscardedSuccess, FailedCall
<1> HIDE DEF Goal
<1>11. Goal
  BY <1>5, <1>6, <1>7, <1>8, <1>9, <1>10 DEF Goal
<1> QED BY <1>11 DEF Goal

\* Concurrent reservations never oversell a budget that enforces its limit, for
\* any number of them.
THEOREM NeverOversoldHolds == Spec => []NeverOversold
<1>1. Init => NeverOversold
  <2> SUFFICES ASSUME Init, NEW b \in Budgets
               PROVE  budget[b].reserved + budget[b].spent <= budget[b].limit + over[b]
    BY DEF NeverOversold
  <2>1. TypeOK /\ budget[b].reserved = 0 /\ budget[b].spent = 0
    <3>1. PICK limit \in [Budgets -> Limits] :
            budget = [a \in Budgets |-> [status |-> "active", limit |-> limit[a],
                                        reserved |-> 0, spent |-> 0, elapsed |-> FALSE]]
      BY DEF Init
    <3> QED BY <3>1, TypeInit
  <2>2. budget[b].limit \in Nat /\ over[b] \in Nat
    BY <2>1, SumTypes DEF TypeOK
  <2> QED BY <2>1, <2>2
<1>2. LedgerInv /\ NeverOversold /\ [Next]_vars => NeverOversold'
  BY NeverOversoldStep
<1> QED BY <1>1, <1>2, LedgerInvariant, PTL DEF Spec
=============================================================================
