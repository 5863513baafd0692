----------------------------- MODULE CostLedger -----------------------------
(***************************************************************************)
(* The money: budgets, cost reservations with their per-budget holds, the  *)
(* cost events that provider calls leave behind, and the finalizer that    *)
(* commits, releases and reconciles.  Jobs of one tenant share budgets, so *)
(* several reservations are in flight at once.                             *)
(*                                                                         *)
(* Transactions run at READ COMMITTED.  A reservation or a reconciliation  *)
(* holds its row locks from its first effective statement on and is one    *)
(* step.  Finalization is two: the statement that flips the reservation    *)
(* sums the cost events visible at that instant, and until its transaction *)
(* commits every other session still reads the row as reserved.            *)
(***************************************************************************)
EXTENDS Integers, FiniteSets, FiniteSetsExt

CONSTANTS
  Budgets, Scope,       \* cost_budgets rows and the scope_type of each
  Reservations,         \* cost_reservations rows that may be created
  Calls,                \* provider calls that may be made
  Limits,               \* values of limit_amount explored
  Estimates,            \* values of estimated_amount explored
  Amounts,              \* reported cost of one provider call explored
  CallsMayFail,         \* whether provider calls may also fail
  MaxAdminUpdates,      \* bound: admin updates of budgets
  MaxWindows            \* bound: elapsed budget windows

ASSUME LedgerAssumption ==
  /\ IsFiniteSet(Budgets) /\ IsFiniteSet(Reservations) /\ IsFiniteSet(Calls)
  /\ Reservations # {}
  /\ Scope \in [Budgets -> {"tenant", "token", "world", "user"}]
  /\ Limits \subseteq Nat
  /\ Estimates \subseteq Nat \ {0}
  /\ Amounts \subseteq Nat
  /\ CallsMayFail \in BOOLEAN
  /\ MaxAdminUpdates \in Nat
  /\ MaxWindows \in Nat

VARIABLES
  budget,     \* cost_budgets
  rsv,        \* cost_reservations; outcome is how its job ended, if it did
  hold,       \* cost_reservation_budget_holds.status, per reservation and budget
  fin,        \* the open finalizing transaction of each reservation
  events,     \* the provider-reported cost events of each reservation
  call,       \* the provider calls
  over,       \* history: what each budget was billed beyond what it had set aside
  updates,    \* admin updates so far
  windows     \* elapsed windows so far

vars == <<budget, rsv, hold, fin, events, call, over, updates, windows>>

Settled == {"committed", "released"}

BudgetRow == [status : {"active", "paused", "exceeded"}, limit : Nat,
              reserved : Nat, spent : Nat, elapsed : BOOLEAN]

\* charged is actual_amount, 0 standing for NULL as in every query that uses it.
ReservationRow == [status : {"none", "failed", "reserved", "committed", "released"},
                   est : Nat, charged : Nat, outcome : {"none"} \cup Settled]

\* any: at least one event carries a reported amount; sum: their total.
EventSum == [any : BOOLEAN, sum : Nat]

\* Every variable keeps its type; the amounts never go negative.
TypeOK ==
  /\ budget \in [Budgets -> BudgetRow]
  /\ rsv \in [Reservations -> ReservationRow]
  /\ hold \in [Reservations -> [Budgets -> {"none", "reserved"} \cup Settled]]
  /\ fin \in [Reservations -> [open : BOOLEAN, seen : EventSum]]
  /\ events \in [Reservations -> EventSum]
  /\ call \in [Calls -> [state : {"new", "calling", "reconcile", "done"},
                         rsv : Reservations]]
  /\ over \in [Budgets -> Nat]
  /\ updates \in 0..MaxAdminUpdates
  /\ windows \in 0..MaxWindows

NoEvents == [any |-> FALSE, sum |-> 0]

Init ==
  /\ \E limit \in [Budgets -> Limits] :
       budget = [b \in Budgets |-> [status |-> "active", limit |-> limit[b],
                                    reserved |-> 0, spent |-> 0, elapsed |-> FALSE]]
  /\ rsv = [r \in Reservations |-> [status |-> "none", est |-> 0, charged |-> 0,
                                    outcome |-> "none"]]
  /\ hold = [r \in Reservations |-> [b \in Budgets |-> "none"]]
  /\ fin = [r \in Reservations |-> [open |-> FALSE, seen |-> NoEvents]]
  /\ events = [r \in Reservations |-> NoEvents]
  /\ call = [c \in Calls |-> [state |-> "new", rsv |-> CHOOSE r \in Reservations : TRUE]]
  /\ over = [b \in Budgets |-> 0]
  /\ updates = 0
  /\ windows = 0

-----------------------------------------------------------------------------
(* Reserve. *)

OfScope(bs, scope) == {b \in bs : Scope[b] = scope}

\* The tenant budgets and the narrowest applicable scope.
selectBudgets(bs) ==
  OfScope(bs, "tenant") \cup
  IF OfScope(bs, "token") # {} THEN OfScope(bs, "token")
  ELSE IF OfScope(bs, "world") # {} THEN OfScope(bs, "world")
  ELSE OfScope(bs, "user")

\* Mutation: the new window forgets the live holds.
ResetHoldsToo(row) ==
  IF row.elapsed THEN [row EXCEPT !.spent = 0, !.reserved = 0, !.elapsed = FALSE] ELSE row

\* ResetBudgetPeriodIfElapsed: spent starts over, live holds stay.
Reset(row) ==
  IF row.elapsed
  THEN [row EXCEPT !.spent = 0, !.elapsed = FALSE,
                   !.status = IF @ = "exceeded" THEN "active" ELSE @]
  ELSE row

\* Mutation: the limit is compared with what is held, not with what is spent.
AdmitsIgnoringSpent(row, amount) ==
  \/ row.status = "paused"
  \/ row.status = "active" /\ row.reserved + amount <= row.limit

\* ReservePausedBudget records only; ReserveActiveBudget enforces the limit.
Admits(row, amount) ==
  \/ row.status = "paused"
  \/ row.status = "active" /\ row.reserved + row.spent + amount <= row.limit

\* Mutation: without the savepoint, a denial keeps what was taken before it.
HoldsOnDenial(r, admitted) ==
  [hold EXCEPT ![r] = [b \in Budgets |-> IF b \in admitted THEN "reserved" ELSE "none"]]

\* The savepoint is rolled back.
HoldsAfterDenial(r, admitted) == hold

\* All budgets or none: a denial rolls the savepoint back, resets included.
Reserve(r) ==
  /\ rsv[r].status = "none"
  /\ \E est \in Estimates, bs \in SUBSET Budgets :
       LET enforced == selectBudgets(bs) IN
       /\ OfScope(Budgets, "tenant") \subseteq bs
       /\ \/ /\ \A b \in enforced : Admits(Reset(budget[b]), est)
             /\ budget' = [b \in Budgets |->
                             IF b \in enforced
                             THEN [Reset(budget[b]) EXCEPT !.reserved = @ + est]
                             ELSE budget[b]]
             /\ hold' = [hold EXCEPT ![r] = [b \in Budgets |->
                                               IF b \in enforced THEN "reserved" ELSE "none"]]
             /\ rsv' = [rsv EXCEPT ![r].status = "reserved", ![r].est = est]
          \/ /\ \E b \in enforced : ~Admits(Reset(budget[b]), est)
             /\ rsv' = [rsv EXCEPT ![r].status = "failed", ![r].est = est]
             /\ hold' = HoldsAfterDenial(r, {b \in enforced : Admits(Reset(budget[b]), est)})
             /\ UNCHANGED budget
  /\ UNCHANGED <<fin, events, call, over, updates, windows>>

\* No usable price entry: the reservation is recorded as failed, no budget is
\* asked.
ReserveUnpriced(r) ==
  /\ rsv[r].status = "none"
  /\ rsv' = [rsv EXCEPT ![r].status = "failed"]
  /\ UNCHANGED <<budget, hold, fin, events, call, over, updates, windows>>

-----------------------------------------------------------------------------
(* Finalization. *)

\* The job reaches a terminal status: completed commits, failed or cancelled
\* releases.
JobEnds(r) ==
  /\ rsv[r].status = "reserved"
  /\ rsv[r].outcome = "none"
  /\ \E target \in Settled : rsv' = [rsv EXCEPT ![r].outcome = target]
  /\ UNCHANGED <<budget, hold, fin, events, call, over, updates, windows>>

\* CommitReservation... / ReleaseReservation...: the guarded UPDATE takes the
\* row lock and sums the reported events it can see.  Any number of deliveries
\* and requests call it; the status guard lets one through.
MayFinalize(r) == rsv[r].status = "reserved" /\ ~fin[r].open

BeginFinalize(r) ==
  /\ rsv[r].outcome # "none"
  /\ MayFinalize(r)
  /\ fin' = [fin EXCEPT ![r] = [open |-> TRUE, seen |-> events[r]]]
  /\ UNCHANGED <<budget, rsv, hold, events, call, over, updates, windows>>

\* A commit without a reported amount charges the estimate, a release nothing.
ActualOf(r) ==
  IF fin[r].seen.any THEN fin[r].seen.sum
  ELSE IF rsv[r].outcome = "committed" THEN rsv[r].est ELSE 0

Floor(n) == IF n < 0 THEN 0 ELSE n

\* CommitBudgetHold, or ReleaseBudgetHold when nothing is charged.
SettledRow(row, held, actual) ==
  [row EXCEPT !.reserved = Floor(@ - held), !.spent = @ + actual]

\* The rest of finalizeInTxForReservation, and the transaction's commit.
EndFinalize(r) ==
  /\ fin[r].open
  /\ fin' = [fin EXCEPT ![r] = [open |-> FALSE, seen |-> NoEvents]]
  /\ rsv' = [rsv EXCEPT ![r].status = rsv[r].outcome, ![r].charged = ActualOf(r)]
  /\ budget' = [b \in Budgets |->
                  IF hold[r][b] = "reserved"
                  THEN SettledRow(budget[b], rsv[r].est, ActualOf(r))
                  ELSE budget[b]]
  /\ hold' = [hold EXCEPT ![r] = [b \in Budgets |->
                IF @[b] = "reserved" THEN rsv[r].outcome ELSE @[b]]]
  /\ over' = [b \in Budgets |-> IF hold[r][b] = "reserved"
                                THEN over[b] + Floor(ActualOf(r) - rsv[r].est) ELSE over[b]]
  /\ UNCHANGED <<events, call, updates, windows>>

-----------------------------------------------------------------------------
(* Provider calls and the cost events they leave. *)

StartCall(c) ==
  /\ call[c].state = "new"
  /\ \E r \in Reservations :
       /\ rsv[r].status \in {"reserved"} \cup Settled
       /\ call' = [call EXCEPT ![c] = [state |-> "calling", rsv |-> r]]
  /\ UNCHANGED <<budget, rsv, hold, fin, events, over, updates, windows>>

\* A cost event with a reported amount, or one without.
RecordEvent(r) ==
  \/ UNCHANGED events
  \/ \E a \in Amounts : events' = [events EXCEPT ![r] = [any |-> TRUE, sum |-> @.sum + a]]

\* The guarded persist writes the output and its event in one transaction,
\* which the job's being live permits.
PersistedSuccess(c) ==
  /\ call[c].state = "calling"
  /\ rsv[call[c].rsv].outcome = "none"
  /\ RecordEvent(call[c].rsv)
  /\ call' = [call EXCEPT ![c].state = "done"]
  /\ UNCHANGED <<budget, rsv, hold, fin, over, updates, windows>>

\* recordDiscardedProviderSuccess: the event first ...
DiscardedSuccess(c) ==
  /\ call[c].state = "calling"
  /\ RecordEvent(call[c].rsv)
  /\ call' = [call EXCEPT ![c].state = "reconcile"]
  /\ UNCHANGED <<budget, rsv, hold, fin, over, updates, windows>>

\* Mutation: no GREATEST(.., 0).
AdjustedRowUnfloored(row, delta) == [row EXCEPT !.spent = @ + delta]

\* AdjustBudgetSpent.
AdjustedRow(row, delta) == [row EXCEPT !.spent = Floor(@ + delta)]

\* What the budgets are still to be charged.
Delta(r) == events[r].sum - rsv[r].charged

\* ReconcileReservationActual: the reported sum replaces what was charged.
Recharged(r) == events[r].sum

\* ... then ReconcileForReservation: a settled reservation is charged what the
\* events sum up to; one that reads as reserved is left to its finalizer.
ReconcileForReservation(c) ==
  LET r == call[c].rsv IN
  /\ call[c].state = "reconcile"
  /\ call' = [call EXCEPT ![c].state = "done"]
  /\ IF rsv[r].status \in Settled /\ events[r].any
     THEN /\ rsv' = [rsv EXCEPT ![r].charged = Recharged(r)]
          /\ budget' = [b \in Budgets |-> IF hold[r][b] \in Settled
                                          THEN AdjustedRow(budget[b], Delta(r))
                                          ELSE budget[b]]
          /\ over' = [b \in Budgets |-> IF hold[r][b] \in Settled
                                        THEN over[b] + Floor(Delta(r)) ELSE over[b]]
     ELSE UNCHANGED <<rsv, budget, over>>
  /\ UNCHANGED <<hold, fin, events, updates, windows>>

\* recordAttemptFailureWithCost: the event, and nothing else.
FailedCall(c) ==
  /\ CallsMayFail
  /\ call[c].state = "calling"
  /\ RecordEvent(call[c].rsv)
  /\ call' = [call EXCEPT ![c].state = "done"]
  /\ UNCHANGED <<budget, rsv, hold, fin, over, updates, windows>>

-----------------------------------------------------------------------------
(* Admins and the clock. *)

UpdateBudget(b) ==
  /\ updates < MaxAdminUpdates
  /\ updates' = updates + 1
  /\ \E limit \in Limits, status \in {"active", "paused", "exceeded"} :
       budget' = [budget EXCEPT ![b].limit = limit, ![b].status = status]
  /\ UNCHANGED <<rsv, hold, fin, events, call, over, windows>>

WindowElapses(b) ==
  /\ windows < MaxWindows
  /\ windows' = windows + 1
  /\ budget' = [budget EXCEPT ![b].elapsed = TRUE]
  /\ UNCHANGED <<rsv, hold, fin, events, call, over, updates>>

Next ==
  \/ \E r \in Reservations : \/ Reserve(r) \/ ReserveUnpriced(r) \/ JobEnds(r)
                             \/ BeginFinalize(r) \/ EndFinalize(r)
  \/ \E c \in Calls : \/ StartCall(c) \/ PersistedSuccess(c) \/ DiscardedSuccess(c)
                      \/ ReconcileForReservation(c) \/ FailedCall(c)
  \/ \E b \in Budgets : UpdateBudget(b) \/ WindowElapses(b)

Spec == Init /\ [][Next]_vars

-----------------------------------------------------------------------------
(* Safety. *)

HeldBy(b, statuses) == {r \in Reservations : hold[r][b] \in statuses}

SumOver(f, S) == MapThenSumSet(LAMBDA r : f[r], S)

Estimated == [r \in Reservations |-> rsv[r].est]
Charged == [r \in Reservations |-> rsv[r].charged]

\* reserved_amount is exactly what the live holds on the budget add up to:
\* whatever is denied half way, finalized by several parties, reset by a new
\* window or settled late, no hold leaks, none is given back twice, and the
\* GREATEST(.., 0) of the release never has to hide a difference.
ReservedMatchesHolds ==
  \A b \in Budgets :
    budget[b].reserved = SumOver(Estimated, HeldBy(b, {"reserved"}))

\* spent_amount is exactly what the settled reservations were charged, late
\* reconciliations included, as long as no window has elapsed.
SpentMatchesCharges ==
  windows = 0 =>
    \A b \in Budgets :
      budget[b].spent = SumOver(Charged, HeldBy(b, Settled))

\* Concurrent reservations never oversell a budget that enforces its limit:
\* what is held and spent stays within the limit, except for what providers
\* billed beyond what was set aside for it, because they charged more than the
\* estimate or reported after the hold was settled (until an admin moves the
\* limit or pauses the budget).
NeverOversold ==
  updates = 0 =>
    \A b \in Budgets : budget[b].reserved + budget[b].spent <= budget[b].limit + over[b]

\* A reservation is never charged more than providers reported for it, or than
\* the estimate when that is higher: no event is counted twice, however often
\* finalization and reconciliation overlap.
NeverOvercharged ==
  \A r \in Reservations :
    \/ rsv[r].charged <= rsv[r].est
    \/ rsv[r].charged <= events[r].sum

\* The books balance: both columns of a budget are the sums of the rows they
\* stand for, and no row was charged twice for an event, through denials, resets
\* of the window, repeated finalizations and late reconciliations.
BudgetsBalance == ReservedMatchesHolds /\ SpentMatchesCharges /\ NeverOvercharged

\* A hold always has the status of its reservation, and a reservation that was
\* denied left none: commit and release reverse exactly what Reserve did.
HoldsFollowReservation ==
  \A r \in Reservations, b \in Budgets : hold[r][b] \in {"none", rsv[r].status}

-----------------------------------------------------------------------------
(* What the documentation says, and the code does not. *)

QuietReservation(r) ==
  ~fin[r].open /\ \A c \in Calls : call[c].rsv = r => call[c].state \in {"new", "done"}

\* Once a settled reservation has no call in flight, it is charged what its
\* providers reported ("This closes the race where cancellation or a duplicate
\* winner finalizes before the losing provider call returns"; "each attempt
\* writes its own reservation-scoped cost event and is reconciled").
LateCostsCharged ==
  \A r \in Reservations :
    rsv[r].status \in Settled /\ events[r].any /\ QuietReservation(r)
      => rsv[r].charged = events[r].sum
=============================================================================
