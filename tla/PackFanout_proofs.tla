------------------------- MODULE PackFanout_proofs -------------------------
(***************************************************************************)
(* Theorems about module PackFanout, for any workers, roles, attempts,     *)
(* runs, cancels and faults: its types, its refinement of JobLifecycle,    *)
(* and what a settled pack says of its job.                                *)
(***************************************************************************)
EXTENDS PackFanout, TLAPS

-----------------------------------------------------------------------------
(* The invariant of the job row *)

\* The hold of the current run, by the status of the job.
HoldsFollowStatus ==
    /\ job.status \in Live => hold[job.run] = "reserved"
    /\ job.status = "completed" => hold[job.run] \in {"reserved", "committed"}
    /\ job.status = "failed" => hold[job.run] \in {"reserved", "released"}
    /\ job.status = "cancelled" => hold[job.run] = "released"

\* No task of a run that was not opened.
FutureRunsUntouched == \A r \in Runs : r > job.run => task[r].state = "none"

\* What a handler still knows of the row it read or wrote some steps ago: the
\* charge is due to the delivered run, the refund to a run that is over.
TailKnows(w) ==
    /\ Run(w) <= job.run
    /\ pc[w] = "complete" => loc[w].delivered # {}
    /\ pc[w] = "commit" => Run(w) = job.run /\ job.status = "completed"
    /\ pc[w] \in {"release", "correct", "failpack"}
         => Run(w) < job.run \/ job.status \in {"failed", "cancelled"}

RowInv ==
    /\ HoldsFollowStatus
    /\ FutureRunsUntouched
    /\ job.assets # {} <=> job.status = "completed"
    /\ \A w \in Workers : TailKnows(w)

-----------------------------------------------------------------------------
(* The invariant of the pack *)

\* The first run, no cancel, no lost lease.
Calm == job.run = 1 /\ cancels = 0 /\ lost = 0

\* A handler at work owns the task.
OwnsTask(w) == pc[w] # "idle" => task[1].owner = w /\ task[1].state = "active"

PackComplete == pack.delivered = items /\ pack.missing = Roles \ items

Starting == {"read", "claim", "prepare", "progress", "list"}
Working == {"prepare", "progress", "list", "item", "insert", "abort", "completeness",
            "packstatus", "complete", "fail"}

\* A role the handler passed and did not deliver.
Passed(w) == \E j \in 1..loc[w].next - 1 : j \notin loc[w].delivered

\* What a handler alone knows of the job, of the items and of what it wrote to
\* the pack.
HandlerKnows(w) ==
    /\ pc[w] \notin {"recheck", "nack"}
    /\ pc[w] \in Starting => loc[w].next = 1 /\ ~loc[w].failed
    /\ pc[w] = "claim" => job.status = loc[w].seen
    /\ pc[w] \in Working => job.status = "running"
    /\ pc[w] \in {"item", "insert", "abort", "completeness", "packstatus", "complete"}
         => loc[w].delivered = items
    /\ pc[w] \in {"item", "insert", "completeness", "packstatus", "complete"}
         => (loc[w].failed <=> Passed(w))
    /\ pc[w] = "insert" => loc[w].next \in Roles \ items
    /\ pc[w] \in {"completeness", "packstatus", "complete"} => loc[w].next = NRoles + 1
    /\ pc[w] \in {"packstatus", "complete"} => PackComplete
    /\ pc[w] = "complete" => pack.status = Outcome(w)
    /\ pc[w] = "abort" => loc[w].correct
    /\ pc[w] = "fail" => loc[w].correct \/ pack.status = "failed"
    /\ pc[w] \in {"correct", "failpack"} => job.status = "failed"
    /\ pc[w] \in {"release", "ack"} => (job.status = "failed" => pack.status = "failed")

\* The pack of a completed job.
CompletedAgrees ==
    /\ pack.status = IF pack.missing = {} THEN "completed" ELSE "completed_with_warnings"
    /\ PackComplete

CalmInv ==
    /\ job.status # "cancelled"
    /\ task[1].state # "none"
    /\ job.status = "completed" => CompletedAgrees
    /\ job.status = "failed" /\ task[1].state = "done" => pack.status = "failed"
    /\ \A w \in Workers : OwnsTask(w) /\ HandlerKnows(w)

PackInv == Calm => CalmInv

-----------------------------------------------------------------------------
(* Types *)

\* TypeOK, with a run for every handler at work, and the role it inserts.
TypeInv ==
    /\ TypeOK
    /\ \A w \in Workers : /\ pc[w] # "idle" => Run(w) \in Runs
                          /\ pc[w] = "insert" => loc[w].next \in Roles

\* The type of a handler's local variables, of a task and of a step.
Locals == [run : 0..MaxRuns, retry : 0..MaxAttempts - 1,
           seen : {"none", "queued", "running"}, next : 1..NRoles + 1,
           delivered : SUBSET Roles, failed : BOOLEAN, correct : BOOLEAN]
Tasks == [state : {"none", "pending", "active", "done", "archived"},
          retry : 0..MaxAttempts - 1, owner : Workers \cup {NoOne}]
Steps == Statements \cup {"idle", "prepare", "item", "ack", "nack"}

\* A handler moves and keeps its run.
LEMMA TypeMove ==
  ASSUME TypeInv, NEW w \in Workers, pc[w] # "idle", NEW s \in Steps, Goto(w, s),
         NEW l \in Locals, l.run = loc[w].run, loc' = [loc EXCEPT ![w] = l],
         s = "insert" => l.next \in Roles,
         (job \in [status : Live \cup {"completed", "failed", "cancelled"},
                   run : Runs, assets : SUBSET Roles])',
         (pack \in [status : {"planned", "in_progress", "completed",
                              "completed_with_warnings", "failed"},
                    delivered : SUBSET Roles, missing : SUBSET Roles])',
         (items \subseteq Roles)',
         (hold \in [Runs -> {"none", "reserved", "committed", "released"}])',
         UNCHANGED <<task, counters>>
  PROVE  TypeInv'
<1>1. loc' \in [Workers -> Locals] /\ pc' \in [Workers -> Steps]
  BY DEF TypeInv, TypeOK, Goto, Locals, Steps
<1>2. \A v \in Workers : /\ pc'[v] # "idle" => loc'[v].run \in Runs
                         /\ pc'[v] = "insert" => loc'[v].next \in Roles
  BY DEF TypeInv, TypeOK, Goto, Run
<1> QED
  BY <1>1, <1>2 DEF TypeInv, TypeOK, counters, Locals, Steps, Tasks, Run

\* The first locals of a delivery.
LEMMA FirstLocals == NoLocals \in Locals
BY PackAssumption DEF NoLocals, Locals, Roles

\* What the queue makes of a task.
LEMMA TypeRedelivered ==
  ASSUME NEW t \in Tasks
  PROVE  Redelivered(t) \in Tasks
BY PackAssumption DEF Redelivered, Tasks

\* A handler that is gone.
LEMMA TypeLeave ==
  ASSUME TypeInv, NEW w \in Workers, pc[w] # "idle", NEW a \in BOOLEAN, Leave(w, a),
         UNCHANGED <<job, pack, items, hold, cancels, lost>>, faults' \in 0..MaxFaults
  PROVE  TypeInv'
<1>1. loc' = [loc EXCEPT ![w] = NoLocals] /\ pc' = [pc EXCEPT ![w] = "idle"]
  BY DEF Leave, Goto
<1>2. loc' \in [Workers -> Locals] /\ pc' \in [Workers -> Steps]
  BY <1>1, FirstLocals DEF TypeInv, TypeOK, Locals, Steps
<1>3. \A v \in Workers : /\ pc'[v] # "idle" => loc'[v].run \in Runs
                         /\ pc'[v] = "insert" => loc'[v].next \in Roles
  BY <1>1 DEF TypeInv, TypeOK, Run
<1>4. task' \in [Runs -> Tasks]
  <2>1. task \in [Runs -> Tasks] /\ Run(w) \in Runs
    BY DEF TypeInv, TypeOK, Tasks
  <2>2. task[Run(w)] \in Tasks
    BY <2>1
  <2>3. [state |-> "done", retry |-> task[Run(w)].retry, owner |-> NoOne] \in Tasks
    BY <2>2 DEF Tasks
  <2> QED BY <2>1, <2>2, <2>3, TypeRedelivered DEF Leave
<1> QED
  BY <1>2, <1>3, <1>4 DEF TypeInv, TypeOK, Locals, Steps, Tasks, Run

\* A handler keeps its locals.
LEMMA SameLocals ==
  ASSUME TypeInv, NEW w \in Workers, UNCHANGED loc
  PROVE  loc[w] \in Locals /\ loc' = [loc EXCEPT ![w] = loc[w]]
BY DEF TypeInv, TypeOK, Locals

\* The handler's steps between a delivery and its return.
HandlerStep(w) ==
    \/ ReadJob(w) \/ CorrectPack(w) \/ Claim(w) \/ Prepare(w)
    \/ MarkInProgress(w) \/ ListItems(w) \/ GenerateItem(w) \/ InsertItem(w)
    \/ Recheck(w) \/ AbortPack(w) \/ UpdateCompleteness(w) \/ UpdatePackStatus(w)
    \/ MarkCompleted(w) \/ MarkFailed(w) \/ FailPack(w)
    \/ CommitReservation(w) \/ ReleaseReservation(w)

\* The next step and the next locals of a handler.
Moves(w) ==
  /\ pc[w] # "idle"
  /\ \E s \in Steps, l \in Locals :
        /\ Goto(w, s) /\ loc' = [loc EXCEPT ![w] = l]
        /\ l.run = loc[w].run
        /\ s = "insert" => l.next \in Roles

\* Such a move, when the handler does not go on to insert an item.
LEMMA MovesTo ==
  ASSUME NEW w \in Workers, pc[w] # "idle", NEW s \in Steps, s # "insert", Goto(w, s),
         NEW l \in Locals, l.run = loc[w].run, loc' = [loc EXCEPT ![w] = l]
  PROVE  Moves(w)
BY DEF Moves

\* Every step of the handler is one.
LEMMA HandlerMoves ==
  ASSUME TypeInv, NEW w \in Workers, HandlerStep(w)
  PROVE  Moves(w)
<1>0. loc \in [Workers -> Locals] /\ loc[w] \in Locals /\ pc \in [Workers -> Steps]
  BY DEF TypeInv, TypeOK, Locals, Steps
<1>1. CASE /\ UNCHANGED loc /\ pc[w] # "idle"
           /\ \E s \in Steps : Goto(w, s) /\ (s = "insert" => loc[w].next \in Roles)
  BY <1>1, SameLocals DEF Moves
<1>2. CASE UNCHANGED loc
  <2>1. pc[w] # "idle"
    BY DEF HandlerStep, ReadJob, CorrectPack, Claim, Prepare, MarkInProgress, ListItems,
           GenerateItem, InsertItem, Recheck, AbortPack, UpdateCompleteness,
           UpdatePackStatus, MarkCompleted, MarkFailed, FailPack, CommitReservation,
           ReleaseReservation
  <2>2. CASE ReadJob(w)
    <3>1. CASE ~OwnsRow(w)
      BY <1>1, <1>2, <2>1, <2>2, <3>1 DEF ReadJob, Steps, Statements, Goto
    <3>2. CASE OwnsRow(w) /\ job.status \in Live
      BY <1>1, <1>2, <2>1, <2>2, <3>2 DEF ReadJob, Steps, Statements
    <3>3. CASE OwnsRow(w) /\ job.status \notin Live
      <4>1. job.status \in {"completed", "failed", "cancelled"}
        BY <3>3 DEF TypeInv, TypeOK
      <4> QED BY <1>1, <1>2, <2>1, <2>2, <3>3, <4>1 DEF ReadJob, Steps, Statements
    <3> QED BY <3>1, <3>2, <3>3
  <2>3. CASE \/ CorrectPack(w) \/ Claim(w) \/ Prepare(w) \/ MarkInProgress(w) \/ ListItems(w)
             \/ Recheck(w) \/ AbortPack(w)
    BY <1>1, <1>2, <2>1, <2>3
       DEF CorrectPack, Claim, Prepare, MarkInProgress, ListItems, Recheck, AbortPack, Steps,
           Statements
  <2>4. CASE \/ UpdateCompleteness(w) \/ UpdatePackStatus(w) \/ MarkCompleted(w)
             \/ MarkFailed(w) \/ FailPack(w) \/ CommitReservation(w) \/ ReleaseReservation(w)
    BY <1>1, <1>2, <2>1, <2>4
       DEF UpdateCompleteness, UpdatePackStatus, MarkCompleted, MarkFailed, FailPack,
           CommitReservation, ReleaseReservation, Steps, Statements
  <2>5. CASE InsertItem(w)
    BY <1>1, <1>2, <2>1, <2>5 DEF InsertItem, Steps, Statements
  <2>6. CASE GenerateItem(w)
    <3>1. CASE UNCHANGED pc
      <4>1. Goto(w, pc[w]) /\ pc[w] \in Steps /\ pc[w] = "item"
        BY <1>0, <2>6, <3>1 DEF Goto, GenerateItem
      <4> QED BY <1>1, <1>2, <2>1, <4>1
    <3>2. CASE Goto(w, "completeness") \/ Goto(w, "abort")
      BY <1>1, <1>2, <2>1, <3>2 DEF Steps, Statements
    <3>3. CASE Goto(w, "insert") /\ loc[w].next <= NRoles
      <4>1. loc[w].next \in Roles
        BY <1>0, <3>3, PackAssumption DEF Locals, Roles
      <4> QED BY <1>1, <1>2, <2>1, <3>3, <4>1 DEF Steps, Statements
    <3> QED BY <2>6, <3>1, <3>2, <3>3 DEF GenerateItem
  <2> QED BY <2>2, <2>3, <2>4, <2>5, <2>6 DEF HandlerStep
<1>3. CASE ~UNCHANGED loc
  <2>1. CASE ReadJob(w)
    <3>1. loc' = [loc EXCEPT ![w].seen = job.status] /\ job.status \in Live /\ Goto(w, "claim")
          /\ pc[w] = "read"
      BY <1>3, <2>1 DEF ReadJob
    <3> DEFINE l == [loc[w] EXCEPT !.seen = job.status]
    <3>2. l \in Locals /\ l.run = loc[w].run
      BY <1>0, <3>1 DEF Locals, Live
    <3>3. loc' = [loc EXCEPT ![w] = l]
      BY <1>0, <3>1
    <3> HIDE DEF l
    <3> QED
      <4>1. {"claim", "fail", "item"} \subseteq Steps
        BY DEF Steps, Statements
      <4> QED BY <3>1, <3>2, <3>3, <4>1, MovesTo
  <2>2. CASE Prepare(w)
    <3>1. /\ loc' = [loc EXCEPT ![w].correct = TRUE] /\ Goto(w, "fail") /\ pc[w] = "prepare"
      BY <1>3, <2>2 DEF Prepare
    <3> DEFINE l == [loc[w] EXCEPT !.correct = TRUE]
    <3>2. l \in Locals /\ l.run = loc[w].run
      BY <1>0 DEF Locals
    <3>3. loc' = [loc EXCEPT ![w] = l]
      BY <1>0, <3>1
    <3> HIDE DEF l
    <3> QED
      <4>1. {"claim", "fail", "item"} \subseteq Steps
        BY DEF Steps, Statements
      <4> QED BY <3>1, <3>2, <3>3, <4>1, MovesTo
  <2>3. CASE ListItems(w)
    <3>1. /\ loc' = [loc EXCEPT ![w].delivered = items] /\ Goto(w, "item") /\ pc[w] = "list"
      BY <2>3 DEF ListItems
    <3> DEFINE l == [loc[w] EXCEPT !.delivered = items]
    <3>2. l \in Locals /\ l.run = loc[w].run
      BY <1>0 DEF Locals, TypeInv, TypeOK
    <3>3. loc' = [loc EXCEPT ![w] = l]
      BY <1>0, <3>1
    <3> HIDE DEF l
    <3> QED
      <4>1. {"claim", "fail", "item"} \subseteq Steps
        BY DEF Steps, Statements
      <4> QED BY <3>1, <3>2, <3>3, <4>1, MovesTo
  <2>4. CASE GenerateItem(w)
    <3> DEFINE i == loc[w].next
    <3>0. i \in 1..NRoles + 1 /\ pc[w] = "item" /\ Goto(w, pc[w]) = (pc' = pc) /\ NRoles \in Nat
      BY <1>0, <2>4, PackAssumption DEF GenerateItem, Locals, Goto
    <3>1. CASE i <= NRoles /\ loc' = [loc EXCEPT ![w].next = i + 1] /\ UNCHANGED pc
      <4>1. [loc[w] EXCEPT !.next = i + 1] \in Locals
        BY <1>0, <3>0, <3>1 DEF Locals
      <4> QED BY <1>0, <3>0, <3>1, <4>1 DEF Moves, Locals
    <3>2. CASE i <= NRoles /\ loc' = [loc EXCEPT ![w].next = i + 1, ![w].failed = TRUE]
               /\ UNCHANGED pc
      <4>1. [loc[w] EXCEPT !.next = i + 1, !.failed = TRUE] \in Locals
        <5>1. i + 1 \in 1..NRoles + 1
          BY <3>0, <3>2
        <5> QED BY <1>0, <5>1 DEF Locals
      <4>2. loc' = [loc EXCEPT ![w] = [loc[w] EXCEPT !.next = i + 1, !.failed = TRUE]]
        BY <1>0, <3>2
      <4> QED BY <1>0, <3>0, <3>2, <4>1, <4>2 DEF Moves, Locals
    <3>3. CASE loc' = [loc EXCEPT ![w].correct = TRUE] /\ Goto(w, "abort")
      <4>1. [loc[w] EXCEPT !.correct = TRUE] \in Locals
        BY <1>0 DEF Locals
      <4> QED BY <1>0, <3>0, <3>3, <4>1 DEF Moves, Steps, Statements, Locals
    <3> QED BY <1>3, <2>4, <3>1, <3>2, <3>3 DEF GenerateItem
  <2>5. CASE InsertItem(w)
    <3> DEFINE i == loc[w].next
    <3> DEFINE d == IF i \in items THEN loc[w].delivered ELSE loc[w].delivered \cup {i}
    <3> DEFINE f == loc[w].failed \/ i \in items
    <3>1. /\ loc' = [loc EXCEPT ![w].next = i + 1,
                          ![w].delivered = IF i \in items THEN @ ELSE @ \cup {i},
                          ![w].failed = @ \/ i \in items]
          /\ Goto(w, "item") /\ pc[w] = "insert"
      BY <1>3, <2>5 DEF InsertItem
    <3>a. /\ i \in Roles /\ i + 1 \in 1..NRoles + 1 /\ f \in BOOLEAN /\ d \in SUBSET Roles
      BY <1>0, <3>1, PackAssumption DEF TypeInv, Roles, Locals
    <3> HIDE DEF d, f
    <3> DEFINE l == [loc[w] EXCEPT !.next = i + 1, !.delivered = d, !.failed = f]
    <3>2. l \in Locals /\ l.run = loc[w].run
      BY <1>0, <3>a DEF Locals
    <3>3. loc' = [loc EXCEPT ![w] = l]
      BY <1>0, <3>1 DEF d, f
    <3> HIDE DEF l
    <3> QED
      <4>1. {"claim", "fail", "item"} \subseteq Steps
        BY DEF Steps, Statements
      <4> QED BY <3>1, <3>2, <3>3, <4>1, MovesTo
  <2> QED BY <1>3, <2>1, <2>2, <2>3, <2>4, <2>5
       DEF HandlerStep, CorrectPack, Claim, MarkInProgress, Recheck, AbortPack,
           UpdateCompleteness, UpdatePackStatus, MarkCompleted, MarkFailed, FailPack,
           CommitReservation, ReleaseReservation
<1> QED BY <1>2, <1>3

\* Init is well typed.
LEMMA TypeInit == Init => TypeInv
<1> SUFFICES ASSUME Init PROVE TypeInv
  OBVIOUS
<1>1. loc \in [Workers -> Locals] /\ pc \in [Workers -> Steps]
  BY FirstLocals DEF Init, Steps
<1>2. task \in [Runs -> Tasks]
  BY PackAssumption DEF Init, Tasks
<1>3. hold \in [Runs -> {"none", "reserved", "committed", "released"}]
  BY DEF Init
<1>4. pack \in [status : {"planned", "in_progress", "completed", "completed_with_warnings",
                          "failed"},
                delivered : SUBSET Roles, missing : SUBSET Roles]
  BY PackAssumption DEF Init, Roles
<1>5. job \in [status : Live \cup {"completed", "failed", "cancelled"},
               run : Runs, assets : SUBSET Roles] /\ items \subseteq Roles
  BY PackAssumption DEF Init, Roles, Runs, Live
<1>6. cancels \in 0..MaxCancels /\ faults \in 0..MaxFaults /\ lost \in 0..MaxLostLeases
  BY PackAssumption DEF Init
<1>7. TypeOK
  BY <1>1, <1>2, <1>3, <1>4, <1>5, <1>6 DEF TypeOK, Locals, Tasks, Steps
<1> QED
  BY <1>7 DEF TypeInv, Init

\* Every step keeps the types.
LEMMA TypeStep == TypeInv /\ [Next]_vars => TypeInv'
<1> SUFFICES ASSUME TypeInv, [Next]_vars PROVE TypeInv'
  OBVIOUS
<1>0. /\ loc \in [Workers -> Locals] /\ task \in [Runs -> Tasks] /\ pc \in [Workers -> Steps]
      /\ job.run \in Runs /\ MaxRuns \in Nat
  BY PackAssumption DEF TypeInv, TypeOK, Locals, Tasks, Steps
<1>1. ASSUME NEW w \in Workers, HandlerStep(w) PROVE TypeInv'
  <2>1. PICK s \in Steps, l \in Locals :
           /\ Goto(w, s) /\ loc' = [loc EXCEPT ![w] = l] /\ l.run = loc[w].run
           /\ s = "insert" => l.next \in Roles
    BY <1>1, HandlerMoves DEF Moves
  <2>2. pc[w] # "idle"
    BY <1>1, HandlerMoves DEF Moves
  <2>3. UNCHANGED <<task, counters>>
    BY <1>1 DEF HandlerStep, ReadJob, CorrectPack, Claim, Prepare, MarkInProgress, ListItems,
           GenerateItem, InsertItem, Recheck, AbortPack, UpdateCompleteness,
           UpdatePackStatus, MarkCompleted, MarkFailed, FailPack, CommitReservation,
           ReleaseReservation
  <2>4. (job \in [status : Live \cup {"completed", "failed", "cancelled"},
                  run : Runs, assets : SUBSET Roles])'
    <3>1. loc[w].delivered \in SUBSET Roles
      BY <1>0 DEF Locals
    <3> QED BY <1>1, <3>1 DEF TypeInv, TypeOK, Live,
           HandlerStep, ReadJob, CorrectPack, Claim, Prepare, MarkInProgress, ListItems,
           GenerateItem, InsertItem, Recheck, AbortPack, UpdateCompleteness,
           UpdatePackStatus, MarkCompleted, MarkFailed, FailPack, CommitReservation,
           ReleaseReservation
  <2>5. (pack \in [status : {"planned", "in_progress", "completed",
                             "completed_with_warnings", "failed"},
                   delivered : SUBSET Roles, missing : SUBSET Roles])'
    <3>1. loc[w].delivered \in SUBSET Roles /\ Outcome(w) \in {"completed",
                             "completed_with_warnings", "failed"}
      BY <1>0 DEF Locals, Outcome
    <3>2. CASE \E t \in {"in_progress", "completed", "completed_with_warnings", "failed"} :
                 pack' = WithStatus(t)
      BY <3>2 DEF TypeInv, TypeOK, WithStatus
    <3>3. CASE pack' = Completeness(w)
      <4>1. Roles \ loc[w].delivered \in SUBSET Roles
        BY <3>1
      <4> HIDE DEF Roles
      <4> QED BY <3>1, <3>3, <4>1 DEF TypeInv, TypeOK, Completeness
    <3>4. CASE UNCHANGED pack
      BY <3>4 DEF TypeInv, TypeOK
    <3>5. \/ UNCHANGED pack \/ pack' = Completeness(w)
          \/ pack' = WithStatus("in_progress") \/ pack' = WithStatus("failed")
          \/ pack' = WithStatus(Outcome(w))
      BY <1>1 DEF HandlerStep, ReadJob, CorrectPack, Claim, Prepare, MarkInProgress, ListItems,
           GenerateItem, InsertItem, Recheck, AbortPack, UpdateCompleteness,
           UpdatePackStatus, MarkCompleted, MarkFailed, FailPack, CommitReservation,
           ReleaseReservation
    <3> QED BY <3>1, <3>2, <3>3, <3>4, <3>5
  <2>6. (items \subseteq Roles)'
    <3>1. CASE InsertItem(w)
      <4>1. loc[w].next \in Roles
        BY <3>1 DEF InsertItem, TypeInv
      <4> QED BY <3>1, <4>1 DEF InsertItem, TypeInv, TypeOK
    <3>2. CASE UNCHANGED items
      BY <3>2 DEF TypeInv, TypeOK, Roles
    <3> QED BY <1>1, <3>1, <3>2 DEF HandlerStep, ReadJob, CorrectPack, Claim, Prepare,
           MarkInProgress, ListItems, GenerateItem, Recheck, AbortPack, UpdateCompleteness,
           UpdatePackStatus, MarkCompleted, MarkFailed, FailPack, CommitReservation,
           ReleaseReservation
  <2>7. (hold \in [Runs -> {"none", "reserved", "committed", "released"}])'
    BY <1>1 DEF TypeInv, TypeOK, Finalized, Runs,
           HandlerStep, ReadJob, CorrectPack, Claim, Prepare, MarkInProgress, ListItems,
           GenerateItem, InsertItem, Recheck, AbortPack, UpdateCompleteness,
           UpdatePackStatus, MarkCompleted, MarkFailed, FailPack, CommitReservation,
           ReleaseReservation
  <2> QED BY <2>1, <2>2, <2>3, <2>4, <2>5, <2>6, <2>7, TypeMove
<1>2. ASSUME NEW w \in Workers, HandlerReturns(w) PROVE TypeInv'
  <2>1. (pc[w] = "ack") \in BOOLEAN /\ pc[w] # "idle" /\ Leave(w, pc[w] = "ack")
    BY <1>2 DEF HandlerReturns
  <2>2. UNCHANGED <<job, pack, items, hold, cancels, lost>> /\ faults' \in 0..MaxFaults
    BY <1>2 DEF HandlerReturns, counters, TypeInv, TypeOK
  <2> QED BY <2>1, <2>2, TypeLeave
<1>3. ASSUME NEW w \in Workers, Fault(w) PROVE TypeInv'
  <2>1. pc[w] # "idle" /\ Leave(w, FALSE)
    BY <1>3 DEF Fault, Statements
  <2>2. UNCHANGED <<job, pack, items, hold, cancels, lost>> /\ faults' \in 0..MaxFaults
    BY <1>3, PackAssumption DEF Fault, TypeInv, TypeOK
  <2> QED BY <2>1, <2>2, TypeLeave
<1>4. ASSUME NEW w \in Workers, Dequeue(w) PROVE TypeInv'
  <2>1. PICK r \in Runs :
          /\ task' = [task EXCEPT ![r].state = "active", ![r].owner = w]
          /\ loc' = [loc EXCEPT ![w] = [NoLocals EXCEPT !.run = r, !.retry = task[r].retry]]
    BY <1>4 DEF Dequeue
  <2>2. pc' = [pc EXCEPT ![w] = "read"] /\ UNCHANGED <<job, pack, items, hold, counters>>
    BY <1>4 DEF Dequeue, Goto
  <2>3. task' \in [Runs -> Tasks]
    BY <1>0, <2>1 DEF Tasks
  <2>4. [NoLocals EXCEPT !.run = r, !.retry = task[r].retry] \in Locals
    <3>1. task[r].retry \in 0..MaxAttempts - 1 /\ r \in 0..MaxRuns
      BY <1>0 DEF Tasks, Runs
    <3> QED BY <3>1, FirstLocals DEF Locals, NoLocals
  <2>5. loc' \in [Workers -> Locals] /\ pc' \in [Workers -> Steps]
    BY <1>0, <2>1, <2>2, <2>4 DEF Steps, Statements
  <2>6. \A v \in Workers : /\ pc'[v] # "idle" => loc'[v].run \in Runs
                           /\ pc'[v] = "insert" => loc'[v].next \in Roles
    BY <1>0, <2>1, <2>2 DEF TypeInv, Run, NoLocals
  <2> QED BY <2>2, <2>3, <2>5, <2>6 DEF TypeInv, TypeOK, Locals, Tasks, Steps, counters, Run
<1>5. ASSUME NEW w \in Workers, LoseLease(w) PROVE TypeInv'
  <2>1. Run(w) \in Runs /\ task' = [task EXCEPT ![Run(w)] = Redelivered(task[Run(w)])]
        /\ lost' \in 0..MaxLostLeases
    BY <1>5, PackAssumption DEF LoseLease, TypeInv, TypeOK
  <2>2. task' \in [Runs -> Tasks]
    BY <1>0, <2>1, TypeRedelivered
  <2> QED BY <1>5, <2>1, <2>2 DEF LoseLease, TypeInv, TypeOK, Tasks, Run
<1>6. CASE CancelJob
  <2>1. cancels' \in 0..MaxCancels
    BY <1>6, PackAssumption DEF CancelJob, TypeInv, TypeOK
  <2> QED BY <1>6, <2>1 DEF CancelJob, TypeInv, TypeOK, WithStatus, Finalized, Run
<1>7. CASE RetryJob
  <2>1. job.run + 1 \in Runs
    BY <1>0, <1>7 DEF RetryJob, Runs
  <2>2. task' \in [Runs -> Tasks]
    BY <1>0, <1>7 DEF RetryJob, Tasks
  <2>3. hold' \in [Runs -> {"none", "reserved", "committed", "released"}]
    BY <1>7 DEF RetryJob, TypeInv, TypeOK, Finalized
  <2>4. job' \in [status : Live \cup {"completed", "failed", "cancelled"},
                  run : Runs, assets : SUBSET Roles]
    BY <1>7, <2>1 DEF RetryJob, TypeInv, TypeOK, Live
  <2> QED BY <1>7, <2>2, <2>3, <2>4 DEF RetryJob, TypeInv, TypeOK, Tasks, counters, Run
<1>8. CASE UNCHANGED vars
  BY <1>8 DEF vars, TypeInv, TypeOK, Run
<1> QED
  BY <1>1, <1>2, <1>3, <1>4, <1>5, <1>6, <1>7, <1>8 DEF Next, WorkerStep, HandlerStep

\* Every variable keeps its type.
THEOREM TypeCorrect == Spec => []TypeOK
<1>1. TypeInv => TypeOK
  BY DEF TypeInv
<1> QED
  BY <1>1, TypeInit, TypeStep, PTL DEF Spec

-----------------------------------------------------------------------------
(* The row *)

\* The row keeps its run while it is live, is left alone once it is terminal,
\* and a failed one is reopened under the next run.
RowMoves ==
  \/ job'.run = job.run /\ (job' = job \/ job.status \in Live)
  \/ job'.run = job.run + 1 /\ job.status = "failed"

\* Runs are natural numbers.
LEMMA RunTypes ==
  ASSUME TypeInv
  PROVE  /\ job.run \in Runs /\ job.run \in Nat /\ MaxRuns \in Nat
         /\ \A r \in Runs : r \in Nat
         /\ \A w \in Workers : Run(w) \in Nat
BY PackAssumption DEF TypeInv, TypeOK, Runs, Run

\* Handlers that do not move keep what they know, however the row moves.
LEMMA OthersKnow ==
  ASSUME TypeInv, NEW v \in Workers, TailKnows(v), RowMoves,
         pc'[v] = pc[v], loc'[v] = loc[v]
  PROVE  TailKnows(v)'
<1>1. job.run \in Nat /\ Run(v) \in Nat
  BY RunTypes
<1>2. CASE job' = job
  BY <1>2 DEF TailKnows, Run
<1>3. CASE job'.run = job.run /\ job.status \in Live
  BY <1>1, <1>3 DEF TailKnows, Run, Live
<1>4. CASE job'.run = job.run + 1 /\ job.status = "failed"
  BY <1>1, <1>4 DEF TailKnows, Run
<1> QED BY <1>2, <1>3, <1>4 DEF RowMoves

\* Finalizing touches a reserved hold of its run, and nothing else.
LEMMA FinalizedOnce ==
  ASSUME TypeInv, NEW r \in Runs, NEW q \in Runs, NEW s
  PROVE  Finalized(r, s)[q] = IF q = r /\ hold[r] = "reserved" THEN s ELSE hold[q]
BY DEF Finalized, TypeInv, TypeOK

\* A step of w that leaves the row, the holds and future tasks alone.
LEMMA RowFrame ==
  ASSUME TypeInv, RowInv, NEW w \in Workers, UNCHANGED <<job, hold>>,
         \A v \in Workers \ {w} : pc'[v] = pc[v] /\ loc'[v] = loc[v],
         FutureRunsUntouched', TailKnows(w)'
  PROVE  RowInv'
<1>1. RowMoves
  BY DEF RowMoves
<1>2. \A v \in Workers : TailKnows(v)'
  BY <1>1, OthersKnow DEF RowInv
<1> QED
  BY <1>2 DEF RowInv, HoldsFollowStatus

\* Only the handler that takes the step moves.
LEMMA OneMoves ==
  ASSUME TypeInv, NEW w \in Workers, HandlerStep(w)
  PROVE  /\ \A v \in Workers \ {w} : pc'[v] = pc[v] /\ loc'[v] = loc[v]
         /\ Run(w)' = Run(w)
         /\ UNCHANGED <<task, counters>>
<1>1. PICK s \in Steps, l \in Locals :
         /\ Goto(w, s) /\ loc' = [loc EXCEPT ![w] = l] /\ l.run = loc[w].run
         /\ s = "insert" => l.next \in Roles
  BY HandlerMoves DEF Moves
<1>2. UNCHANGED <<task, counters>>
  BY DEF HandlerStep, ReadJob, CorrectPack, Claim, Prepare, MarkInProgress, ListItems,
         GenerateItem, InsertItem, Recheck, AbortPack, UpdateCompleteness,
         UpdatePackStatus, MarkCompleted, MarkFailed, FailPack, CommitReservation,
         ReleaseReservation
<1> QED BY <1>1, <1>2 DEF TypeInv, TypeOK, Goto, Run

\* The steps that read the row or write the pack.
LEMMA RowReads ==
  ASSUME TypeInv, RowInv, NEW w \in Workers, HandlerStep(w), UNCHANGED <<job, hold>>
  PROVE  RowInv'
<1>1. /\ \A v \in Workers \ {w} : pc'[v] = pc[v] /\ loc'[v] = loc[v]
      /\ Run(w)' = Run(w) /\ UNCHANGED <<task, counters>>
  BY OneMoves
<1>2. FutureRunsUntouched'
  BY <1>1 DEF RowInv, FutureRunsUntouched
<1>3. TailKnows(w) /\ job.run \in Nat /\ Run(w) \in Nat /\ pc \in [Workers -> Steps]
      /\ loc \in [Workers -> Locals]
  BY RunTypes DEF RowInv, TypeInv, TypeOK, Steps, Locals
<1>4. CASE pc'[w] \notin {"complete", "commit", "release", "correct", "failpack"}
  BY <1>1, <1>2, <1>3, <1>4, RowFrame DEF TailKnows
<1>5. CASE ReadJob(w)
  <2>1. OwnsRow(w) /\ job.status \notin Live =>
          job.status \in {"completed", "failed", "cancelled"}
    BY DEF TypeInv, TypeOK
  <2>2. \/ pc'[w] \in {"ack", "claim"}
        \/ job.status = "completed" /\ OwnsRow(w) /\ pc'[w] = "commit"
        \/ job.status \in {"failed", "cancelled"} /\ pc'[w] \in {"correct", "release"}
    BY <1>3, <1>5, <2>1 DEF ReadJob, Goto
  <2> QED BY <1>1, <1>2, <1>3, <1>4, <2>2, RowFrame DEF TailKnows, OwnsRow
<1>6. CASE CorrectPack(w) \/ FailPack(w)
  <2>1. pc[w] \in {"correct", "failpack"} /\ pc'[w] = "release"
    BY <1>3, <1>6 DEF CorrectPack, FailPack, Goto
  <2> QED BY <1>1, <1>2, <1>3, <2>1, RowFrame DEF TailKnows
<1>7. CASE Recheck(w)
  <2>1. pc'[w] = "ack" \/ (pc'[w] = "release" /\ job.status = "cancelled")
    BY <1>3, <1>7 DEF Recheck, Goto
  <2> QED BY <1>1, <1>2, <1>3, <1>4, <2>1, RowFrame DEF TailKnows
<1>8. CASE UpdatePackStatus(w)
  <2>1. pc'[w] = "fail" \/ (pc'[w] = "complete" /\ loc'[w].delivered # {})
    BY <1>3, <1>8 DEF UpdatePackStatus, Goto
  <2> QED BY <1>1, <1>2, <1>3, <1>4, <2>1, RowFrame DEF TailKnows
<1>9. CASE MarkCompleted(w) \/ MarkFailed(w)
  <2>1. (job.status \in Live /\ job' # job) \/ pc'[w] = "nack"
    BY <1>3, <1>9 DEF MarkCompleted, MarkFailed, CanComplete, CanFail, Live, Goto, TypeInv, TypeOK
  <2> QED BY <1>4, <2>1
<1>10. CASE \/ Claim(w) \/ Prepare(w) \/ MarkInProgress(w) \/ ListItems(w) \/ InsertItem(w)
            \/ AbortPack(w) \/ UpdateCompleteness(w) \/ CommitReservation(w)
            \/ ReleaseReservation(w)
  <2>1. pc'[w] \in {"prepare", "ack", "progress", "fail", "list", "item", "recheck", "packstatus"}
    BY <1>3, <1>10 DEF Claim, Prepare, MarkInProgress, ListItems, InsertItem, AbortPack,
                       UpdateCompleteness, CommitReservation, ReleaseReservation, Goto
  <2> QED BY <1>4, <2>1
<1>11. CASE GenerateItem(w)
  <2>1. pc'[w] \in {"item", "completeness", "insert", "abort"}
    BY <1>3, <1>11 DEF GenerateItem, Goto
  <2> QED BY <1>4, <2>1
<1> QED BY <1>5, <1>6, <1>7, <1>8, <1>9, <1>10, <1>11 DEF HandlerStep

\* The steps that write the row: a claim, a completion or a failure, each of a
\* live row whose run is the handler's.
LEMMA RowWrites ==
  ASSUME TypeInv, RowInv, NEW w \in Workers, Claim(w) \/ MarkCompleted(w) \/ MarkFailed(w),
         job' # job
  PROVE  RowInv'
<1>0. HandlerStep(w)
  BY DEF HandlerStep
<1>1. /\ \A v \in Workers \ {w} : pc'[v] = pc[v] /\ loc'[v] = loc[v]
      /\ Run(w)' = Run(w) /\ UNCHANGED <<task, counters>>
  BY <1>0, OneMoves
<1>2. TailKnows(w) /\ job.run \in Nat /\ pc \in [Workers -> Steps] /\ hold' = hold
  BY RunTypes DEF RowInv, TypeInv, TypeOK, Steps, Claim, MarkCompleted, MarkFailed
<1>3. /\ Run(w) = job.run /\ job.status \in Live /\ job'.run = job.run
      /\ \/ pc'[w] = "prepare" /\ job'.status = "running" /\ job'.assets = job.assets
         \/ /\ pc'[w] = "commit" /\ job'.status = "completed"
            /\ pc[w] = "complete" /\ job'.assets = loc[w].delivered
         \/ /\ pc'[w] \in {"failpack", "release"} /\ job'.status = "failed"
            /\ job'.assets = job.assets
  BY <1>2 DEF Claim, MarkCompleted, MarkFailed, CanComplete, CanFail, OwnsRow, Goto, Live,
              TypeInv, TypeOK
<1>4. RowMoves
  BY <1>3 DEF RowMoves
<1>5. \A v \in Workers : TailKnows(v)'
  <2>1. TailKnows(w)'
    BY <1>1, <1>2, <1>3 DEF TailKnows
  <2> QED BY <1>1, <1>4, <2>1, OthersKnow DEF RowInv
<1>6. HoldsFollowStatus'
  BY <1>2, <1>3 DEF RowInv, HoldsFollowStatus, Live
<1>7. FutureRunsUntouched'
  BY <1>1, <1>3 DEF RowInv, FutureRunsUntouched
<1>8. (job.assets # {} <=> job.status = "completed")'
  BY <1>2, <1>3 DEF RowInv, TailKnows, Live
<1> QED BY <1>5, <1>6, <1>7, <1>8 DEF RowInv

\* A finalization is of the run that the handler knows about.
LEMMA RowHolds ==
  ASSUME TypeInv, RowInv, NEW w \in Workers, CommitReservation(w) \/ ReleaseReservation(w)
  PROVE  /\ RowInv'
         /\ \/ hold'[job.run] = hold[job.run]
            \/ /\ hold[job.run] = "reserved" /\ job.status = "completed"
               /\ hold'[job.run] = "committed"
            \/ /\ hold[job.run] = "reserved" /\ job.status \in {"failed", "cancelled"}
               /\ hold'[job.run] = "released"
<1>0. HandlerStep(w)
  BY DEF HandlerStep
<1>1. /\ \A v \in Workers \ {w} : pc'[v] = pc[v] /\ loc'[v] = loc[v]
      /\ Run(w)' = Run(w) /\ UNCHANGED <<task, counters>>
  BY <1>0, OneMoves
<1>2. /\ TailKnows(w) /\ job.run \in Nat /\ Run(w) \in Nat /\ job.run \in Runs
      /\ job' = job /\ pc'[w] = "ack" /\ Run(w) \in Runs
  BY RunTypes DEF RowInv, TypeInv, TypeOK, Steps, CommitReservation, ReleaseReservation, Goto
<1>3. \/ hold'[job.run] = hold[job.run]
      \/ /\ hold[job.run] = "reserved" /\ job.status = "completed"
         /\ hold'[job.run] = "committed"
      \/ /\ hold[job.run] = "reserved" /\ job.status \in {"failed", "cancelled"}
         /\ hold'[job.run] = "released"
  <2>1. CASE CommitReservation(w)
    <3>1. hold' = Finalized(Run(w), "committed") /\ job.status = "completed"
      BY <1>2, <2>1 DEF CommitReservation, TailKnows
    <3> QED BY <1>2, <3>1, FinalizedOnce
  <2>2. CASE ReleaseReservation(w)
    <3>1. hold' = Finalized(Run(w), "released")
          /\ (Run(w) # job.run \/ job.status \in {"failed", "cancelled"})
      BY <1>2, <2>2 DEF ReleaseReservation, TailKnows
    <3> QED BY <1>2, <3>1, FinalizedOnce
  <2> QED BY <2>1, <2>2
<1>4. HoldsFollowStatus'
  BY <1>2, <1>3 DEF RowInv, HoldsFollowStatus, Live
<1>5. RowMoves
  BY <1>2 DEF RowMoves
<1>6. \A v \in Workers : TailKnows(v)'
  <2>1. TailKnows(w)'
    BY <1>1, <1>2 DEF TailKnows
  <2> QED BY <1>1, <1>5, <2>1, OthersKnow DEF RowInv
<1>7. FutureRunsUntouched'
  BY <1>1, <1>2 DEF RowInv, FutureRunsUntouched
<1> QED BY <1>2, <1>3, <1>4, <1>6, <1>7 DEF RowInv

\* A redelivered or archived task was there.
LEMMA TaskStays ==
  ASSUME TypeInv, FutureRunsUntouched, NEW r \in Runs, r <= job.run, NEW t,
         task' = [task EXCEPT ![r] = t] \/ task' = task, job'.run = job.run
  PROVE  FutureRunsUntouched'
BY RunTypes DEF FutureRunsUntouched, TypeInv, TypeOK

\* The queue's steps and the end of a handler.
LEMMA RowQueue ==
  ASSUME TypeInv, RowInv, NEW w \in Workers,
         Dequeue(w) \/ HandlerReturns(w) \/ Fault(w) \/ LoseLease(w)
  PROVE  RowInv' /\ UNCHANGED <<job, hold>>
<1>0. UNCHANGED <<job, hold>> /\ TailKnows(w) /\ job.run \in Nat /\ FutureRunsUntouched
  BY RunTypes DEF RowInv, Dequeue, HandlerReturns, Fault, LoseLease
<1>1. CASE Dequeue(w)
  <2>1. PICK r \in Runs :
          /\ task[r].state = "pending"
          /\ task' = [task EXCEPT ![r].state = "active", ![r].owner = w]
          /\ loc' = [loc EXCEPT ![w] = [NoLocals EXCEPT !.run = r, !.retry = task[r].retry]]
    BY <1>1 DEF Dequeue
  <2>2. r <= job.run
    BY <1>0, <2>1, RunTypes DEF FutureRunsUntouched
  <2>3. FutureRunsUntouched'
    BY <1>0, <2>1, <2>2, RunTypes DEF FutureRunsUntouched, TypeInv, TypeOK
  <2>4. pc' = [pc EXCEPT ![w] = "read"]
    BY <1>1 DEF Dequeue, Goto
  <2>5. \A v \in Workers \ {w} : pc'[v] = pc[v] /\ loc'[v] = loc[v]
    BY <2>1, <2>4 DEF TypeInv, TypeOK
  <2>6. pc'[w] = "read" /\ Run(w)' = r
    BY <2>1, <2>4 DEF TypeInv, TypeOK, Run, NoLocals
  <2>7. TailKnows(w)'
    BY <1>0, <2>2, <2>6 DEF TailKnows
  <2> QED BY <1>0, <2>3, <2>5, <2>7, RowFrame
<1>2. CASE HandlerReturns(w) \/ Fault(w)
  <2>1. PICK a \in BOOLEAN : Leave(w, a) /\ pc[w] # "idle"
    BY <1>2 DEF HandlerReturns, Fault, Statements
  <2>2. Run(w) \in Runs /\ Run(w) <= job.run
    BY <1>0, <2>1 DEF TypeInv, TailKnows
  <2>3. FutureRunsUntouched'
    BY <1>0, <2>1, <2>2, TaskStays DEF Leave
  <2>4. pc' = [pc EXCEPT ![w] = "idle"] /\ loc' = [loc EXCEPT ![w] = NoLocals]
    BY <2>1 DEF Leave, Goto
  <2>5. \A v \in Workers \ {w} : pc'[v] = pc[v] /\ loc'[v] = loc[v]
    BY <2>4 DEF TypeInv, TypeOK
  <2>6. pc'[w] = "idle" /\ Run(w)' = 0
    BY <2>4 DEF TypeInv, TypeOK, Run, NoLocals
  <2>7. TailKnows(w)'
    BY <1>0, <2>6 DEF TailKnows
  <2> QED BY <1>0, <2>3, <2>5, <2>7, RowFrame
<1>3. CASE LoseLease(w)
  <2>1. /\ pc[w] # "idle" /\ UNCHANGED <<pc, loc>>
        /\ task' = [task EXCEPT ![Run(w)] = Redelivered(task[Run(w)])]
    BY <1>3 DEF LoseLease
  <2>2. Run(w) \in Runs /\ Run(w) <= job.run
    BY <1>0, <2>1 DEF TypeInv, TailKnows
  <2>3. FutureRunsUntouched'
    BY <1>0, <2>1, <2>2, TaskStays
  <2>4. TailKnows(w)'
    BY <1>0, <2>1 DEF TailKnows, Run
  <2> QED BY <1>0, <2>1, <2>3, <2>4, RowFrame
<1> QED BY <1>0, <1>1, <1>2, <1>3

\* A cancel of a live row gives its hold back.
LEMMA RowCancel ==
  ASSUME TypeInv, RowInv, CancelJob
  PROVE  RowInv' /\ hold'[job.run] = "released"
<1>1. /\ job.run \in Runs /\ UNCHANGED <<pc, loc, task>> /\ job.status \in Live
      /\ job'.status = "cancelled" /\ job'.run = job.run /\ job'.assets = job.assets
      /\ hold' = Finalized(job.run, "released")
  BY RunTypes DEF CancelJob, TypeInv, TypeOK
<1>2. hold'[job.run] = "released"
  BY <1>1, FinalizedOnce DEF RowInv, HoldsFollowStatus
<1>3. RowMoves
  BY <1>1 DEF RowMoves
<1>4. \A v \in Workers : TailKnows(v)'
  BY <1>1, <1>3, OthersKnow DEF RowInv
<1>5. HoldsFollowStatus' /\ FutureRunsUntouched'
  BY <1>1, <1>2 DEF HoldsFollowStatus, FutureRunsUntouched, RowInv, Live
<1>6. (job.assets # {} <=> job.status = "completed")'
  BY <1>1 DEF RowInv, Live
<1> QED BY <1>2, <1>4, <1>5, <1>6 DEF RowInv

\* A retry opens the next run with a hold of its own.
LEMMA RowRetry ==
  ASSUME TypeInv, RowInv, RetryJob
  PROVE  RowInv' /\ hold'[job.run + 1] = "reserved" /\ job.assets = {}
<1>1. /\ job.run \in Runs /\ job.run \in Nat /\ UNCHANGED <<pc, loc>> /\ job.status = "failed"
      /\ job'.status = "queued" /\ job'.run = job.run + 1 /\ job'.assets = {}
      /\ job.run < MaxRuns
  BY RunTypes DEF RetryJob, TypeInv, TypeOK
<1>2. job.run + 1 \in Runs
  BY <1>1, RunTypes DEF Runs
<1>3. hold'[job.run + 1] = "reserved"
  BY <1>2 DEF RetryJob, TypeInv, TypeOK, Finalized
<1>4. RowMoves
  BY <1>1 DEF RowMoves
<1>5. \A v \in Workers : TailKnows(v)'
  BY <1>1, <1>4, OthersKnow DEF RowInv
<1>6. HoldsFollowStatus'
  BY <1>1, <1>3 DEF HoldsFollowStatus, Live
<1>7. FutureRunsUntouched'
  <2>1. task' = [task EXCEPT ![job.run + 1].state = "pending"]
    BY DEF RetryJob
  <2> QED BY <1>1, <1>2, <2>1, RunTypes DEF FutureRunsUntouched, RowInv, TypeInv, TypeOK
<1> QED BY <1>1, <1>3, <1>5, <1>6, <1>7 DEF RowInv

\* The first run is queued with a hold, and nobody works.
LEMMA RowInit == Init => RowInv
<1> SUFFICES ASSUME Init PROVE RowInv
  OBVIOUS
<1>1. 1 \in Runs /\ job.run = 1 /\ job.status = "queued" /\ job.assets = {}
  BY PackAssumption DEF Init, Runs
<1>2. HoldsFollowStatus
  BY <1>1 DEF Init, HoldsFollowStatus, Live
<1>3. FutureRunsUntouched
  BY <1>1, PackAssumption DEF Init, FutureRunsUntouched, Runs
<1>4. \A w \in Workers : TailKnows(w)
  BY <1>1 DEF Init, TailKnows, Run, NoLocals
<1> QED BY <1>1, <1>2, <1>3, <1>4 DEF RowInv

\* Every step keeps what the row, the holds and the handlers say of each other.
LEMMA RowStep == TypeInv /\ RowInv /\ [Next]_vars => RowInv'
<1> SUFFICES ASSUME TypeInv, RowInv, [Next]_vars PROVE RowInv'
  OBVIOUS
<1>1. ASSUME NEW w \in Workers, HandlerStep(w) PROVE RowInv'
  <2>1. CASE UNCHANGED <<job, hold>>
    BY <1>1, <2>1, RowReads
  <2>2. CASE CommitReservation(w) \/ ReleaseReservation(w)
    BY <2>2, RowHolds
  <2>3. CASE (Claim(w) \/ MarkCompleted(w) \/ MarkFailed(w)) /\ job' # job
    BY <2>3, RowWrites
  <2> QED BY <1>1, <2>1, <2>2, <2>3 DEF HandlerStep, ReadJob, CorrectPack, Prepare,
           MarkInProgress, ListItems, Claim, MarkCompleted, MarkFailed,
           GenerateItem, InsertItem, Recheck, AbortPack, UpdateCompleteness,
           UpdatePackStatus, FailPack
<1>2. ASSUME NEW w \in Workers, Dequeue(w) \/ HandlerReturns(w) \/ Fault(w) \/ LoseLease(w)
      PROVE  RowInv'
  BY <1>2, RowQueue
<1>3. CASE CancelJob
  BY <1>3, RowCancel
<1>4. CASE RetryJob
  BY <1>4, RowRetry
<1>5. CASE UNCHANGED vars
  BY <1>5 DEF vars, RowInv, HoldsFollowStatus, FutureRunsUntouched, TailKnows, Run
<1> QED
  BY <1>1, <1>2, <1>3, <1>4, <1>5 DEF Next, WorkerStep, HandlerStep

\* At every moment the hold follows the row, and every handler that is about to
\* charge, refund or correct is right about the run it does it for.
THEOREM RowInvariant == Spec => [](TypeInv /\ RowInv)
BY TypeInit, TypeStep, RowInit, RowStep, PTL DEF Spec

-----------------------------------------------------------------------------
(* Module PackFanout implements module JobLifecycle *)

\* A worker's step is one of the status machine, or none.
LEMMA RefinesHandler ==
  ASSUME TypeInv, RowInv, NEW w \in Workers, HandlerStep(w)
  PROVE  [Lifecycle!Next]_(Lifecycle!vars)
<1>1. CASE UNCHANGED <<job, hold>>
  BY <1>1 DEF Lifecycle!vars
<1>2. CASE CommitReservation(w) \/ ReleaseReservation(w)
  <2>1. job' = job
    BY <1>2 DEF CommitReservation, ReleaseReservation
  <2> QED BY <1>2, <2>1, RowHolds DEF Lifecycle!vars, Lifecycle!Next, Lifecycle!Commit,
                                      Lifecycle!Release
<1>3. CASE Claim(w) /\ job' # job
  <2>1. /\ job.status = "queued" /\ job'.status = "running" /\ job'.run = job.run
        /\ job'.assets = job.assets /\ hold' = hold
    BY <1>3 DEF Claim, TypeInv, TypeOK
  <2> QED BY <2>1 DEF Lifecycle!Next, Lifecycle!Start
<1>4. CASE MarkCompleted(w) /\ job' # job
  <2>1. /\ job.status = "running" /\ job'.status = "completed" /\ job'.run = job.run
        /\ job'.assets = loc[w].delivered /\ hold' = hold /\ pc[w] = "complete"
    BY <1>4 DEF MarkCompleted, CanComplete, TypeInv, TypeOK
  <2>2. job'.assets # {}
    BY <2>1 DEF RowInv, TailKnows
  <2> QED BY <2>1, <2>2 DEF Lifecycle!Next, Lifecycle!Complete
<1>5. CASE MarkFailed(w) /\ job' # job
  <2>1. /\ job.status \in Live /\ job'.status = "failed" /\ job'.run = job.run
        /\ job'.assets = job.assets /\ hold' = hold
    BY <1>5 DEF MarkFailed, CanFail, TypeInv, TypeOK
  <2> QED BY <2>1 DEF Lifecycle!Next, Lifecycle!Fail, Lifecycle!Live, Live
<1> QED BY <1>1, <1>2, <1>3, <1>4, <1>5 DEF HandlerStep, ReadJob, CorrectPack, Prepare,
           MarkInProgress, ListItems, Claim, MarkCompleted, MarkFailed,
           GenerateItem, InsertItem, Recheck, AbortPack, UpdateCompleteness,
           UpdatePackStatus, FailPack

\* Every step is one of the status machine, or none.
LEMMA RefinesStep ==
  ASSUME TypeInv, RowInv, [Next]_vars
  PROVE  [Lifecycle!Next]_(Lifecycle!vars)
<1>1. ASSUME NEW w \in Workers, HandlerStep(w) PROVE [Lifecycle!Next]_(Lifecycle!vars)
  BY <1>1, RefinesHandler
<1>2. ASSUME NEW w \in Workers, Dequeue(w) \/ HandlerReturns(w) \/ Fault(w) \/ LoseLease(w)
      PROVE  [Lifecycle!Next]_(Lifecycle!vars)
  <2>1. UNCHANGED <<job, hold>>
    BY <1>2, RowQueue
  <2> QED BY <2>1 DEF Lifecycle!vars
<1>3. CASE CancelJob
  <2>1. /\ job.status \in Live /\ job'.status = "cancelled" /\ job'.run = job.run
        /\ job'.assets = job.assets
    BY <1>3 DEF CancelJob, TypeInv, TypeOK
  <2> QED BY <1>3, <2>1, RowCancel DEF Lifecycle!Next, Lifecycle!Cancel, Lifecycle!Live, Live
<1>4. CASE RetryJob
  <2>1. /\ job.status = "failed" /\ job'.status = "queued" /\ job'.run = job.run + 1
        /\ job'.assets = {} /\ job.run < MaxRuns
    BY <1>4 DEF RetryJob, TypeInv, TypeOK
  <2> QED BY <1>4, <2>1, RowRetry DEF Lifecycle!Next, Lifecycle!Retry
<1>5. CASE UNCHANGED vars
  BY <1>5 DEF vars, Lifecycle!vars
<1> QED
  BY <1>1, <1>2, <1>3, <1>4, <1>5 DEF Next, WorkerStep, HandlerStep

\* The pack path keeps the promise of the status machine, for any roles, workers,
\* deliveries, cancels and retries.
THEOREM Refinement == Spec => ImplementsLifecycle
<1>1. Init => Lifecycle!Init
  BY PackAssumption DEF Init, Lifecycle!Init, Runs
<1>2. TypeInv /\ RowInv /\ [Next]_vars => [Lifecycle!Next]_(Lifecycle!vars)
  BY RefinesStep
<1> QED
  BY <1>1, <1>2, RowInvariant, PTL DEF Spec, ImplementsLifecycle, Lifecycle!Spec

-----------------------------------------------------------------------------
(* The pack *)

\* A first run stays one only while nobody cancels, retries or loses a lease.
LEMMA CalmBefore ==
  ASSUME TypeInv, [Next]_vars, Calm'
  PROVE  /\ Calm
         /\ \/ \E w \in Workers : Dequeue(w) \/ HandlerStep(w) \/ HandlerReturns(w) \/ Fault(w)
            \/ UNCHANGED vars
<1>0. job.run \in Nat /\ job.run >= 1 /\ cancels \in Nat /\ lost \in Nat
  BY PackAssumption DEF TypeInv, TypeOK, Runs
<1>1. ~CancelJob
  BY <1>0 DEF CancelJob, Calm
<1>2. ~RetryJob
  <2>1. RetryJob => job'.run = job.run + 1
    BY DEF RetryJob, TypeInv, TypeOK
  <2> QED BY <1>0, <2>1 DEF Calm
<1>3. \A w \in Workers : ~LoseLease(w)
  BY <1>0 DEF LoseLease, Calm
<1>4. \/ \E w \in Workers : Dequeue(w) \/ HandlerStep(w) \/ HandlerReturns(w) \/ Fault(w)
      \/ UNCHANGED vars
  BY <1>1, <1>2, <1>3 DEF Next, WorkerStep, HandlerStep
<1>5. CASE UNCHANGED vars
  BY <1>4, <1>5 DEF vars, Calm
<1>6. ASSUME NEW w \in Workers, Dequeue(w) \/ HandlerReturns(w) \/ Fault(w)
      PROVE  Calm
  BY <1>6 DEF Dequeue, HandlerReturns, Fault, Calm, counters
<1>7. ASSUME NEW w \in Workers, HandlerStep(w)
      PROVE  Calm
  <2>1. job'.run = job.run
    BY <1>7 DEF TypeInv, TypeOK, HandlerStep, ReadJob, CorrectPack, Claim, Prepare,
           MarkInProgress, ListItems, GenerateItem, InsertItem, Recheck, AbortPack,
           UpdateCompleteness, UpdatePackStatus, MarkCompleted, MarkFailed, FailPack,
           CommitReservation, ReleaseReservation
  <2> QED BY <1>7, <2>1, OneMoves DEF Calm, counters
<1> QED BY <1>4, <1>5, <1>6, <1>7

\* Nothing is asked of an idle worker.
LEMMA IdleKnows ==
  ASSUME NEW v \in Workers, pc'[v] = "idle"
  PROVE  (OwnsTask(v) /\ HandlerKnows(v))'
BY DEF OwnsTask, HandlerKnows, Starting, Working

\* In a calm first run a handler at work is alone, for run 1.
LEMMA Alone ==
  ASSUME TypeInv, RowInv, Calm, CalmInv, NEW w \in Workers, pc[w] # "idle"
  PROVE  /\ \A v \in Workers \ {w} : pc[v] = "idle"
         /\ Run(w) = 1 /\ OwnsRow(w)
         /\ task[1].owner = w /\ task[1].state = "active" /\ 1 \in Runs
<1>1. Run(w) \in Runs /\ Run(w) <= 1
  BY DEF TypeInv, RowInv, TailKnows, Calm
<1>2. Run(w) = 1
  BY <1>1, RunTypes DEF Runs
<1>3. OwnsTask(w) /\ \A v \in Workers : OwnsTask(v)
  BY DEF CalmInv
<1> QED BY <1>1, <1>2, <1>3 DEF OwnsTask, OwnsRow, Calm

\* A step of the handler that is alone.
LEMMA CalmFrame ==
  ASSUME TypeInv, RowInv, Calm, CalmInv, NEW w \in Workers, HandlerStep(w),
         HandlerKnows(w)', job'.status # "cancelled",
         job'.status = "completed" => CompletedAgrees'
  PROVE  CalmInv'
<1>1. pc[w] # "idle"
  BY HandlerMoves DEF Moves
<1>2. /\ \A v \in Workers \ {w} : pc[v] = "idle"
      /\ task[1].owner = w /\ task[1].state = "active"
  BY <1>1, Alone
<1>3. \A v \in Workers \ {w} : pc'[v] = "idle"
  BY <1>2, OneMoves
<1>4. task' = task
  BY OneMoves
<1>5. \A v \in Workers : (OwnsTask(v) /\ HandlerKnows(v))'
  <2>1. OwnsTask(w)'
    BY <1>2, <1>4 DEF OwnsTask
  <2> QED BY <1>3, <2>1, IdleKnows
<1> QED BY <1>2, <1>4, <1>5 DEF CalmInv

\* The facts every step of the handler that is alone starts from.
LEMMA CalmTypes ==
  ASSUME TypeInv, CalmInv, NEW w \in Workers
  PROVE  /\ pc \in [Workers -> Steps] /\ loc \in [Workers -> Locals] /\ loc[w] \in Locals
         /\ HandlerKnows(w) /\ job.status # "cancelled"
         /\ job.status = "completed" => CompletedAgrees
         /\ job.status \in Live \cup {"completed", "failed"}
         /\ items \subseteq Roles /\ loc[w].delivered \subseteq Roles
         /\ loc[w].next \in 1..NRoles + 1 /\ loc[w].failed \in BOOLEAN /\ NRoles \in Nat
BY PackAssumption DEF TypeInv, TypeOK, CalmInv, Steps, Locals

\* The steps before the first role, and the ones that only read.
LEMMA CalmStarts ==
  ASSUME TypeInv, RowInv, Calm, CalmInv, NEW w \in Workers,
         ReadJob(w) \/ Claim(w) \/ Prepare(w) \/ MarkInProgress(w) \/ Recheck(w)
  PROVE  CalmInv'
<1>0. HandlerStep(w)
  BY DEF HandlerStep
<1>1. /\ pc \in [Workers -> Steps] /\ loc \in [Workers -> Locals] /\ loc[w] \in Locals
      /\ HandlerKnows(w) /\ job.status # "cancelled"
      /\ job.status = "completed" => CompletedAgrees
      /\ job.status \in Live \cup {"completed", "failed"}
  BY CalmTypes
<1>2. pc[w] # "idle" /\ OwnsRow(w)
  <2>1. pc[w] # "idle"
    BY <1>0, HandlerMoves DEF Moves
  <2> QED BY <2>1, Alone
<1>3. CASE ReadJob(w)
  <2>0. pc[w] = "read" /\ UNCHANGED <<job, pack, items>>
    BY <1>3 DEF ReadJob
  <2>1. loc[w].next = 1 /\ ~loc[w].failed
    BY <1>1, <2>0 DEF HandlerKnows, Starting
  <2>2. CASE job.status \in Live
    <3>1. pc'[w] = "claim" /\ loc' = [loc EXCEPT ![w].seen = job.status]
      BY <1>1, <1>2, <1>3, <2>2 DEF ReadJob, Goto
    <3>2. loc'[w].next = 1 /\ ~loc'[w].failed /\ loc'[w].seen = job.status
      BY <1>1, <2>1, <3>1 DEF Locals
    <3>3. HandlerKnows(w)'
      BY <2>0, <3>1, <3>2 DEF HandlerKnows, Working
    <3> QED BY <1>0, <1>1, <2>0, <2>2, <3>3, CalmFrame DEF Live
  <2>3. CASE job.status \in {"completed", "failed"}
    <3>1. pc'[w] = IF job.status = "completed" THEN "commit" ELSE "correct"
      BY <1>1, <1>2, <1>3, <2>3 DEF ReadJob, Goto, Live
    <3>2. HandlerKnows(w)'
      BY <2>0, <2>3, <3>1 DEF HandlerKnows, Working, Starting
    <3>3. job'.status = "completed" => CompletedAgrees'
      BY <1>1, <2>0 DEF CompletedAgrees, PackComplete
    <3> QED BY <1>0, <1>1, <2>0, <3>2, <3>3, CalmFrame
  <2> QED BY <1>1, <2>2, <2>3
<1>4. CASE Claim(w)
  <2>0. pc[w] = "claim" /\ UNCHANGED <<pack, items, loc>>
    BY <1>4 DEF Claim
  <2>1. job.status = loc[w].seen /\ loc[w].next = 1 /\ ~loc[w].failed
    BY <1>1, <2>0 DEF HandlerKnows, Starting
  <2>2. loc[w].seen \in {"none", "queued", "running"}
    BY <1>1 DEF Locals
  <2>3. job.status \in {"queued", "running"}
    BY <1>1, <2>1, <2>2 DEF Live
  <2>4. job'.status = "running" /\ pc'[w] \in {"prepare", "ack"}
    BY <1>1, <1>2, <1>4, <2>1, <2>3 DEF Claim, Goto, TypeInv, TypeOK
  <2>5. HandlerKnows(w)'
    BY <2>0, <2>1, <2>4 DEF HandlerKnows, Working, Starting
  <2> QED BY <1>0, <2>4, <2>5, CalmFrame
<1>5. CASE Prepare(w)
  <2>0. pc[w] = "prepare" /\ UNCHANGED <<job, pack, items>>
    BY <1>5 DEF Prepare
  <2>1. job.status = "running" /\ loc[w].next = 1 /\ ~loc[w].failed
    BY <1>1, <2>0 DEF HandlerKnows, Working, Starting
  <2>2. CASE Goto(w, "progress") /\ UNCHANGED loc
    <3>1. pc'[w] = "progress"
      BY <1>1, <2>2 DEF Goto
    <3>2. HandlerKnows(w)'
      BY <2>0, <2>1, <2>2, <3>1 DEF HandlerKnows, Working, Starting
    <3> QED BY <1>0, <2>0, <2>1, <3>2, CalmFrame
  <2>3. CASE Goto(w, "fail") /\ loc' = [loc EXCEPT ![w].correct = TRUE]
    <3>1. pc'[w] = "fail" /\ loc'[w].correct
      BY <1>1, <2>3 DEF Goto, Locals
    <3>2. HandlerKnows(w)'
      BY <2>0, <2>1, <3>1 DEF HandlerKnows, Working, Starting
    <3> QED BY <1>0, <2>0, <2>1, <3>2, CalmFrame
  <2> QED BY <1>5, <2>2, <2>3 DEF Prepare
<1>6. CASE MarkInProgress(w)
  <2>0. pc[w] = "progress" /\ pc'[w] = "list" /\ UNCHANGED <<job, items, loc>>
    BY <1>1, <1>6 DEF MarkInProgress, Goto
  <2>1. job.status = "running" /\ loc[w].next = 1 /\ ~loc[w].failed
    BY <1>1, <2>0 DEF HandlerKnows, Working, Starting
  <2>2. HandlerKnows(w)'
    BY <2>0, <2>1 DEF HandlerKnows, Working, Starting
  <2> QED BY <1>0, <2>0, <2>1, <2>2, CalmFrame
<1>7. CASE Recheck(w)
  BY <1>1, <1>7 DEF HandlerKnows, Recheck
<1> QED BY <1>3, <1>4, <1>5, <1>6, <1>7

\* The role a handler passes without delivering it is the reason it has warnings.
LEMMA PassedNext ==
  ASSUME NEW w \in Workers, NEW i \in Nat, i >= 1, NRoles \in Nat,
         loc[w].next = i, loc'[w].next = i + 1
  PROVE  /\ loc'[w].delivered = loc[w].delivered /\ i \in loc[w].delivered
              => (Passed(w)' <=> Passed(w))
         /\ loc'[w].delivered = loc[w].delivered \cup {i} => (Passed(w)' <=> Passed(w))
         /\ i \notin loc'[w].delivered => Passed(w)'
<1>1. 1..loc'[w].next - 1 = 1..i /\ 1..loc[w].next - 1 = 1..i - 1
  OBVIOUS
<1>2. \A j : j \in 1..i <=> j \in 1..i - 1 \/ j = i
  OBVIOUS
<1>3. i \notin 1..i - 1
  OBVIOUS
<1>4. Passed(w) <=> \E j \in 1..i - 1 : j \notin loc[w].delivered
  BY <1>1 DEF Passed
<1>5. Passed(w)' <=> \E j \in 1..i : j \notin loc'[w].delivered
  BY <1>1 DEF Passed
<1> QED BY <1>2, <1>3, <1>4, <1>5

\* The walk over the roles.
LEMMA CalmRoles ==
  ASSUME TypeInv, RowInv, Calm, CalmInv, NEW w \in Workers,
         ListItems(w) \/ GenerateItem(w) \/ InsertItem(w)
  PROVE  CalmInv'
<1>0. HandlerStep(w)
  BY DEF HandlerStep
<1>1. /\ pc \in [Workers -> Steps] /\ loc \in [Workers -> Locals] /\ loc[w] \in Locals
      /\ HandlerKnows(w) /\ items \subseteq Roles
      /\ loc[w].next \in 1..NRoles + 1 /\ loc[w].failed \in BOOLEAN /\ NRoles \in Nat
  BY CalmTypes
<1>2. pc[w] \in {"list", "item", "insert"} /\ UNCHANGED <<job, pack>>
  BY DEF ListItems, GenerateItem, InsertItem
<1>3. job.status = "running" /\ job'.status = "running"
  BY <1>1, <1>2 DEF HandlerKnows, Working
<1>4. SUFFICES HandlerKnows(w)'
  BY <1>0, <1>3, CalmFrame
<1>5. CASE ListItems(w)
  <2>1. /\ pc[w] = "list" /\ pc'[w] = "item" /\ loc' = [loc EXCEPT ![w].delivered = items]
        /\ items' = items
    BY <1>1, <1>5 DEF ListItems, Goto
  <2>2. loc[w].next = 1 /\ ~loc[w].failed
    BY <1>1, <2>1 DEF HandlerKnows, Starting
  <2>3. loc'[w].next = 1 /\ ~loc'[w].failed /\ loc'[w].delivered = items
    BY <1>1, <2>1, <2>2 DEF Locals
  <2>4. ~Passed(w)'
    BY <2>3 DEF Passed
  <2> QED BY <1>3, <2>1, <2>3, <2>4 DEF HandlerKnows, Working, Starting
<1>6. CASE GenerateItem(w)
  <2>0. pc[w] = "item" /\ items' = items /\ loc[w].delivered = items
        /\ (loc[w].failed <=> Passed(w))
    BY <1>1, <1>6 DEF GenerateItem, HandlerKnows
  <2>1. CASE loc[w].next > NRoles /\ Goto(w, "completeness") /\ UNCHANGED loc
    <3>1. pc'[w] = "completeness" /\ loc'[w] = loc[w] /\ loc[w].next = NRoles + 1
      BY <1>1, <2>1 DEF Goto
    <3>2. Passed(w)' <=> Passed(w)
      BY <3>1 DEF Passed
    <3> QED BY <1>3, <2>0, <3>1, <3>2 DEF HandlerKnows, Working, Starting
  <2>2. CASE /\ loc[w].next <= NRoles /\ loc[w].next \in loc[w].delivered
             /\ loc' = [loc EXCEPT ![w].next = loc[w].next + 1] /\ UNCHANGED pc
    <3>1. /\ loc'[w].next = loc[w].next + 1 /\ loc'[w].delivered = loc[w].delivered
          /\ loc'[w].failed = loc[w].failed /\ pc'[w] = "item"
      BY <1>1, <2>0, <2>2 DEF Locals
    <3>2. Passed(w)' <=> Passed(w)
      BY <1>1, <2>2, <3>1, PassedNext
    <3> QED BY <1>3, <2>0, <3>1, <3>2 DEF HandlerKnows, Working, Starting
  <2>3. CASE /\ loc[w].next <= NRoles /\ loc[w].next \notin loc[w].delivered
             /\ Goto(w, "insert") /\ UNCHANGED loc
    <3>1. pc'[w] = "insert" /\ loc'[w] = loc[w] /\ loc[w].next \in Roles \ items
      BY <1>1, <2>0, <2>3 DEF Goto, Roles
    <3>2. Passed(w)' <=> Passed(w)
      BY <3>1 DEF Passed
    <3>3. loc'[w].next \in Roles \ items'
      BY <2>0, <3>1
    <3> QED BY <1>3, <2>0, <3>1, <3>2, <3>3 DEF HandlerKnows, Working, Starting
  <2>4. CASE /\ loc[w].next <= NRoles /\ loc[w].next \notin loc[w].delivered
             /\ loc' = [loc EXCEPT ![w].next = loc[w].next + 1, ![w].failed = TRUE]
             /\ UNCHANGED pc
    <3>1. /\ loc'[w].next = loc[w].next + 1 /\ loc'[w].delivered = loc[w].delivered
          /\ loc'[w].failed /\ pc'[w] = "item"
      BY <1>1, <2>0, <2>4 DEF Locals
    <3>2. Passed(w)'
      BY <1>1, <2>4, <3>1, PassedNext
    <3> QED BY <1>3, <2>0, <3>1, <3>2 DEF HandlerKnows, Working, Starting
  <2>5. CASE Goto(w, "abort") /\ loc' = [loc EXCEPT ![w].correct = TRUE]
    <3>1. pc'[w] = "abort" /\ loc'[w].correct /\ loc'[w].delivered = loc[w].delivered
      BY <1>1, <2>5 DEF Goto, Locals
    <3> QED BY <1>3, <2>0, <3>1 DEF HandlerKnows, Working, Starting
  <2> QED BY <1>6, <2>1, <2>2, <2>3, <2>4, <2>5 DEF GenerateItem
<1>7. CASE InsertItem(w)
  <2> DEFINE i == loc[w].next
  <2>0. /\ pc[w] = "insert" /\ i \in Roles \ items /\ loc[w].delivered = items
        /\ (loc[w].failed <=> Passed(w))
    BY <1>1, <1>7 DEF InsertItem, HandlerKnows
  <2>1. /\ items' = items \cup {i} /\ pc'[w] = "item"
        /\ loc' = [loc EXCEPT ![w].next = i + 1,
                          ![w].delivered = IF i \in items THEN @ ELSE @ \cup {i},
                          ![w].failed = @ \/ i \in items]
    BY <1>1, <1>3, <1>7 DEF InsertItem, Goto
  <2>2. loc'[w].next = i + 1 /\ loc'[w].delivered = loc[w].delivered \cup {i}
    BY <1>1, <2>0, <2>1 DEF Locals
  <2>3. loc'[w].failed <=> loc[w].failed
    BY <1>1, <2>0, <2>1 DEF Locals
  <2>4. Passed(w)' <=> Passed(w)
    BY <1>1, <2>2, PassedNext
  <2> QED BY <1>3, <2>0, <2>1, <2>2, <2>3, <2>4 DEF HandlerKnows, Working, Starting
<1> QED BY <1>5, <1>6, <1>7

\* The writes of the pack, of the job's outcome and of the hold.
LEMMA CalmEnds ==
  ASSUME TypeInv, RowInv, Calm, CalmInv, NEW w \in Workers,
         \/ AbortPack(w) \/ UpdateCompleteness(w) \/ UpdatePackStatus(w) \/ MarkCompleted(w)
         \/ MarkFailed(w) \/ FailPack(w) \/ CorrectPack(w)
         \/ CommitReservation(w) \/ ReleaseReservation(w)
  PROVE  CalmInv'
<1>0. HandlerStep(w) /\ UNCHANGED <<items, loc>>
  BY DEF HandlerStep, AbortPack, UpdateCompleteness, UpdatePackStatus, MarkCompleted, MarkFailed,
         FailPack, CorrectPack, CommitReservation, ReleaseReservation
<1>1. /\ pc \in [Workers -> Steps] /\ loc[w] \in Locals
      /\ HandlerKnows(w) /\ job.status # "cancelled"
      /\ job.status = "completed" => CompletedAgrees
      /\ loc[w].failed \in BOOLEAN /\ NRoles \in Nat
  BY CalmTypes
<1>2. pc[w] # "idle" /\ OwnsRow(w)
  <2>1. pc[w] # "idle"
    BY <1>0, HandlerMoves DEF Moves
  <2> QED BY <2>1, Alone
<1>3. Passed(w)' <=> Passed(w)
  BY <1>0 DEF Passed
<1>a. pack \in [status : {"planned", "in_progress", "completed", "completed_with_warnings",
                          "failed"},
                delivered : SUBSET Roles, missing : SUBSET Roles]
  BY DEF TypeInv, TypeOK
<1>4. CASE AbortPack(w)
  <2>1. pc[w] = "abort" /\ pc'[w] = "fail" /\ job' = job
    BY <1>1, <1>4 DEF AbortPack, Goto
  <2>2. job.status = "running" /\ loc[w].correct
    BY <1>1, <2>1 DEF HandlerKnows, Working
  <2>3. HandlerKnows(w)'
    BY <1>0, <2>1, <2>2 DEF HandlerKnows, Working, Starting
  <2> QED BY <1>0, <2>1, <2>2, <2>3, CalmFrame
<1>5. CASE UpdateCompleteness(w)
  <2>1. /\ pc[w] = "completeness" /\ pc'[w] = "packstatus" /\ job' = job
        /\ pack' = Completeness(w)
    BY <1>1, <1>5 DEF UpdateCompleteness, Goto
  <2>2. /\ job.status = "running" /\ loc[w].delivered = items /\ loc[w].next = NRoles + 1
        /\ (loc[w].failed <=> Passed(w))
    BY <1>1, <2>1 DEF HandlerKnows, Working
  <2>3. PackComplete'
    BY <1>0, <1>a, <2>1, <2>2 DEF PackComplete, Completeness, Roles
  <2>4. HandlerKnows(w)'
    BY <1>0, <1>3, <2>1, <2>2, <2>3 DEF HandlerKnows, Working, Starting
  <2> QED BY <1>0, <2>1, <2>2, <2>4, CalmFrame
<1>6. CASE UpdatePackStatus(w)
  <2>1. /\ pc[w] = "packstatus" /\ job' = job /\ pack' = WithStatus(Outcome(w))
        /\ pc'[w] = IF loc[w].delivered = {} THEN "fail" ELSE "complete"
    BY <1>1, <1>6 DEF UpdatePackStatus, Goto
  <2>2. /\ job.status = "running" /\ loc[w].delivered = items /\ loc[w].next = NRoles + 1
        /\ (loc[w].failed <=> Passed(w)) /\ PackComplete
    BY <1>1, <2>1 DEF HandlerKnows, Working
  <2>3. PackComplete' /\ pack'.status = Outcome(w)
    BY <1>0, <1>a, <2>1, <2>2 DEF PackComplete, WithStatus, Roles
  <2>4. Outcome(w)' = Outcome(w) /\ (loc[w].delivered = {} => Outcome(w) = "failed")
    BY <1>0 DEF Outcome
  <2>5. HandlerKnows(w)'
    BY <1>0, <1>3, <2>1, <2>2, <2>3, <2>4 DEF HandlerKnows, Working, Starting
  <2> QED BY <1>0, <2>1, <2>2, <2>5, CalmFrame
<1>7. CASE MarkCompleted(w)
  <2>1. pc[w] = "complete" /\ pack' = pack
    BY <1>7 DEF MarkCompleted
  <2>2. /\ job.status = "running" /\ loc[w].delivered = items /\ loc[w].next = NRoles + 1
        /\ (loc[w].failed <=> Passed(w)) /\ PackComplete /\ pack.status = Outcome(w)
    BY <1>1, <2>1 DEF HandlerKnows, Working
  <2>3. job'.status = "completed" /\ pc'[w] = "commit"
    BY <1>1, <1>2, <1>7, <2>2 DEF MarkCompleted, CanComplete, Goto, TypeInv, TypeOK
  <2>4. loc[w].delivered # {}
    BY <2>1 DEF RowInv, TailKnows
  <2>5. Passed(w) <=> Roles \ items # {}
    BY <1>1, <2>2 DEF Passed, Roles
  <2>6. CompletedAgrees
    BY <2>2, <2>4, <2>5 DEF CompletedAgrees, PackComplete, Outcome
  <2>7. CompletedAgrees'
    BY <1>0, <2>1, <2>6 DEF CompletedAgrees, PackComplete
  <2>8. HandlerKnows(w)'
    BY <2>3 DEF HandlerKnows, Working, Starting
  <2> QED BY <1>0, <2>3, <2>7, <2>8, CalmFrame
<1>8. CASE MarkFailed(w)
  <2>1. pc[w] = "fail" /\ pack' = pack
    BY <1>8 DEF MarkFailed
  <2>2. job.status = "running" /\ (loc[w].correct \/ pack.status = "failed")
    BY <1>1, <2>1 DEF HandlerKnows, Working
  <2>3. job'.status = "failed" /\ pc'[w] = IF loc[w].correct THEN "failpack" ELSE "release"
    BY <1>1, <1>2, <1>8, <2>2 DEF MarkFailed, CanFail, Live, Goto, TypeInv, TypeOK
  <2>4. HandlerKnows(w)'
    BY <2>1, <2>2, <2>3 DEF HandlerKnows, Working, Starting
  <2> QED BY <1>0, <2>3, <2>4, CalmFrame
<1>9. CASE FailPack(w) \/ CorrectPack(w)
  <2>1. /\ pc[w] \in {"failpack", "correct"} /\ job' = job /\ pc'[w] = "release"
        /\ pack'.status = "failed"
    BY <1>1, <1>a, <1>9 DEF FailPack, CorrectPack, WithStatus, Goto
  <2>2. job.status = "failed"
    BY <1>1, <2>1 DEF HandlerKnows
  <2>3. HandlerKnows(w)'
    BY <2>1, <2>2 DEF HandlerKnows, Working, Starting
  <2> QED BY <1>0, <2>1, <2>2, <2>3, CalmFrame
<1>10. CASE CommitReservation(w) \/ ReleaseReservation(w)
  <2>1. pc[w] \in {"commit", "release"} /\ UNCHANGED <<job, pack>> /\ pc'[w] = "ack"
    BY <1>1, <1>10 DEF CommitReservation, ReleaseReservation, Goto
  <2>2. job.status = "failed" => pack.status = "failed"
    BY <1>1, <2>1 DEF HandlerKnows, RowInv, TailKnows
  <2>3. HandlerKnows(w)'
    BY <2>1, <2>2 DEF HandlerKnows, Working, Starting
  <2>4. job'.status = "completed" => CompletedAgrees'
    BY <1>0, <1>1, <2>1 DEF CompletedAgrees, PackComplete
  <2> QED BY <1>0, <1>1, <2>1, <2>3, <2>4, CalmFrame
<1> QED BY <1>4, <1>5, <1>6, <1>7, <1>8, <1>9, <1>10

\* A task that is taken, acknowledged, redelivered or archived.
LEMMA CalmQueue ==
  ASSUME TypeInv, RowInv, Calm, CalmInv, NEW w \in Workers,
         Dequeue(w) \/ HandlerReturns(w) \/ Fault(w)
  PROVE  CalmInv'
<1>1. /\ pc \in [Workers -> Steps] /\ loc \in [Workers -> Locals] /\ HandlerKnows(w)
      /\ task \in [Runs -> Tasks] /\ 1 \in Runs
  <2>1. pc \in [Workers -> Steps] /\ loc \in [Workers -> Locals] /\ HandlerKnows(w)
    BY CalmTypes
  <2>2. task \in [Runs -> Tasks]
    BY DEF TypeInv, TypeOK, Tasks
  <2>3. 1 \in Runs
    BY PackAssumption DEF Runs
  <2> QED BY <2>1, <2>2, <2>3
<1>2. UNCHANGED <<job, pack, items>>
  BY DEF Dequeue, HandlerReturns, Fault
<1>3. /\ job'.status # "cancelled" /\ (job'.status = "completed" => CompletedAgrees')
  BY <1>2 DEF CalmInv, CompletedAgrees, PackComplete
<1>4. CASE Dequeue(w)
  <2>1. PICK r \in Runs :
          /\ task[r].state = "pending"
          /\ task' = [task EXCEPT ![r].state = "active", ![r].owner = w]
          /\ loc' = [loc EXCEPT ![w] = [NoLocals EXCEPT !.run = r, !.retry = task[r].retry]]
    BY <1>4 DEF Dequeue
  <2>2. r = 1
    BY <2>1, RunTypes DEF RowInv, FutureRunsUntouched, Calm, Runs
  <2>3. pc' = [pc EXCEPT ![w] = "read"]
    BY <1>4 DEF Dequeue, Goto
  <2>4. task'[1].owner = w /\ task'[1].state = "active"
    BY <1>1, <2>1, <2>2 DEF Tasks
  <2>5. \A v \in Workers \ {w} : pc'[v] = "idle"
    <3>1. \A v \in Workers : pc[v] = "idle"
      BY <2>1, <2>2 DEF CalmInv, OwnsTask
    <3> QED BY <1>1, <2>3, <3>1
  <2>6. pc'[w] = "read" /\ loc'[w].next = 1 /\ ~loc'[w].failed
    BY <1>1, <2>1, <2>3 DEF NoLocals
  <2>7. (OwnsTask(w) /\ HandlerKnows(w))'
    BY <2>4, <2>6 DEF OwnsTask, HandlerKnows, Working, Starting
  <2> QED BY <1>3, <2>4, <2>5, <2>7, IdleKnows DEF CalmInv
<1>5. CASE HandlerReturns(w) \/ Fault(w)
  <2>1. pc[w] # "idle" /\ Leave(w, HandlerReturns(w) /\ pc[w] = "ack")
    BY <1>1, <1>5 DEF HandlerReturns, Fault, Statements
  <2>2. /\ \A v \in Workers \ {w} : pc[v] = "idle"
        /\ Run(w) = 1 /\ task[1].owner = w
    BY <2>1, Alone
  <2>3. \A v \in Workers : pc'[v] = "idle"
    BY <1>1, <2>1, <2>2 DEF Leave, Goto
  <2>4. task[1].state = "active" /\ task[1] \in Tasks
    BY <1>1, <2>1, Alone
  <2>5. CASE HandlerReturns(w) /\ pc[w] = "ack"
    <3>1. task'[1].state = "done"
      BY <1>1, <2>1, <2>2, <2>5 DEF Leave
    <3>2. job.status = "failed" => pack.status = "failed"
      BY <1>1, <2>5 DEF HandlerKnows
    <3> QED BY <1>2, <1>3, <2>3, <3>1, <3>2, IdleKnows DEF CalmInv
  <2>6. CASE ~(HandlerReturns(w) /\ pc[w] = "ack")
    <3>1. task' = [task EXCEPT ![1] = Redelivered(task[1])]
      BY <2>1, <2>2, <2>6 DEF Leave
    <3>2. Redelivered(task[1]).state \in {"pending", "archived"}
      BY DEF Redelivered
    <3>3. task'[1].state \in {"pending", "archived"}
      BY <1>1, <3>1, <3>2
    <3> QED BY <1>3, <2>3, <3>3, IdleKnows DEF CalmInv
  <2> QED BY <2>5, <2>6
<1> QED BY <1>4, <1>5

\* Every step of a calm first run keeps the pack in line.
LEMMA PackStep == TypeInv /\ RowInv /\ PackInv /\ [Next]_vars => PackInv'
<1> SUFFICES ASSUME TypeInv, RowInv, PackInv, [Next]_vars, Calm' PROVE CalmInv'
  BY DEF PackInv
<1>1. Calm /\ CalmInv
  BY CalmBefore DEF PackInv
<1>2. CASE UNCHANGED vars
  BY <1>1, <1>2 DEF vars, CalmInv, CompletedAgrees, PackComplete, OwnsTask, HandlerKnows,
                    Passed, Outcome
<1>3. ASSUME NEW w \in Workers, Dequeue(w) \/ HandlerReturns(w) \/ Fault(w)
      PROVE  CalmInv'
  BY <1>1, <1>3, CalmQueue
<1>4. ASSUME NEW w \in Workers, HandlerStep(w)
      PROVE  CalmInv'
  BY <1>1, <1>4, CalmStarts, CalmRoles, CalmEnds DEF HandlerStep
<1> QED BY <1>2, <1>3, <1>4, CalmBefore

\* The create transaction leaves a pending task and idle workers.
LEMMA PackInit == Init => PackInv
<1> SUFFICES ASSUME Init PROVE CalmInv
  BY DEF PackInv
<1>1. 1 \in Runs /\ job.status = "queued" /\ task[1].state = "pending"
  BY PackAssumption DEF Init, Runs
<1>2. \A w \in Workers : pc[w] = "idle"
  BY DEF Init
<1> QED BY <1>1, <1>2 DEF CalmInv, OwnsTask, HandlerKnows, Starting, Working

\* In a first run that nobody cancels and whose deliveries do not overlap, each
\* handler knows what its three writes of pack and job have brought about, and
\* the next delivery after a crash finds what it needs to finish them.
THEOREM PackInvariant == Spec => []PackInv
BY RowInvariant, PackInit, PackStep, PTL DEF Spec

\* The pack a reader finds once its job has settled says what became of the job,
\* for any roles and reuse, any number of crashes and any number of attempts.
THEOREM SettledPackAgreesHolds == Spec => []SettledPackAgrees
<1>1. TypeInv /\ PackInv => SettledPackAgrees
  <2> SUFFICES ASSUME TypeInv, PackInv, Quiet, Calm
               PROVE  /\ job.status = "failed" /\ task[1].state # "archived"
                           => pack.status = "failed"
                      /\ job.status = "completed" => CompletedAgrees
    BY DEF SettledPackAgrees, Calm, CompletedAgrees, PackComplete
  <2>1. CalmInv
    BY DEF PackInv
  <2>2. 1 \in Runs /\ task[1].state \in {"none", "pending", "active", "done", "archived"}
    BY PackAssumption DEF TypeInv, TypeOK, Runs
  <2>3. task[1].state \in {"done", "archived"}
    BY <2>1, <2>2 DEF Quiet, CalmInv
  <2> QED BY <2>1, <2>3 DEF CalmInv
<1> QED BY <1>1, RowInvariant, PackInvariant, PTL DEF Spec
=============================================================================
