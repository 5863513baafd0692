----------------------------- MODULE PackFanout -----------------------------
(***************************************************************************)
(* The pack worker (internal/jobs/worker_pack.go): one task generates the  *)
(* required roles of a pack one by one, writes an asset_pack_items row for *)
(* each, and ends by writing the pack's completeness, the pack's status    *)
(* and the job's status, in three statements.  Deliveries of one task      *)
(* overlap when a lease is lost, an admin cancels and retries in between,  *)
(* and statements fail.  Events and the task queue's other behaviours are  *)
(* modelled in GenerationJob.                                              *)
(***************************************************************************)
EXTENDS Integers, FiniteSets

CONSTANTS
    Workers,        \* worker processes
    NRoles,         \* required roles, generated in the order 1..NRoles
    Reused,         \* roles a reused asset satisfied at creation
    MaxAttempts,    \* deliveries of one task
    MaxRuns,        \* bound: the first run plus admin retries
    MaxCancels,     \* bound on admin cancels
    MaxFaults,      \* bound on statement errors and crashes
    MaxLostLeases   \* bound on leases lost while the handler runs on

ASSUME PackAssumption ==
    /\ NRoles \in Nat \ {0} /\ Reused \subseteq 1..NRoles
    /\ MaxAttempts \in Nat \ {0} /\ MaxRuns \in Nat \ {0}
    /\ MaxCancels \in Nat /\ MaxFaults \in Nat /\ MaxLostLeases \in Nat
    /\ "nobody" \notin Workers

VARIABLES
    job,        \* generation_jobs: status, run and final_asset_ids
    pack,       \* asset_packs: status, delivered_roles, missing_roles
    items,      \* asset_pack_items: the roles that have a row
    hold,       \* the cost reservation of each run
    task,       \* the queue's task of each run
    pc, loc,    \* the handlers
    cancels, faults, lost

vars == <<job, pack, items, hold, task, pc, loc, cancels, faults, lost>>
counters == <<cancels, faults, lost>>

Roles == 1..NRoles
Runs == 1..MaxRuns
NoOne == "nobody"
Live == {"queued", "running"}
NoLocals == [run |-> 0, retry |-> 0, seen |-> "none", next |-> 1, delivered |-> {},
             failed |-> FALSE, correct |-> FALSE]
\* Steps that run a statement and can fail in the database.
Statements == {"read", "correct", "claim", "progress", "list", "insert", "recheck",
               "abort", "completeness", "packstatus", "complete", "fail", "failpack",
               "commit", "release"}

TypeOK ==
    /\ job \in [status : Live \cup {"completed", "failed", "cancelled"},
                run : Runs, assets : SUBSET Roles]
    /\ pack \in [status : {"planned", "in_progress", "completed",
                           "completed_with_warnings", "failed"},
                 delivered : SUBSET Roles, missing : SUBSET Roles]
    /\ items \subseteq Roles
    /\ hold \in [Runs -> {"none", "reserved", "committed", "released"}]
    /\ task \in [Runs -> [state : {"none", "pending", "active", "done", "archived"},
                          retry : 0..MaxAttempts - 1, owner : Workers \cup {NoOne}]]
    /\ pc \in [Workers -> Statements \cup {"idle", "prepare", "item", "ack", "nack"}]
    /\ loc \in [Workers -> [run : 0..MaxRuns, retry : 0..MaxAttempts - 1,
                            seen : {"none", "queued", "running"}, next : 1..NRoles + 1,
                            delivered : SUBSET Roles, failed : BOOLEAN,
                            correct : BOOLEAN]]
    /\ cancels \in 0..MaxCancels /\ faults \in 0..MaxFaults /\ lost \in 0..MaxLostLeases

\* The create transaction: reused roles already have their item.
Init ==
    /\ job = [status |-> "queued", run |-> 1, assets |-> {}]
    /\ pack = [status |-> "planned", delivered |-> Reused, missing |-> Roles \ Reused]
    /\ items = Reused
    /\ hold = [r \in Runs |-> IF r = 1 THEN "reserved" ELSE "none"]
    /\ task = [r \in Runs |-> [state |-> IF r = 1 THEN "pending" ELSE "none",
                               retry |-> 0, owner |-> NoOne]]
    /\ pc = [w \in Workers |-> "idle"]
    /\ loc = [w \in Workers |-> NoLocals]
    /\ cancels = 0 /\ faults = 0 /\ lost = 0

-----------------------------------------------------------------------------
Goto(w, s) == pc' = [pc EXCEPT ![w] = s]
Run(w) == loc[w].run

\* Guards of the reservation-bound status updates.
OwnsRow(w) == job.run = Run(w)
CanFail(w) == OwnsRow(w) /\ job.status \in Live
CanComplete(w) == OwnsRow(w) /\ job.status = "running"
Finalized(r, s) == [hold EXCEPT ![r] = IF @ = "reserved" THEN s ELSE @]

\* updatePackStatus: guarded by the owning job only, so any status may follow any.
WithStatus(s) == [pack EXCEPT !.status = s]

-----------------------------------------------------------------------------
(* One delivery *)

Dequeue(w) ==
    /\ pc[w] = "idle"
    /\ \E r \in Runs :
          /\ task[r].state = "pending"
          /\ task' = [task EXCEPT ![r].state = "active", ![r].owner = w]
          /\ loc' = [loc EXCEPT ![w] = [NoLocals EXCEPT !.run = r, !.retry = task[r].retry]]
    /\ Goto(w, "read")
    /\ UNCHANGED <<job, pack, items, hold, counters>>

\* GetByID; a task of an earlier run is ignored, a terminal job only finished.
ReadJob(w) ==
    /\ pc[w] = "read"
    /\ \/ ~OwnsRow(w) /\ Goto(w, "ack") /\ UNCHANGED loc
       \/ /\ OwnsRow(w) /\ job.status \in Live
          /\ loc' = [loc EXCEPT ![w].seen = job.status]
          /\ Goto(w, "claim")
       \/ /\ OwnsRow(w) /\ job.status \notin Live
          /\ Goto(w, CASE job.status = "completed" -> "commit"
                       [] job.status = "failed"    -> "correct"
                       [] job.status = "cancelled" -> "release")
          /\ UNCHANGED loc
    /\ UNCHANGED <<job, pack, items, hold, task, counters>>

\* Mutation: a terminal job's pack is left as it is.
CorrectSkipped(w) ==
    /\ pc[w] = "correct"
    /\ Goto(w, "release")
    /\ UNCHANGED <<job, pack, items, hold, task, loc, counters>>

\* A failed job corrects its pack before its hold is given back.
CorrectPack(w) ==
    /\ pc[w] = "correct"
    /\ pack' = WithStatus("failed")
    /\ Goto(w, "release")
    /\ UNCHANGED <<job, items, hold, task, loc, counters>>

\* Mutation: a retry does not resume a running row.
ClaimQueuedOnly(w) ==
    /\ pc[w] = "claim"
    /\ IF OwnsRow(w) /\ job.status = "queued"
       THEN job' = [job EXCEPT !.status = "running"] /\ Goto(w, "prepare")
       ELSE Goto(w, "ack") /\ UNCHANGED job
    /\ UNCHANGED <<pack, items, hold, task, loc, counters>>

\* claimQueuedJob: a queued row by compare-and-set, a running one only when the
\* delivery is a retry.
Claim(w) ==
    /\ pc[w] = "claim"
    /\ IF loc[w].seen = "queued"
       THEN IF OwnsRow(w) /\ job.status = "queued"
            THEN job' = [job EXCEPT !.status = "running"] /\ Goto(w, "prepare")
            ELSE Goto(w, "ack") /\ UNCHANGED job
       ELSE Goto(w, IF loc[w].retry > 0 THEN "prepare" ELSE "ack") /\ UNCHANGED job
    /\ UNCHANGED <<pack, items, hold, task, loc, counters>>

\* The payload, the resolved route and the reference images decide whether the
\* job can run at all.  (A payload without pack or variants would fail the job and
\* leave the pack alone; the handlers create none.)
Prepare(w) ==
    /\ pc[w] = "prepare"
    /\ \/ Goto(w, "progress") /\ UNCHANGED loc
       \/ Goto(w, "fail") /\ loc' = [loc EXCEPT ![w].correct = TRUE]
    /\ UNCHANGED <<job, pack, items, hold, task, counters>>

MarkInProgress(w) ==
    /\ pc[w] = "progress"
    /\ pack' = WithStatus("in_progress")
    /\ Goto(w, "list")
    /\ UNCHANGED <<job, items, hold, task, loc, counters>>

\* Roles that already have an item count as delivered.
ListItems(w) ==
    /\ pc[w] = "list"
    /\ loc' = [loc EXCEPT ![w].delivered = items]
    /\ Goto(w, "item")
    /\ UNCHANGED <<job, pack, items, hold, task, counters>>

\* The next role is skipped, or its provider call, background removal and
\* upload end in an image, in a failure of this role, or in the end of the pack
\* (content policy, billable-call cap).
GenerateItem(w) ==
    LET i == loc[w].next IN
    /\ pc[w] = "item"
    /\ \/ i > NRoles /\ Goto(w, "completeness") /\ UNCHANGED loc
       \/ /\ i <= NRoles /\ i \in loc[w].delivered
          /\ loc' = [loc EXCEPT ![w].next = i + 1]
          /\ UNCHANGED pc
       \/ /\ i <= NRoles /\ i \notin loc[w].delivered
          /\ \/ Goto(w, "insert") /\ UNCHANGED loc
             \/ loc' = [loc EXCEPT ![w].next = i + 1, ![w].failed = TRUE] /\ UNCHANGED pc
             \/ Goto(w, "abort") /\ loc' = [loc EXCEPT ![w].correct = TRUE]
    /\ UNCHANGED <<job, pack, items, hold, task, counters>>

\* insertPackItemWithAsset: under the job's row lock, only while it runs; the
\* unique role makes a second row a failure of this role.
InsertItem(w) ==
    LET i == loc[w].next IN
    /\ pc[w] = "insert"
    /\ IF job.status # "running"
       THEN Goto(w, "recheck") /\ UNCHANGED <<items, loc>>
       ELSE /\ items' = items \cup {i}
            /\ loc' = [loc EXCEPT ![w].next = i + 1,
                          ![w].delivered = IF i \in items THEN @ ELSE @ \cup {i},
                          ![w].failed = @ \/ i \in items]
            /\ Goto(w, "item")
    /\ UNCHANGED <<job, pack, hold, task, counters>>

\* finishCancelled: release only what is still cancelled.
Recheck(w) ==
    /\ pc[w] = "recheck"
    /\ Goto(w, IF job.status = "cancelled" THEN "release" ELSE "ack")
    /\ UNCHANGED <<job, pack, items, hold, task, loc, counters>>

Completeness(w) == [pack EXCEPT !.delivered = loc[w].delivered,
                                !.missing = Roles \ loc[w].delivered]

\* A pack that stops early records what it delivered and fails.
AbortPack(w) ==
    /\ pc[w] = "abort"
    /\ pack' = Completeness(w)
    /\ Goto(w, "fail")
    /\ UNCHANGED <<job, items, hold, task, loc, counters>>

UpdateCompleteness(w) ==
    /\ pc[w] = "completeness"
    /\ pack' = Completeness(w)
    /\ Goto(w, "packstatus")
    /\ UNCHANGED <<job, items, hold, task, loc, counters>>

\* The pack's outcome: failed without any role, with warnings when one failed.
Outcome(w) ==
    IF loc[w].delivered = {} THEN "failed"
    ELSE IF loc[w].failed THEN "completed_with_warnings" ELSE "completed"

\* The pack's status is written before the job's.
UpdatePackStatus(w) ==
    /\ pc[w] = "packstatus"
    /\ pack' = WithStatus(Outcome(w))
    /\ Goto(w, IF loc[w].delivered = {} THEN "fail" ELSE "complete")
    /\ UNCHANGED <<job, items, hold, task, loc, counters>>

MarkCompleted(w) ==
    /\ pc[w] = "complete"
    /\ IF CanComplete(w)
       THEN /\ job' = [job EXCEPT !.status = "completed", !.assets = loc[w].delivered]
            /\ Goto(w, "commit")
       ELSE Goto(w, "nack") /\ UNCHANGED job
    /\ UNCHANGED <<pack, items, hold, task, loc, counters>>

\* markJobFailed; failPackTerminal corrects the pack only after it won.
MarkFailed(w) ==
    /\ pc[w] = "fail"
    /\ IF CanFail(w)
       THEN /\ job' = [job EXCEPT !.status = "failed"]
            /\ Goto(w, IF loc[w].correct THEN "failpack" ELSE "release")
       ELSE Goto(w, "nack") /\ UNCHANGED job
    /\ UNCHANGED <<pack, items, hold, task, loc, counters>>

FailPack(w) ==
    /\ pc[w] = "failpack"
    /\ pack' = WithStatus("failed")
    /\ Goto(w, "release")
    /\ UNCHANGED <<job, items, hold, task, loc, counters>>

\* Mutation: a pack that delivered nothing is charged as well.
ReleaseCommits(w) ==
    /\ pc[w] = "release"
    /\ hold' = Finalized(Run(w), "committed")
    /\ Goto(w, "ack")
    /\ UNCHANGED <<job, pack, items, task, loc, counters>>

CommitReservation(w) ==
    /\ pc[w] = "commit"
    /\ hold' = Finalized(Run(w), "committed")
    /\ Goto(w, "ack")
    /\ UNCHANGED <<job, pack, items, task, loc, counters>>

ReleaseReservation(w) ==
    /\ pc[w] = "release"
    /\ hold' = Finalized(Run(w), "released")
    /\ Goto(w, "ack")
    /\ UNCHANGED <<job, pack, items, task, loc, counters>>

-----------------------------------------------------------------------------
(* The queue, failures and the admin *)

\* A task that was not acknowledged is delivered again, or archived.
Redelivered(t) ==
    IF t.retry + 1 < MaxAttempts
    THEN [state |-> "pending", retry |-> t.retry + 1, owner |-> NoOne]
    ELSE [state |-> "archived", retry |-> t.retry, owner |-> NoOne]

\* The handler is gone; only the owner of the lease moves its task.
Leave(w, acked) ==
    /\ task' = IF task[Run(w)].owner # w THEN task
               ELSE [task EXCEPT ![Run(w)] =
                        IF acked THEN [state |-> "done", retry |-> @.retry, owner |-> NoOne]
                        ELSE Redelivered(@)]
    /\ loc' = [loc EXCEPT ![w] = NoLocals]
    /\ Goto(w, "idle")

HandlerReturns(w) ==
    /\ pc[w] \in {"ack", "nack"}
    /\ Leave(w, pc[w] = "ack")
    /\ UNCHANGED <<job, pack, items, hold, counters>>

\* A statement fails and the handler returns its error, or the process dies.
Fault(w) ==
    /\ faults < MaxFaults
    /\ faults' = faults + 1
    /\ pc[w] \in Statements
    /\ Leave(w, FALSE)
    /\ UNCHANGED <<job, pack, items, hold, cancels, lost>>

\* The lease expires while the handler runs on.
LoseLease(w) ==
    /\ lost < MaxLostLeases
    /\ pc[w] # "idle" /\ task[Run(w)].owner = w
    /\ lost' = lost + 1
    /\ task' = [task EXCEPT ![Run(w)] = Redelivered(@)]
    /\ UNCHANGED <<job, pack, items, hold, pc, loc, cancels, faults>>

CancelJob ==
    /\ cancels < MaxCancels
    /\ cancels' = cancels + 1
    /\ job.status \in Live
    /\ job' = [job EXCEPT !.status = "cancelled"]
    /\ pack' = WithStatus("failed")
    /\ hold' = Finalized(job.run, "released")
    /\ UNCHANGED <<items, task, pc, loc, faults, lost>>

\* A failed pack is reopened under a new reservation; its items stay.
RetryJob ==
    /\ job.status = "failed" /\ job.run < MaxRuns
    /\ job' = [job EXCEPT !.status = "queued", !.run = @ + 1, !.assets = {}]
    /\ hold' = [Finalized(job.run, "released") EXCEPT ![job.run + 1] = "reserved"]
    /\ task' = [task EXCEPT ![job.run + 1].state = "pending"]
    /\ UNCHANGED <<pack, items, pc, loc, counters>>

WorkerStep(w) ==
    \/ Dequeue(w) \/ ReadJob(w) \/ CorrectPack(w) \/ Claim(w) \/ Prepare(w)
    \/ MarkInProgress(w) \/ ListItems(w) \/ GenerateItem(w) \/ InsertItem(w)
    \/ Recheck(w) \/ AbortPack(w) \/ UpdateCompleteness(w) \/ UpdatePackStatus(w)
    \/ MarkCompleted(w) \/ MarkFailed(w) \/ FailPack(w)
    \/ CommitReservation(w) \/ ReleaseReservation(w) \/ HandlerReturns(w)

Next ==
    \/ \E w \in Workers : WorkerStep(w) \/ Fault(w) \/ LoseLease(w)
    \/ CancelJob \/ RetryJob

Spec == Init /\ [][Next]_vars
FairSpec == Spec /\ \A w \in Workers : WF_vars(WorkerStep(w))

-----------------------------------------------------------------------------
(* Properties *)

\* No handler works on the current run and none will.
Quiet ==
    /\ \A w \in Workers : pc[w] = "idle"
    /\ \A r \in Runs : task[r].state \notin {"pending", "active"}

\* The pack a reader finds once its job has settled says what became of the
\* job: its status, and delivered and missing roles that match the items.
\* Three statements, a crash between any two of them and a correction on the
\* next delivery have to bring this about.  Pack writes name the job and not its
\* run or status, so this is promised of a first run that no admin cancelled and
\* whose deliveries did not overlap; and the correction of a failed job's pack
\* takes one delivery that is not cut short, so of a task the queue gave up
\* nothing is promised when the job failed.
SettledPackAgrees ==
    Quiet /\ job.run = 1 /\ cancels = 0 /\ lost = 0 =>
        /\ job.status = "failed" /\ task[1].state # "archived" => pack.status = "failed"
        /\ job.status = "completed" =>
              /\ pack.status = IF pack.missing = {} THEN "completed"
                               ELSE "completed_with_warnings"
              /\ pack.delivered = items /\ pack.missing = Roles \ items

Lifecycle == INSTANCE JobLifecycle WITH
    status <- job.status, run <- job.run, hold <- hold[job.run],
    delivered <- job.assets # {}

\* The pack path keeps the same promise of the job row as the artifact path.
ImplementsLifecycle == Lifecycle!Spec

\* With fewer faults than attempts and no lost lease, a pack job ends and its hold
\* is finalized, whatever its items do and whenever an admin cancels or retries.
\* (A delivery that lost its lease and then dies leaves nobody to finish.)
EventuallySettled ==
    [](lost = 0)
      => <>[](job.status \in {"completed", "failed", "cancelled"} /\ hold[job.run] # "reserved")
=============================================================================
