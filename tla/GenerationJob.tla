---------------------------- MODULE GenerationJob ----------------------------
(***************************************************************************)
(* One generation job from its committed row to its terminal status: the   *)
(* generation_jobs row with its compare-and-set transitions, the asynq     *)
(* tasks that carry it (one per run), the worker processes that execute    *)
(* the task handler, the provider, the admin cancel and retry endpoints,   *)
(* and the lifecycle events the workers emit.                              *)
(*                                                                         *)
(* Every worker step is one transaction, one provider or storage call, or  *)
(* one queue operation, so anything can happen between two of them: a      *)
(* cancel, an admin retry, a second delivery of the same task, a crash.    *)
(* Jobs share no row that this handler writes, so one job is enough; the   *)
(* budgets they do share are in module CostLedger.                         *)
(***************************************************************************)
EXTENDS Naturals, FiniteSets

CONSTANTS
  Workers,                  \* task-handler goroutines, over all processes
  MaxRuns,                  \* bound: the first run plus the admin retries
  MaxAttempts,              \* asynq deliveries of one task (enqueue.go)
  MaxBillableCallsPerUnit,  \* provider calls allowed per priced unit
  NumRoutes,                \* length of the persisted chain, primary first
  Registered,               \* the routes whose provider adapter is registered
  PreviewModes,             \* the values preview_first may have
  FaultKinds,               \* which faults the environment may inject
  MaxFaults                 \* bound: how many of them

ASSUME ConstantsAssumption ==
  /\ IsFiniteSet(Workers)
  /\ Workers # {}
  /\ MaxRuns \in Nat \ {0}
  /\ MaxAttempts \in Nat \ {0}
  /\ MaxBillableCallsPerUnit \in Nat \ {0}
  /\ NumRoutes \in Nat \ {0}
  /\ Registered \subseteq 1..NumRoutes
  /\ PreviewModes \subseteq BOOLEAN
  /\ FaultKinds \subseteq {"crash", "lease", "requeue", "db", "enqueue", "emit"}
  /\ MaxFaults \in Nat

VARIABLES
  job,      \* the generation_jobs row
  finals,   \* number of final visual_assets rows inserted for the job
  resv,     \* cost_reservations.status of each run's reservation
  billed,   \* number of provider_attempts rows of the job
  emitted,  \* how many times each run's lifecycle events were emitted
  api,      \* where the request that opened each run is (after its commit)
  task,     \* the asynq task of each run
  pc,       \* the step each worker is about to take
  dlv,      \* the delivery each worker executes: run, retry count, lease
  snap,     \* the job snapshot each worker read at the start
  loc,      \* each worker's local variables
  faults    \* faults injected so far

jobVars  == <<job, finals, resv>>
workVars == <<pc, dlv, snap, loc>>
vars == <<jobVars, billed, emitted, api, task, workVars, faults>>

Runs     == 1..MaxRuns
Live     == {"queued", "running", "preview_ready"}
Terminal == {"completed", "failed", "cancelled"}
Statuses == Live \cup Terminal
Events   == {"preview_ready", "completed", "failed"}

\* A run of the job is named by its cost reservation, the execution epoch.
\* preview is the run whose worker produced the preview (0: none); previewFirst
\* is the request's preview_first, fixed in input_payload.
JobRow == [status : Statuses, run : Runs, preview : 0..MaxRuns,
           claimed : BOOLEAN, delivered : BOOLEAN, previewFirst : BOOLEAN]

\* The job takes the two-phase path.
PreviewFirst == job.previewFirst

Steps == {"idle", "read", "claim", "prepare", "claimFinal", "route", "insert",
          "call", "upload", "persist", "recheck", "markFailed", "emitPreview",
          "emitFailed", "emitCompleted", "commit", "release", "ack", "nack"}

Deliveries == [run : Runs, retry : 0..(MaxAttempts - 1), leased : BOOLEAN]
Snapshots  == [status : Statuses, preview : BOOLEAN, claimed : BOOLEAN]
Locals     == [phase : {"preview", "final"}, route : 1..(NumRoutes + 1),
               lastErr : {"none", "transient", "unpaid"},
               tail : {"strict", "swallow", "error"}]

\* What an idle worker holds; the values are never read.
NoDelivery == [run |-> 1, retry |-> 0, leased |-> FALSE]
NoSnapshot == [status |-> "queued", preview |-> FALSE, claimed |-> FALSE]
NoLocals   == [phase |-> "final", route |-> 1, lastErr |-> "none", tail |-> "strict"]

\* Every variable keeps its type.
TypeOK ==
  /\ job \in JobRow
  /\ finals \in Nat
  /\ resv \in [Runs -> {"none", "reserved", "denied", "committed", "released"}]
  /\ billed \in Nat
  /\ emitted \in [Runs -> [Events -> Nat]]
  /\ api \in [Runs -> {"none", "enqueue", "cleanup", "done"}]
  /\ task \in [Runs -> [state : {"none", "pending", "active", "done", "archived"},
                        retry : 0..(MaxAttempts - 1)]]
  /\ pc \in [Workers -> Steps]
  /\ dlv \in [Workers -> Deliveries]
  /\ snap \in [Workers -> Snapshots]
  /\ loc \in [Workers -> Locals]
  /\ faults \in 0..MaxFaults

-----------------------------------------------------------------------------
\* The create transaction has committed: a queued job with its hold, whose
\* request is about to enqueue the task, or a job failed at preflight because
\* the reservation was denied (that one is never enqueued).
Init ==
  /\ \E denied \in BOOLEAN, previewFirst \in PreviewModes :
       /\ job = [status |-> IF denied THEN "failed" ELSE "queued", run |-> 1,
                 preview |-> 0, claimed |-> FALSE, delivered |-> FALSE,
                 previewFirst |-> previewFirst]
       /\ resv = [r \in Runs |-> IF r > 1 THEN "none"
                                 ELSE IF denied THEN "denied" ELSE "reserved"]
       /\ api = [r \in Runs |-> IF r > 1 THEN "none"
                                ELSE IF denied THEN "done" ELSE "enqueue"]
  /\ finals = 0
  /\ billed = 0
  /\ emitted = [r \in Runs |-> [ev \in Events |-> 0]]
  /\ task = [r \in Runs |-> [state |-> "none", retry |-> 0]]
  /\ pc = [w \in Workers |-> "idle"]
  /\ dlv = [w \in Workers |-> NoDelivery]
  /\ snap = [w \in Workers |-> NoSnapshot]
  /\ loc = [w \in Workers |-> NoLocals]
  /\ faults = 0

-----------------------------------------------------------------------------
(* The guarded writes of generation_jobs.sql and the reservation finalizer. *)

\* MarkGenerationJobRunning, bound to the run.
CanMarkRunning(r) == job.run = r /\ job.status = "queued"

\* Mutation: the status guard is missing from the UPDATE.
CanMarkFailedAnyStatus(r) == job.run = r

\* MarkGenerationJobFailed, bound to the run.
CanMarkFailed(r) == job.run = r /\ job.status \in Live

\* Mutation: the durable marker is set but not tested.
CanClaimFinalAgain(r) ==
  job.run = r /\ job.status \in {"preview_ready", "queued"} /\ job.preview # 0

\* ClaimPreviewFinalization, bound to the run.
CanClaimFinal(r) ==
  /\ job.run = r
  /\ job.status \in {"preview_ready", "queued"}
  /\ job.preview # 0
  /\ ~job.delivered
  /\ ~job.claimed

\* A reservation is finalized at most once: only a reserved row moves.
Finalized(r, target) ==
  [resv EXCEPT ![r] = IF @ = "reserved" THEN target ELSE @]

\* Mutation: a completed job is persisted again.
PersistTwice(r, phase) ==
  IF job.run = r /\ job.status \in {"running", "preview_ready", "completed"}
  THEN "Persisted" ELSE "AlreadyTerminal"

\* Mutation: the lock statement is not bound to the reservation.
PersistAnyRun(r, phase) ==
  IF job.status \in {"running", "preview_ready"} THEN "Persisted" ELSE "AlreadyTerminal"

\* The outcome of a guarded persist, decided under the job row lock.
PersistOutcome(r, phase) ==
  IF job.run # r THEN "AlreadyTerminal"
  ELSE CASE job.status = "cancelled"     -> "SkippedCancelled"
         [] job.status = "completed"     -> "AlreadyCompleted"
         [] job.status = "failed"        -> "AlreadyTerminal"
         [] job.status = "preview_ready" -> IF phase = "preview"
                                            THEN "AlreadyPreviewReady" ELSE "Persisted"
         [] job.status = "running"       -> "Persisted"
         [] job.status = "queued"        -> "Error"

\* One image is one unit, a preview-first render two.
billableCallCap == (IF PreviewFirst THEN 2 ELSE 1) * MaxBillableCallsPerUnit

\* Mutation: one call too many.
UnderCallCapOrAt == billed <= billableCallCap

\* The comparison of generateWithFallback.
UnderCallCap == billed < billableCallCap

-----------------------------------------------------------------------------
(* Control helpers of the worker. *)

Goto(w, step) == pc' = [pc EXCEPT ![w] = step]

Run(w) == dlv[w].run

\* Mutation: the zero-based retry count is compared with the number of attempts.
FinalAttemptOffByOne(w) == dlv[w].retry >= MaxAttempts

FinalAttempt(w) == dlv[w].retry + 1 >= MaxAttempts

\* The failure tail: mark the job failed, emit, release.  "strict" returns
\* the first error of the tail (failTerminal), "swallow" returns nil whatever
\* happens, "error" returns the generation error whatever happens.
FailWith(w, tail) ==
  /\ Goto(w, "markFailed")
  /\ loc' = [loc EXCEPT ![w].tail = tail]

\* failJobOnFinalAttempt(..., finalAttempt) and return the error.
GiveUp(w) ==
  IF FinalAttempt(w) THEN FailWith(w, "error") ELSE Goto(w, "nack") /\ UNCHANGED loc

\* Start walking the chain of routes for a phase.
BeginPhase(w, phase) ==
  /\ Goto(w, "route")
  /\ loc' = [loc EXCEPT ![w] = [NoLocals EXCEPT !.phase = phase]]

\* generateWithFallback returned err: terminalGenerationError decides.
GenerationFailed(w, err) ==
  IF err = "unpaid" THEN FailWith(w, "swallow") ELSE GiveUp(w)

-----------------------------------------------------------------------------
(* The task handler: process and processPreviewFirst. *)

\* asynq hands a pending task to a free worker (at-least-once delivery).
Dequeue(w) ==
  /\ pc[w] = "idle"
  /\ \E r \in Runs :
       /\ task[r].state = "pending"
       /\ task' = [task EXCEPT ![r].state = "active"]
       /\ dlv' = [dlv EXCEPT ![w] = [run |-> r, retry |-> task[r].retry, leased |-> TRUE]]
  /\ Goto(w, "read")
  /\ UNCHANGED <<jobVars, billed, emitted, api, snap, loc, faults>>

\* Mutation: every terminal job is finalized like a completed one.
FirstStepCommits(w) ==
  IF job.run # Run(w) THEN "ack"
  ELSE IF job.status \in Terminal THEN "commit"
  ELSE IF PreviewFirst /\ job.preview # 0 THEN "prepare" ELSE "claim"

\* Drop a delivery of an older run; only finalize the cost of a terminal job;
\* resume a preview-first job that has its preview at the final phase; claim
\* any other job.
FirstStep(w) ==
  IF job.run # Run(w) THEN "ack"
  ELSE IF job.status = "completed" THEN "commit"
  ELSE IF job.status \in {"failed", "cancelled"} THEN "release"
  ELSE IF PreviewFirst /\ job.preview # 0 THEN "prepare" ELSE "claim"

ReadJob(w) ==
  /\ pc[w] = "read"
  /\ snap' = [snap EXCEPT ![w] = [status |-> job.status, preview |-> job.preview # 0,
                                  claimed |-> job.claimed]]
  /\ Goto(w, FirstStep(w))
  /\ UNCHANGED <<jobVars, billed, emitted, api, task, dlv, loc, faults>>

\* A running row is accepted only by a retried delivery.
OwnsRunning(w) == snap[w].status = "running" /\ dlv[w].retry > 0

MarkedRunning == [job EXCEPT !.status = "running"]

\* claimQueuedJob: the snapshot decides, then a compare-and-set on the row.
ClaimQueuedJob(w) ==
  /\ pc[w] = "claim"
  /\ \/ /\ snap[w].status = "queued"
        /\ CanMarkRunning(Run(w))
        /\ job' = MarkedRunning
        /\ Goto(w, "prepare")
     \/ /\ snap[w].status = "queued"
        /\ ~CanMarkRunning(Run(w))
        /\ Goto(w, "ack")
        /\ UNCHANGED job
     \/ /\ snap[w].status # "queued"
        /\ Goto(w, IF OwnsRunning(w) THEN "prepare" ELSE "ack")
        /\ UNCHANGED job
  /\ UNCHANGED <<finals, resv, billed, emitted, api, task, dlv, snap, loc, faults>>

\* Resolve the route, the megapixel ceiling and the identity references.  Any
\* of them may be unusable, which fails the job for good.
Prepare(w) ==
  /\ pc[w] = "prepare"
  /\ \/ FailWith(w, "strict")
     \/ IF PreviewFirst /\ snap[w].preview
        THEN Goto(w, "claimFinal") /\ UNCHANGED loc
        ELSE BeginPhase(w, IF PreviewFirst THEN "preview" ELSE "final")
  /\ UNCHANGED <<jobVars, billed, emitted, api, task, dlv, snap, faults>>

FinalClaimed == [job EXCEPT !.claimed = TRUE,
                            !.status = IF @ = "queued" THEN "running" ELSE @]

\* claimPreviewFinalization: a retried delivery that saw the phase owned goes
\* on without the compare-and-set.
ClaimPreviewFinalization(w) ==
  /\ pc[w] = "claimFinal"
  /\ IF dlv[w].retry > 0 /\ (snap[w].status = "running" \/ snap[w].claimed)
     THEN BeginPhase(w, "final") /\ UNCHANGED job
     ELSE IF CanClaimFinal(Run(w))
     THEN /\ job' = FinalClaimed
          /\ BeginPhase(w, "final")
     ELSE Goto(w, "ack") /\ UNCHANGED <<job, loc>>
  /\ UNCHANGED <<finals, resv, billed, emitted, api, task, dlv, snap, faults>>

(* generateWithFallback: one iteration per route of the chain. *)

ChainExhausted(w) ==
  /\ pc[w] = "route"
  /\ loc[w].route > NumRoutes
  /\ GenerationFailed(w, loc[w].lastErr)
  /\ UNCHANGED <<jobVars, billed, emitted, api, task, dlv, snap, faults>>

SkipRoute(w) ==
  /\ pc[w] = "route"
  /\ loc[w].route \in (1..NumRoutes) \ Registered
  /\ loc' = [loc EXCEPT ![w].route = @ + 1]
  /\ UNCHANGED <<jobVars, billed, emitted, api, task, pc, dlv, snap, faults>>

\* CountProviderAttempts and the comparison; the attempt row is inserted by a
\* later statement.
CheckCallCap(w) ==
  /\ pc[w] = "route"
  /\ loc[w].route \in Registered
  /\ IF UnderCallCap
     THEN Goto(w, "insert") /\ UNCHANGED loc
     ELSE IF loc[w].lastErr = "none"
     THEN FailWith(w, "swallow")
     ELSE GenerationFailed(w, loc[w].lastErr)
  /\ UNCHANGED <<jobVars, billed, emitted, api, task, dlv, snap, faults>>

InsertProviderAttempt(w) ==
  /\ pc[w] = "insert"
  /\ billed' = billed + 1
  /\ Goto(w, "call")
  /\ UNCHANGED <<jobVars, emitted, api, task, dlv, snap, loc, faults>>

\* adapter.Generate returns: an image, a content-policy rejection (terminal at
\* once), or a failure of this route, which is recorded before the next one.
ProviderReturns(w) ==
  /\ pc[w] = "call"
  /\ \/ Goto(w, "upload") /\ UNCHANGED loc
     \/ FailWith(w, "swallow")
     \/ \E err \in {"transient", "unpaid"} :
          /\ loc' = [loc EXCEPT ![w].route = @ + 1, ![w].lastErr = err]
          /\ Goto(w, "route")
  /\ UNCHANGED <<jobVars, billed, emitted, api, task, dlv, snap, faults>>

\* validateProviderImages and uploadImages.
UploadImages(w) ==
  /\ pc[w] = "upload"
  /\ \/ Goto(w, "persist") /\ UNCHANGED loc
     \/ FailWith(w, "strict")
     \/ GiveUp(w)
  /\ UNCHANGED <<jobVars, billed, emitted, api, task, dlv, snap, faults>>

\* insertPreviewAssetAndMarkPreviewReady, one transaction under the row lock.
PersistPreview(w) ==
  LET outcome == PersistOutcome(Run(w), "preview") IN
  /\ pc[w] = "persist"
  /\ loc[w].phase = "preview"
  /\ \/ /\ outcome = "Persisted"
        /\ job' = [job EXCEPT !.status = "preview_ready", !.preview = Run(w)]
        /\ Goto(w, "emitPreview") /\ UNCHANGED loc
     \/ /\ outcome # "Persisted"
        /\ UNCHANGED job
        /\ CASE outcome = "SkippedCancelled"    -> Goto(w, "recheck") /\ UNCHANGED loc
             [] outcome = "AlreadyPreviewReady" -> Goto(w, "claimFinal") /\ UNCHANGED loc
             [] outcome = "Error"               -> GiveUp(w)
             [] OTHER                           -> Goto(w, "ack") /\ UNCHANGED loc
  /\ UNCHANGED <<finals, resv, billed, emitted, api, task, dlv, snap, faults>>

\* The single-phase path emits before it commits the cost, the two-phase path
\* after.
AfterPersist == IF PreviewFirst THEN "commit" ELSE "emitCompleted"

\* insertFinalAssetAndCompleteJob, one transaction under the row lock.
PersistFinal(w) ==
  LET outcome == PersistOutcome(Run(w), "final") IN
  /\ pc[w] = "persist"
  /\ loc[w].phase = "final"
  /\ \/ /\ outcome = "Persisted"
        /\ job' = [job EXCEPT !.status = "completed", !.delivered = TRUE]
        /\ finals' = finals + 1
        /\ Goto(w, AfterPersist) /\ UNCHANGED loc
     \/ /\ outcome # "Persisted"
        /\ UNCHANGED <<job, finals>>
        /\ CASE outcome = "SkippedCancelled" -> Goto(w, "recheck") /\ UNCHANGED loc
             [] outcome = "Error"            -> GiveUp(w)
             [] OTHER                        -> Goto(w, "ack") /\ UNCHANGED loc
  /\ UNCHANGED <<resv, billed, emitted, api, task, dlv, snap, faults>>

\* finishCancelled reads the row again: only a cancelled job is released.
RecheckCancelled(w) ==
  /\ pc[w] = "recheck"
  /\ Goto(w, IF job.status = "cancelled" THEN "release" ELSE "ack")
  /\ UNCHANGED <<jobVars, billed, emitted, api, task, dlv, snap, loc, faults>>

\* Mutation: the hold is released although the job was not marked failed.
TailErrorReleases(w) == "release"

\* Mutation: the failure is announced although the job was not marked failed.
TailErrorAnnounces(w) == IF pc[w] = "markFailed" THEN "emitFailed" ELSE "ack"

\* Where the failure tail goes when one of its steps did not succeed.
TailError(w) == IF loc[w].tail = "swallow" THEN "ack" ELSE "nack"

\* markJobFailed: a missed compare-and-set is an error.
MarkFailed(w) ==
  /\ pc[w] = "markFailed"
  /\ IF CanMarkFailed(Run(w))
     THEN job' = [job EXCEPT !.status = "failed"] /\ Goto(w, "emitFailed")
     ELSE Goto(w, TailError(w)) /\ UNCHANGED job
  /\ UNCHANGED <<finals, resv, billed, emitted, api, task, dlv, snap, loc, faults>>

\* The step after a lifecycle event was emitted (or dropped).
AfterEmit(w) ==
  CASE pc[w] = "emitPreview"   -> "claimFinal"
    [] pc[w] = "emitFailed"    -> "release"
    [] pc[w] = "emitCompleted" -> IF PreviewFirst THEN "ack" ELSE "commit"

EventOf(step) ==
  CASE step = "emitPreview" -> "preview_ready"
    [] step = "emitFailed"  -> "failed"
    [] OTHER                -> "completed"

Emit(w) ==
  /\ pc[w] \in {"emitPreview", "emitFailed", "emitCompleted"}
  /\ emitted' = [emitted EXCEPT ![Run(w)][EventOf(pc[w])] = @ + 1]
  /\ Goto(w, AfterEmit(w))
  /\ UNCHANGED <<jobVars, billed, api, task, dlv, snap, loc, faults>>

\* The worker that persisted a two-phase final still has its event to emit; a
\* delivery that found the job completed has not.
AfterCommit(w) ==
  IF PreviewFirst /\ snap[w].status # "completed" THEN "emitCompleted" ELSE "ack"

CommitReservation(w) ==
  /\ pc[w] = "commit"
  /\ resv' = Finalized(Run(w), "committed")
  /\ Goto(w, AfterCommit(w))
  /\ UNCHANGED <<job, finals, billed, emitted, api, task, dlv, snap, loc, faults>>

ReleaseReservation(w) ==
  /\ pc[w] = "release"
  /\ resv' = Finalized(Run(w), "released")
  /\ Goto(w, IF loc[w].tail = "error" THEN "nack" ELSE "ack")
  /\ UNCHANGED <<job, finals, billed, emitted, api, task, dlv, snap, loc, faults>>

-----------------------------------------------------------------------------
(* The queue (asynq, external) and the death of worker processes. *)

Forget(w) ==
  /\ pc' = [pc EXCEPT ![w] = "idle"]
  /\ dlv' = [dlv EXCEPT ![w] = NoDelivery]
  /\ snap' = [snap EXCEPT ![w] = NoSnapshot]
  /\ loc' = [loc EXCEPT ![w] = NoLocals]

\* Mutation: the queue retries for ever.
RetriedForEver(t) == [state |-> "pending", retry |-> t.retry + 1]

\* The task after a delivery that returned an error or never returned.
Retried(t) ==
  IF t.retry + 1 < MaxAttempts THEN [state |-> "pending", retry |-> t.retry + 1]
                               ELSE [state |-> "archived", retry |-> t.retry]

\* The handler returned; the result of a delivery that lost its lease is
\* ignored.
HandlerReturns(w) ==
  /\ pc[w] \in {"ack", "nack"}
  /\ task' = IF ~dlv[w].leased THEN task
             ELSE [task EXCEPT ![Run(w)] = IF pc[w] = "ack" THEN [@ EXCEPT !.state = "done"]
                                                            ELSE Retried(@)]
  /\ Forget(w)
  /\ UNCHANGED <<jobVars, billed, emitted, api, faults>>

\* The recoverer retries an active task that no delivery holds a lease on.
RecoverTask(r) ==
  /\ task[r].state = "active"
  /\ ~\E w \in Workers : dlv[w].leased /\ Run(w) = r
  /\ task' = [task EXCEPT ![r] = Retried(@)]
  /\ UNCHANGED <<jobVars, billed, emitted, api, workVars, faults>>

Fault(kind) ==
  /\ kind \in FaultKinds
  /\ faults < MaxFaults
  /\ faults' = faults + 1

\* A worker process dies; its lease expires later.
Crash(w) ==
  /\ pc[w] # "idle"
  /\ Fault("crash")
  /\ Forget(w)
  /\ UNCHANGED <<jobVars, billed, emitted, api, task>>

\* A stalled worker's lease expires while its handler goes on.
LoseLease(w) ==
  /\ dlv[w].leased
  /\ Fault("lease")
  /\ dlv' = [dlv EXCEPT ![w].leased = FALSE]
  /\ UNCHANGED <<jobVars, billed, emitted, api, task, pc, snap, loc>>

\* A shutdown puts the task back with the same retry count while its handler
\* goes on.
Requeue(w) ==
  /\ dlv[w].leased
  /\ Fault("requeue")
  /\ dlv' = [dlv EXCEPT ![w].leased = FALSE]
  /\ task' = [task EXCEPT ![Run(w)].state = "pending"]
  /\ UNCHANGED <<jobVars, billed, emitted, api, pc, snap, loc>>

\* A database statement fails and its transaction is rolled back: where the
\* handler goes, by the step that failed.
DbError(w) ==
  /\ Fault("db")
  /\ \/ /\ pc[w] \in {"read", "claim", "claimFinal", "recheck", "commit"}
        /\ Goto(w, "nack") /\ UNCHANGED loc
     \/ /\ \/ pc[w] \in {"insert", "persist"}
           \/ pc[w] = "route" /\ loc[w].route \in Registered
        /\ GiveUp(w)
     \/ /\ pc[w] \in {"markFailed", "release"}
        /\ Goto(w, TailError(w)) /\ UNCHANGED loc
  /\ UNCHANGED <<jobVars, billed, emitted, api, task, dlv, snap>>

\* Emission is best effort: an error is logged and the event is lost.
EmitDropped(w) ==
  /\ pc[w] \in {"emitPreview", "emitFailed", "emitCompleted"}
  /\ Fault("emit")
  /\ Goto(w, AfterEmit(w))
  /\ UNCHANGED <<jobVars, billed, emitted, api, task, dlv, snap, loc>>

-----------------------------------------------------------------------------
(* The requests: the enqueue that follows a committed create or retry, and   *)
(* the admin endpoints.                                                      *)

EnqueueTask(r) ==
  /\ api[r] = "enqueue"
  /\ api' = [api EXCEPT ![r] = "done"]
  /\ task' = [task EXCEPT ![r].state = "pending"]
  /\ UNCHANGED <<jobVars, billed, emitted, workVars, faults>>

\* The enqueue reports an error; Redis may have taken the task all the same.
EnqueueFails(r) ==
  /\ api[r] = "enqueue"
  /\ Fault("enqueue")
  /\ api' = [api EXCEPT ![r] = "cleanup"]
  /\ task' \in {task, [task EXCEPT ![r].state = "pending"]}
  /\ UNCHANGED <<jobVars, billed, emitted, workVars>>

\* Mark failed and release in one transaction, or neither.
CleanupEnqueue(r) ==
  /\ api[r] = "cleanup"
  /\ api' = [api EXCEPT ![r] = "done"]
  /\ IF CanMarkFailed(r)
     THEN job' = [job EXCEPT !.status = "failed"] /\ resv' = Finalized(r, "released")
     ELSE UNCHANGED <<job, resv>>
  /\ UNCHANGED <<finals, billed, emitted, task, workVars, faults>>

\* The cleanup transaction itself fails: the error is only returned.
CleanupFails(r) ==
  /\ api[r] = "cleanup"
  /\ Fault("db")
  /\ api' = [api EXCEPT ![r] = "done"]
  /\ UNCHANGED <<jobVars, billed, emitted, task, workVars>>

\* The API process dies between its commit and its enqueue or cleanup.
ApiCrash(r) ==
  /\ api[r] \in {"enqueue", "cleanup"}
  /\ Fault("crash")
  /\ api' = [api EXCEPT ![r] = "done"]
  /\ UNCHANGED <<jobVars, billed, emitted, task, workVars>>

\* A cancel of a cancelled job only repeats the (idempotent) release.
CancelJob ==
  /\ job.status \in Live \cup {"cancelled"}
  /\ job' = [job EXCEPT !.status = "cancelled"]
  /\ resv' = Finalized(job.run, "released")
  /\ UNCHANGED <<finals, billed, emitted, api, task, workVars, faults>>

\* Mutation: the prior hold is left to the worker that failed the job.
RetryHoldsTwice == [resv EXCEPT ![job.run + 1] = "reserved"]

\* ReleaseInTx of the prior reservation, then Reserve.
RetryHolds == [Finalized(job.run, "released") EXCEPT ![job.run + 1] = "reserved"]

\* Reopen a failed job: release what is left of the prior hold, reserve anew,
\* reset the row and keep the preview.  A denied reservation rolls all of it
\* back, which is no step at all.
RetryJob ==
  /\ job.status = "failed"
  /\ job.run < MaxRuns
  /\ job' = [job EXCEPT !.status = "queued", !.run = @ + 1, !.claimed = FALSE,
                        !.delivered = FALSE]
  /\ resv' = RetryHolds
  /\ api' = [api EXCEPT ![job.run + 1] = "enqueue"]
  /\ UNCHANGED <<finals, billed, emitted, task, workVars, faults>>

-----------------------------------------------------------------------------
\* The handler's own steps, in the order of the code.
WorkerStep(w) ==
  \/ ReadJob(w) \/ ClaimQueuedJob(w) \/ Prepare(w) \/ ClaimPreviewFinalization(w)
  \/ ChainExhausted(w) \/ SkipRoute(w) \/ CheckCallCap(w) \/ InsertProviderAttempt(w)
  \/ ProviderReturns(w) \/ UploadImages(w) \/ PersistPreview(w) \/ PersistFinal(w)
  \/ RecheckCancelled(w) \/ MarkFailed(w) \/ Emit(w)
  \/ CommitReservation(w) \/ ReleaseReservation(w) \/ HandlerReturns(w)

WorkerFault(w) ==
  Crash(w) \/ LoseLease(w) \/ Requeue(w) \/ DbError(w) \/ EmitDropped(w)

Request(r) == EnqueueTask(r) \/ CleanupEnqueue(r)

RequestFault(r) == EnqueueFails(r) \/ CleanupFails(r) \/ ApiCrash(r)

Next ==
  \/ \E w \in Workers : Dequeue(w) \/ WorkerStep(w) \/ WorkerFault(w)
  \/ \E r \in Runs : Request(r) \/ RequestFault(r) \/ RecoverTask(r)
  \/ CancelJob
  \/ RetryJob

Spec == Init /\ [][Next]_vars

\* A running worker process takes its next step, a free one takes a pending
\* task, the recoverer runs periodically, a request goes on to its enqueue.
\* Nothing is assumed about admins, faults, or how a provider answers.
Fairness ==
  /\ \A w \in Workers : WF_vars(WorkerStep(w)) /\ WF_vars(Dequeue(w))
  /\ \A r \in Runs : WF_vars(Request(r)) /\ WF_vars(RecoverTask(r))

FairSpec == Spec /\ Fairness

-----------------------------------------------------------------------------
(* Safety. *)

Generating == {"route", "insert", "call", "upload", "persist"}

\* However many deliveries of however many runs overlap, one final asset is
\* inserted for the job, and exactly when the job is completed: the guarded
\* persist and the compare-and-set of MarkGenerationJobCompleted.
OneFinalAsset ==
  /\ job.delivered = (job.status = "completed")
  /\ finals = IF job.delivered THEN 1 ELSE 0

\* A reservation is charged only for the run that delivered, never for one
\* that was cancelled, failed or superseded by an admin retry
\* (commitReservation is bound to the snapshot's reservation).
ChargedOnlyIfDelivered ==
  \A r \in Runs : resv[r] = "committed" => job.run = r /\ job.status = "completed"

\* No loser of a race gives back the hold of the run that delivered: what is
\* said of finishCancelled and failJobOnFinalAttempt ("a stale loser could
\* release the winner's still-reserved success").
DeliveredNeverReleased ==
  job.status = "completed" => resv[job.run] \in {"reserved", "committed"}

\* At most one reservation of the reusable job id holds budget, and it is the
\* current run's: RetryJob finalizes the prior one under the same lock.
OneLiveHold ==
  \A r \in Runs : resv[r] = "reserved" => r = job.run

\* A terminal event is emitted at most once per run, by the delivery whose
\* write made it true, and is never contradicted: a run announced completed
\* is the delivered one, a run announced failed never delivers.
EventsTellTheTruth ==
  \A r \in Runs :
    /\ emitted[r]["completed"] + emitted[r]["failed"] <= 1
    /\ emitted[r]["completed"] > 0 => job.run = r /\ job.status = "completed"
    /\ emitted[r]["failed"] > 0 => job.run > r \/ job.status = "failed"

\* Two first deliveries of the same task never generate the same phase at
\* once: the claims turn a duplicate first delivery into a no-op, so only a
\* genuine retry can overlap a delivery that is still at work.
FirstDeliveriesExclusive ==
  \A v, w \in Workers :
    /\ pc[v] \in Generating /\ pc[w] \in Generating
    /\ Run(v) = Run(w) /\ loc[v].phase = loc[w].phase
    /\ dlv[v].retry = 0 /\ dlv[w].retry = 0
    => v = w

\* The lifetime call cap counts and inserts in two statements, so overlapping
\* deliveries can pass it together; it is exceeded by at most one call for
\* each other worker.
CallCapSlack == billed <= billableCallCap + Cardinality(Workers) - 1

\* A delivery of an older run publishes nothing: whatever new preview or final
\* appears comes from a delivery of the run the job is in.
OnlyCurrentRunPublishes ==
  [][finals' # finals \/ job'.preview # job.preview
       => \E w \in Workers : pc[w] = "persist" /\ Run(w) = job.run /\ pc'[w] # pc[w]]_vars

\* The job implements the promise of its status machine.
Lifecycle == INSTANCE JobLifecycle WITH
  status <- job.status, run <- job.run, hold <- resv[job.run],
  delivered <- job.delivered

\* Every step of workers, queue and admins is a step of the promised status
\* machine of the row, its hold and its output, or none.
ImplementsLifecycle == Lifecycle!Spec

-----------------------------------------------------------------------------
(* Liveness. *)

\* Unless faults intervene, a job ends up terminal for good with its hold
\* finalized, whatever the providers answer and whenever admins cancel or
\* retry it.
EventuallySettled ==
  <>[](job.status \in Terminal /\ resv[job.run] # "reserved")
=============================================================================
