------------------------ MODULE GenerationJob_proofs ------------------------
(***************************************************************************)
(* Proofs about module GenerationJob, for every number of workers, runs,   *)
(* attempts, routes and faults: types first, then the safety of a job: one *)
(* final asset, money that follows the output, truthful events, and the    *)
(* refinement of module JobLifecycle.                                      *)
(*                                                                         *)
(* None of these is inductive by itself.  What a worker does at the end of *)
(* its tail (commit, release, announce) rests on a compare-and-set that it *)
(* won several steps ago, so the inductive invariant says what each of     *)
(* these control states still knows about the row, whatever cancels,       *)
(* retries and other deliveries have done since.  Two further invariants   *)
(* bound the provider calls and separate the first deliveries of a task.   *)
(***************************************************************************)
EXTENDS GenerationJob, FiniteSetTheorems, Integers, TLAPS

-----------------------------------------------------------------------------
(* Type correctness. *)

\* The initial state is well typed.
LEMMA TypeInit == Init => TypeOK
BY ConstantsAssumption
   DEF Init, TypeOK, JobRow, Runs, Live, Terminal, Statuses, Events, Steps, Deliveries,
       Snapshots, Locals, NoDelivery, NoSnapshot, NoLocals

\* The control helpers land on steps of the handler and keep the locals typed.
LEMMA TypeGoto ==
  ASSUME TypeOK, NEW w \in Workers, NEW s \in Steps, Goto(w, s)
  PROVE  (pc \in [Workers -> Steps])'
BY DEF TypeOK, Goto

\* Entering the failure tail.
LEMMA TypeFailWith ==
  ASSUME TypeOK, NEW w \in Workers, NEW tail \in {"strict", "swallow", "error"},
         FailWith(w, tail)
  PROVE  (pc \in [Workers -> Steps] /\ loc \in [Workers -> Locals])'
BY DEF TypeOK, FailWith, Goto, Steps, Locals

\* A failed delivery fails the job on its last attempt, or returns its error.
LEMMA TypeGiveUp ==
  ASSUME TypeOK, NEW w \in Workers, GiveUp(w)
  PROVE  (pc \in [Workers -> Steps] /\ loc \in [Workers -> Locals])'
<1>1. CASE FinalAttempt(w)
  BY <1>1, TypeFailWith DEF GiveUp
<1>2. CASE ~FinalAttempt(w)
  BY <1>2, TypeGoto DEF GiveUp, TypeOK, Steps
<1> QED
  BY <1>1, <1>2

\* Beginning a phase resets the locals.
LEMMA TypeBeginPhase ==
  ASSUME TypeOK, NEW w \in Workers, NEW phase \in {"preview", "final"},
         BeginPhase(w, phase)
  PROVE  (pc \in [Workers -> Steps] /\ loc \in [Workers -> Locals])'
BY ConstantsAssumption DEF TypeOK, BeginPhase, Goto, Steps, Locals, NoLocals

\* A generation error ends in one of the two.
LEMMA TypeGenerationFailed ==
  ASSUME TypeOK, NEW w \in Workers, NEW err, GenerationFailed(w, err)
  PROVE  (pc \in [Workers -> Steps] /\ loc \in [Workers -> Locals])'
BY TypeFailWith, TypeGiveUp DEF GenerationFailed

\* The handler is gone.
LEMMA TypeForget ==
  ASSUME TypeOK, NEW w \in Workers, Forget(w)
  PROVE  (/\ pc \in [Workers -> Steps] /\ dlv \in [Workers -> Deliveries]
          /\ snap \in [Workers -> Snapshots] /\ loc \in [Workers -> Locals])'
BY ConstantsAssumption
   DEF TypeOK, Forget, Steps, Deliveries, Snapshots, Locals, NoDelivery, NoSnapshot,
       NoLocals, Runs, Statuses, Live, Terminal

TaskRow == [state : {"none", "pending", "active", "done", "archived"},
            retry : 0..(MaxAttempts - 1)]

\* A task that is delivered again or archived.
LEMMA TypeRetried ==
  ASSUME NEW t \in TaskRow
  PROVE  Retried(t) \in TaskRow
BY ConstantsAssumption DEF TaskRow, Retried

\* The count of faults stays in its bound.
LEMMA TypeFault ==
  ASSUME TypeOK, NEW kind, Fault(kind)
  PROVE  faults' \in 0..MaxFaults
BY ConstantsAssumption DEF TypeOK, Fault

\* Moving on to the next route of the chain.
LEMMA TypeNextRoute ==
  ASSUME NEW l \in Locals, l.route \in 1..NumRoutes
  PROVE  [l EXCEPT !.route = @ + 1] \in Locals
<1>1. l.route + 1 \in 1..(NumRoutes + 1)
  BY ConstantsAssumption
<1> QED
  BY <1>1 DEF Locals

\* A task is put in the queue.
LEMMA TypePending ==
  ASSUME TypeOK, NEW r \in Runs
  PROVE  [task EXCEPT ![r].state = "pending"] \in [Runs -> TaskRow]
BY DEF TypeOK, TaskRow

\* The holds after a finalization.
LEMMA TypeFinalized ==
  ASSUME TypeOK, NEW r \in Runs, NEW target \in {"committed", "released"}
  PROVE  Finalized(r, target)
           \in [Runs -> {"none", "reserved", "denied", "committed", "released"}]
BY DEF TypeOK, Finalized

\* A worker about to call a provider, or calling it, is on a route of the
\* chain: what keeps the route counter within its type.
OnARoute ==
  \A w \in Workers : pc[w] \in {"insert", "call"} => loc[w].route \in Registered

TypeInv == TypeOK /\ OnARoute

\* Whatever moves the control state of a worker is one of its own actions.
Idles(v) == /\ pc'[v] = pc[v] /\ loc'[v] = loc[v]
            /\ dlv'[v] = dlv[v] /\ snap'[v] = snap[v]

\* A step of one worker leaves the others where they are.
LEMMA OtherStep ==
  ASSUME TypeOK, NEW v \in Workers, NEW w \in Workers, v # w,
         Dequeue(w) \/ WorkerStep(w) \/ WorkerFault(w)
  PROVE  Idles(v)
<1> USE DEF TypeOK, Idles, Goto, FailWith, GiveUp, BeginPhase, GenerationFailed, Forget
<1>1. CASE Dequeue(w) \/ ReadJob(w) \/ ClaimQueuedJob(w)
  BY <1>1 DEF Dequeue, ReadJob, ClaimQueuedJob
<1>2. CASE Prepare(w) \/ ClaimPreviewFinalization(w)
  BY <1>2 DEF Prepare, ClaimPreviewFinalization
<1>3. CASE ChainExhausted(w) \/ SkipRoute(w) \/ CheckCallCap(w) \/ InsertProviderAttempt(w)
  BY <1>3 DEF ChainExhausted, SkipRoute, CheckCallCap, InsertProviderAttempt
<1>4. CASE ProviderReturns(w) \/ UploadImages(w)
  BY <1>4 DEF ProviderReturns, UploadImages
<1>5. CASE PersistPreview(w)
  BY <1>5 DEF PersistPreview
<1>6. CASE PersistFinal(w)
  BY <1>6 DEF PersistFinal
<1>7. CASE RecheckCancelled(w) \/ MarkFailed(w) \/ Emit(w)
  BY <1>7 DEF RecheckCancelled, MarkFailed, Emit
<1>8. CASE CommitReservation(w) \/ ReleaseReservation(w) \/ HandlerReturns(w)
  BY <1>8 DEF CommitReservation, ReleaseReservation, HandlerReturns
<1>9. CASE WorkerFault(w)
  BY <1>9 DEF WorkerFault, Crash, LoseLease, Requeue, DbError, EmitDropped
<1> QED
  BY <1>1, <1>2, <1>3, <1>4, <1>5, <1>6, <1>7, <1>8, <1>9 DEF WorkerStep

\* A worker moves only by its own actions, whatever the requests and the queue do.
LEMMA OwnStep ==
  ASSUME TypeOK, [Next]_vars, NEW v \in Workers
  PROVE  Idles(v) \/ Dequeue(v) \/ WorkerStep(v) \/ WorkerFault(v)
<1>1. ASSUME NEW w \in Workers, Dequeue(w) \/ WorkerStep(w) \/ WorkerFault(w), v # w
      PROVE  Idles(v)
  BY <1>1, OtherStep
<1>2. ASSUME NEW r \in Runs, Request(r) \/ RequestFault(r) \/ RecoverTask(r)
      PROVE  Idles(v)
  BY <1>2 DEF Request, RequestFault, RecoverTask, EnqueueTask, CleanupEnqueue, EnqueueFails,
              CleanupFails, ApiCrash, workVars, Idles
<1>3. CASE CancelJob \/ RetryJob \/ UNCHANGED vars
  BY <1>3 DEF CancelJob, RetryJob, vars, workVars, Idles
<1> QED
  BY <1>1, <1>2, <1>3 DEF Next

\* Only a registered route of the chain is ever called.
LEMMA RouteStep == TypeInv /\ [Next]_vars => OnARoute'
<1> SUFFICES ASSUME TypeOK, OnARoute, [Next]_vars, NEW v \in Workers,
                    pc'[v] \in {"insert", "call"}
             PROVE  loc'[v].route \in Registered
  BY DEF OnARoute, TypeInv
<1> USE DEF TypeOK
<1>1. CASE Idles(v)
  BY <1>1 DEF Idles, OnARoute
<1>2. CASE CheckCallCap(v)
  BY <1>2 DEF CheckCallCap, GenerationFailed, GiveUp, FailWith, Goto
<1>3. CASE InsertProviderAttempt(v)
  BY <1>3 DEF InsertProviderAttempt, Goto, OnARoute
<1>4. CASE ReadJob(v)
  BY <1>4 DEF ReadJob, FirstStep, Goto
<1>5. CASE Prepare(v) \/ ClaimPreviewFinalization(v)
  BY <1>5 DEF Prepare, ClaimPreviewFinalization, FailWith, BeginPhase, Goto
<1>6. CASE Dequeue(v) \/ ClaimQueuedJob(v) \/ RecheckCancelled(v) \/ HandlerReturns(v)
  BY <1>6 DEF Dequeue, ClaimQueuedJob, RecheckCancelled, HandlerReturns, Forget, Goto
<1>7. CASE ChainExhausted(v) \/ SkipRoute(v)
  BY <1>7 DEF ChainExhausted, SkipRoute, GenerationFailed, GiveUp, FailWith, Goto
<1>8. CASE ProviderReturns(v) \/ UploadImages(v)
  BY <1>8 DEF ProviderReturns, UploadImages, GiveUp, FailWith, Goto
<1>9. CASE PersistPreview(v)
  BY <1>9 DEF PersistPreview, GiveUp, FailWith, Goto
<1>10. CASE PersistFinal(v)
  BY <1>10 DEF PersistFinal, AfterPersist, GiveUp, FailWith, Goto
<1>11. CASE MarkFailed(v) \/ Emit(v)
  BY <1>11 DEF MarkFailed, TailError, Emit, AfterEmit, Goto
<1>12. CASE CommitReservation(v) \/ ReleaseReservation(v)
  BY <1>12 DEF CommitReservation, AfterCommit, ReleaseReservation, Goto
<1>13. CASE Crash(v) \/ EmitDropped(v) \/ DbError(v)
  BY <1>13 DEF Crash, EmitDropped, DbError, AfterEmit, TailError, Forget, GiveUp, FailWith, Goto
<1>14. CASE LoseLease(v) \/ Requeue(v)
  BY <1>14 DEF LoseLease, Requeue, OnARoute
<1> QED
  BY OwnStep, <1>1, <1>2, <1>3, <1>4, <1>5, <1>6, <1>7, <1>8, <1>9, <1>10, <1>11, <1>12,
     <1>13, <1>14 DEF WorkerStep, WorkerFault

\* One action after another.
LEMMA TypeStep == TypeInv /\ [Next]_vars => TypeOK'
<1> SUFFICES ASSUME TypeOK, OnARoute, [Next]_vars PROVE TypeOK'
  BY DEF TypeInv
<1> USE DEF jobVars, workVars
<1>a. ASSUME NEW w \in Workers, Dequeue(w) PROVE TypeOK'
  BY <1>a DEF Dequeue, Goto, TypeOK, Steps, Deliveries
<1>b. ASSUME NEW w \in Workers, ReadJob(w) PROVE TypeOK'
  <2>1. FirstStep(w) \in Steps
    BY DEF FirstStep, Steps
  <2> QED
    BY <1>b, <2>1 DEF ReadJob, Goto, TypeOK, JobRow, Snapshots
<1>c. ASSUME NEW w \in Workers, ClaimQueuedJob(w) PROVE TypeOK'
  BY <1>c DEF ClaimQueuedJob, MarkedRunning, Goto, TypeOK, JobRow, Steps, Statuses, Live
<1>d. ASSUME NEW w \in Workers, Prepare(w) PROVE TypeOK'
  <2>1. (pc \in [Workers -> Steps] /\ loc \in [Workers -> Locals])'
    <3>1. CASE FailWith(w, "strict")
      BY <3>1, TypeFailWith
    <3>2. CASE Goto(w, "claimFinal") /\ UNCHANGED loc
      BY <3>2, TypeGoto DEF TypeOK, Steps
    <3>3. CASE BeginPhase(w, IF PreviewFirst THEN "preview" ELSE "final")
      BY <3>3, TypeBeginPhase
    <3> QED
      BY <1>d, <3>1, <3>2, <3>3 DEF Prepare
  <2> QED
    BY <1>d, <2>1 DEF Prepare, TypeOK
<1>e. ASSUME NEW w \in Workers, ClaimPreviewFinalization(w) PROVE TypeOK'
  <2>1. (pc \in [Workers -> Steps] /\ loc \in [Workers -> Locals])'
    <3>1. CASE BeginPhase(w, "final")
      BY <3>1, TypeBeginPhase
    <3>2. CASE Goto(w, "ack") /\ UNCHANGED loc
      BY <3>2, TypeGoto DEF TypeOK, Steps
    <3> QED
      BY <1>e, <3>1, <3>2 DEF ClaimPreviewFinalization
  <2>2. job' \in JobRow
    BY <1>e DEF ClaimPreviewFinalization, FinalClaimed, TypeOK, JobRow, Statuses, Live
  <2> QED
    BY <1>e, <2>1, <2>2 DEF ClaimPreviewFinalization, TypeOK
<1>f. ASSUME NEW w \in Workers, ChainExhausted(w) PROVE TypeOK'
  BY <1>f, TypeGenerationFailed DEF ChainExhausted, TypeOK
<1>g. ASSUME NEW w \in Workers, SkipRoute(w) PROVE TypeOK'
  <2>1. [loc[w] EXCEPT !.route = @ + 1] \in Locals
    BY <1>g, TypeNextRoute DEF SkipRoute, TypeOK
  <2>2. loc' \in [Workers -> Locals]
    BY <1>g, <2>1 DEF SkipRoute, TypeOK
  <2> QED
    BY <1>g, <2>2 DEF SkipRoute, TypeOK
<1>h. ASSUME NEW w \in Workers, CheckCallCap(w) PROVE TypeOK'
  <2>1. (pc \in [Workers -> Steps] /\ loc \in [Workers -> Locals])'
    <3>1. CASE Goto(w, "insert") /\ UNCHANGED loc
      BY <3>1, TypeGoto DEF TypeOK, Steps
    <3>2. CASE FailWith(w, "swallow")
      BY <3>2, TypeFailWith
    <3>3. CASE GenerationFailed(w, loc[w].lastErr)
      BY <3>3, TypeGenerationFailed
    <3> QED
      BY <1>h, <3>1, <3>2, <3>3 DEF CheckCallCap
  <2> QED
    BY <1>h, <2>1 DEF CheckCallCap, TypeOK
<1>i. ASSUME NEW w \in Workers, InsertProviderAttempt(w) PROVE TypeOK'
  BY <1>i DEF InsertProviderAttempt, Goto, TypeOK, Steps
<1>j. ASSUME NEW w \in Workers, ProviderReturns(w) PROVE TypeOK'
  <2>1. (pc \in [Workers -> Steps] /\ loc \in [Workers -> Locals])'
    <3>1. CASE Goto(w, "upload") /\ UNCHANGED loc
      BY <3>1, TypeGoto DEF TypeOK, Steps
    <3>2. CASE FailWith(w, "swallow")
      BY <3>2, TypeFailWith
    <3>3. ASSUME NEW err \in {"transient", "unpaid"}, Goto(w, "route"),
                 loc[w].route \in 1..NumRoutes,
                 loc' = [loc EXCEPT ![w].route = @ + 1, ![w].lastErr = err]
          PROVE  (pc \in [Workers -> Steps] /\ loc \in [Workers -> Locals])'
      <4>1. pc' \in [Workers -> Steps]
        BY <3>3, TypeGoto DEF Steps
      <4>2. [loc[w] EXCEPT !.route = @ + 1] \in Locals
        BY <3>3, TypeNextRoute DEF TypeOK
      <4>3. [loc[w] EXCEPT !.route = @ + 1, !.lastErr = err] \in Locals
        BY <3>3, <4>2 DEF Locals
      <4> QED
        BY <3>3, <4>1, <4>3 DEF TypeOK
    <3>4. loc[w].route \in 1..NumRoutes
      BY <1>j, ConstantsAssumption DEF ProviderReturns, OnARoute
    <3> QED
      BY <1>j, <3>1, <3>2, <3>3, <3>4 DEF ProviderReturns
  <2> QED
    BY <1>j, <2>1 DEF ProviderReturns, TypeOK
<1>k. ASSUME NEW w \in Workers, UploadImages(w) PROVE TypeOK'
  <2>1. (pc \in [Workers -> Steps] /\ loc \in [Workers -> Locals])'
    <3>1. CASE Goto(w, "persist") /\ UNCHANGED loc
      BY <3>1, TypeGoto DEF TypeOK, Steps
    <3>2. CASE FailWith(w, "strict")
      BY <3>2, TypeFailWith
    <3>3. CASE GiveUp(w)
      BY <3>3, TypeGiveUp
    <3> QED
      BY <1>k, <3>1, <3>2, <3>3 DEF UploadImages
  <2> QED
    BY <1>k, <2>1 DEF UploadImages, TypeOK
<1>l. ASSUME NEW w \in Workers, PersistPreview(w) PROVE TypeOK'
  <2>1. (pc \in [Workers -> Steps] /\ loc \in [Workers -> Locals])'
    <3>1. CASE GiveUp(w)
      BY <3>1, TypeGiveUp
    <3>2. CASE /\ UNCHANGED loc
               /\ \E s \in {"emitPreview", "recheck", "claimFinal", "ack"} : Goto(w, s)
      BY <3>2, TypeGoto DEF TypeOK, Steps
    <3> QED
      BY <1>l, <3>1, <3>2 DEF PersistPreview
  <2>2. job' \in JobRow
    <3>1. CASE UNCHANGED job
      BY <3>1 DEF TypeOK
    <3>2. CASE job' = [job EXCEPT !.status = "preview_ready", !.preview = Run(w)]
      <4>1. Run(w) \in 0..MaxRuns
        BY ConstantsAssumption DEF TypeOK, Deliveries, Runs, Run
      <4> QED
        BY <3>2, <4>1 DEF TypeOK, JobRow, Statuses, Live
    <3> QED
      BY <1>l, <3>1, <3>2 DEF PersistPreview
  <2> QED
    BY <1>l, <2>1, <2>2 DEF PersistPreview, TypeOK
<1>m. ASSUME NEW w \in Workers, PersistFinal(w) PROVE TypeOK'
  <2>1. (pc \in [Workers -> Steps] /\ loc \in [Workers -> Locals])'
    <3>1. CASE GiveUp(w)
      BY <3>1, TypeGiveUp
    <3>2. CASE /\ UNCHANGED loc
               /\ \E s \in {"commit", "emitCompleted", "recheck", "ack"} : Goto(w, s)
      BY <3>2, TypeGoto DEF TypeOK, Steps
    <3> QED
      BY <1>m, <3>1, <3>2 DEF PersistFinal, AfterPersist
  <2>2. job' \in JobRow /\ finals' \in Nat
    <3>1. CASE UNCHANGED <<job, finals>>
      BY <3>1 DEF TypeOK
    <3>2. CASE /\ job' = [job EXCEPT !.status = "completed", !.delivered = TRUE]
               /\ finals' = finals + 1
      <4>1. finals' \in Nat
        BY <3>2 DEF TypeOK
      <4>2. job' \in JobRow
        BY <3>2 DEF TypeOK, JobRow, Statuses, Terminal
      <4> QED
        BY <4>1, <4>2
    <3> QED
      BY <1>m, <3>1, <3>2 DEF PersistFinal
  <2> QED
    BY <1>m, <2>1, <2>2 DEF PersistFinal, TypeOK
<1>n. ASSUME NEW w \in Workers, RecheckCancelled(w) PROVE TypeOK'
  BY <1>n DEF RecheckCancelled, Goto, TypeOK, Steps
<1>o. ASSUME NEW w \in Workers, MarkFailed(w) PROVE TypeOK'
  BY <1>o DEF MarkFailed, TailError, Goto, TypeOK, Steps, JobRow, Statuses, Terminal
<1>p. ASSUME NEW w \in Workers, Emit(w) PROVE TypeOK'
  <2>1. AfterEmit(w) \in Steps /\ EventOf(pc[w]) \in Events
    BY <1>p DEF Emit, AfterEmit, EventOf, Steps, Events
  <2>2. emitted' \in [Runs -> [Events -> Nat]]
    BY <1>p, <2>1 DEF Emit, TypeOK, Deliveries, Run
  <2> QED
    BY <1>p, <2>1, <2>2, TypeGoto DEF Emit, TypeOK
<1>q. ASSUME NEW w \in Workers, CommitReservation(w) PROVE TypeOK'
  BY <1>q, TypeFinalized DEF CommitReservation, AfterCommit, Goto, TypeOK, Steps, Run, Deliveries
<1>r. ASSUME NEW w \in Workers, ReleaseReservation(w) PROVE TypeOK'
  BY <1>r, TypeFinalized DEF ReleaseReservation, Goto, TypeOK, Steps, Run, Deliveries
<1>s. ASSUME NEW w \in Workers, HandlerReturns(w) PROVE TypeOK'
  <2>1. task' \in [Runs -> TaskRow]
    BY <1>s, TypeRetried DEF HandlerReturns, TypeOK, TaskRow
  <2> QED
    BY <1>s, <2>1, TypeForget DEF HandlerReturns, TypeOK, TaskRow
<1>t. ASSUME NEW w \in Workers, WorkerFault(w) PROVE TypeOK'
  <2>1. faults' \in 0..MaxFaults
    BY <1>t, TypeFault
       DEF WorkerFault, Crash, LoseLease, Requeue, DbError, EmitDropped
  <2>2. CASE Crash(w)
    BY <2>1, <2>2, TypeForget DEF Crash, TypeOK
  <2>3. CASE LoseLease(w)
    BY <2>1, <2>3 DEF LoseLease, TypeOK, Deliveries
  <2>4. CASE Requeue(w)
    <3>1. task' \in [Runs -> TaskRow]
      BY <2>4, TypePending DEF Requeue, TypeOK, Deliveries, Run
    <3>2. dlv' \in [Workers -> Deliveries]
      BY <2>4 DEF Requeue, TypeOK, Deliveries
    <3> QED
      BY <2>1, <2>4, <3>1, <3>2 DEF Requeue, TypeOK, TaskRow
  <2>5. CASE DbError(w)
    <3>1. (pc \in [Workers -> Steps] /\ loc \in [Workers -> Locals])'
      <4>1. CASE GiveUp(w)
        BY <4>1, TypeGiveUp
      <4>2. CASE /\ UNCHANGED loc
                 /\ \E s \in {"ack", "nack"} : Goto(w, s)
        BY <4>2, TypeGoto DEF TypeOK, Steps
      <4> QED
        BY <2>5, <4>1, <4>2 DEF DbError, TailError
    <3> QED
      BY <2>1, <2>5, <3>1 DEF DbError, TypeOK
  <2>6. CASE EmitDropped(w)
    <3>1. AfterEmit(w) \in Steps
      BY <2>6 DEF EmitDropped, AfterEmit, Steps
    <3> QED
      BY <2>1, <2>6, <3>1, TypeGoto DEF EmitDropped, TypeOK
  <2> QED
    BY <1>t, <2>2, <2>3, <2>4, <2>5, <2>6 DEF WorkerFault
<1>u. ASSUME NEW r \in Runs, Request(r) \/ RequestFault(r) \/ RecoverTask(r) PROVE TypeOK'
  <2>1. CASE EnqueueTask(r)
    BY <2>1 DEF EnqueueTask, TypeOK
  <2>2. CASE CleanupEnqueue(r)
    <3>1. resv' \in [Runs -> {"none", "reserved", "denied", "committed", "released"}]
      BY <2>2, TypeFinalized DEF CleanupEnqueue, TypeOK
    <3>2. job' \in JobRow
      BY <2>2 DEF CleanupEnqueue, TypeOK, JobRow, Statuses, Terminal
    <3> QED
      BY <2>2, <3>1, <3>2 DEF CleanupEnqueue, TypeOK
  <2>3. CASE EnqueueFails(r)
    <3>1. task' \in [Runs -> TaskRow]
      <4>1. CASE task' = task
        BY <4>1 DEF TypeOK, TaskRow
      <4>2. CASE task' = [task EXCEPT ![r].state = "pending"]
        BY <4>2, TypePending
      <4> QED
        BY <2>3, <4>1, <4>2 DEF EnqueueFails
    <3>2. faults' \in 0..MaxFaults
      BY <2>3, TypeFault DEF EnqueueFails
    <3> QED
      BY <2>3, <3>1, <3>2 DEF EnqueueFails, TypeOK, TaskRow
  <2>4. CASE CleanupFails(r) \/ ApiCrash(r)
    <3>1. faults' \in 0..MaxFaults
      BY <2>4, TypeFault DEF CleanupFails, ApiCrash
    <3> QED
      BY <2>4, <3>1 DEF CleanupFails, ApiCrash, TypeOK
  <2>5. CASE RecoverTask(r)
    <3>1. task' \in [Runs -> TaskRow]
      BY <2>5, TypeRetried DEF RecoverTask, TypeOK, TaskRow
    <3> QED
      BY <2>5, <3>1 DEF RecoverTask, TypeOK, TaskRow
  <2> QED
    BY <1>u, <2>1, <2>2, <2>3, <2>4, <2>5 DEF Request, RequestFault
<1>v. CASE CancelJob
  <2>1. job.run \in Runs
    BY DEF TypeOK, JobRow
  <2> QED
    BY <1>v, <2>1, TypeFinalized DEF CancelJob, TypeOK, JobRow, Statuses, Terminal
<1>w. CASE RetryJob
  <2>1. job.run \in Runs /\ job.run + 1 \in Runs
    BY <1>w, ConstantsAssumption DEF RetryJob, TypeOK, JobRow, Runs
  <2>2. resv' \in [Runs -> {"none", "reserved", "denied", "committed", "released"}]
    BY <1>w, <2>1, TypeFinalized DEF RetryJob, RetryHolds
  <2> QED
    BY <1>w, <2>1, <2>2 DEF RetryJob, TypeOK, JobRow, Statuses, Live
<1>x. CASE UNCHANGED vars
  BY <1>x DEF vars, TypeOK
<1> QED
  BY <1>a, <1>b, <1>c, <1>d, <1>e, <1>f, <1>g, <1>h, <1>i, <1>j, <1>k, <1>l, <1>m, <1>n,
     <1>o, <1>p, <1>q, <1>r, <1>s, <1>t, <1>u, <1>v, <1>w, <1>x
     DEF Next, WorkerStep

\* Every state of every behaviour is well typed: rows, tasks, control states
\* and counters keep their types whatever workers, queue and admins do.
THEOREM TypeCorrect == Spec => []TypeOK
<1>1. Init => TypeInv
  BY TypeInit DEF TypeInv, OnARoute, Init
<1>2. TypeInv /\ [Next]_vars => TypeInv'
  BY TypeStep, RouteStep DEF TypeInv
<1>3. TypeInv => TypeOK
  BY DEF TypeInv
<1> QED
  BY <1>1, <1>2, <1>3, PTL DEF Spec

-----------------------------------------------------------------------------
(* Safety. *)

\* Runs that admin retry has not opened yet have left no trace.
FutureRunsUntouched ==
  \A r \in Runs : r > job.run =>
    /\ resv[r] = "none"
    /\ task[r].state = "none"
    /\ api[r] = "none"
    /\ emitted[r]["completed"] = 0
    /\ emitted[r]["failed"] = 0

\* No delivery is ahead of the row.
DeliveriesNotAhead == \A w \in Workers : Run(w) <= job.run

\* The hold follows the status: older runs hold and are charged nothing, a
\* live run holds, a delivered one holds or is charged.
HoldsFollowStatus ==
  /\ \A r \in Runs : r < job.run => resv[r] \notin {"reserved", "committed"}
  /\ job.status \in Live => resv[job.run] = "reserved"
  /\ job.status = "completed" => resv[job.run] \in {"reserved", "committed"}
  /\ job.status # "completed" => resv[job.run] # "committed"

\* What the tail of a handler still knows about the row.
TailKnows(w) ==
  /\ pc[w] = "release" => Run(w) < job.run \/ job.status \in {"failed", "cancelled"}
  /\ pc[w] \in {"commit", "emitCompleted"} => Run(w) = job.run /\ job.status = "completed"
  /\ pc[w] = "emitFailed" => Run(w) < job.run \/ job.status = "failed"

TailsKnow == \A w \in Workers : TailKnows(w)

\* The worker owes the terminal event of its run.
Owes(w) ==
  \/ pc[w] \in {"emitCompleted", "emitFailed"}
  \/ pc[w] = "commit" /\ PreviewFirst /\ snap[w].status # "completed"

\* One worker at a time owes the terminal event of a run, and only while none
\* was emitted.
OneAnnouncer ==
  /\ \A w \in Workers : Owes(w) => /\ emitted[Run(w)]["completed"] = 0
                                   /\ emitted[Run(w)]["failed"] = 0
  /\ \A v, w \in Workers : Owes(v) /\ Owes(w) /\ Run(v) = Run(w) => v = w

\* The inductive invariant.
SafetyInv ==
  /\ OneFinalAsset
  /\ FutureRunsUntouched
  /\ DeliveriesNotAhead
  /\ HoldsFollowStatus
  /\ TailsKnow
  /\ OneAnnouncer
  /\ EventsTellTheTruth

-----------------------------------------------------------------------------
Tail == {"commit", "release", "emitCompleted", "emitFailed"}

\* A queued first run with its hold: nothing published, charged or announced.
LEMMA SafetyInit == Init => SafetyInv
<1> SUFFICES ASSUME Init PROVE SafetyInv
  OBVIOUS
<1> USE ConstantsAssumption DEF Init, Runs
<1>1. OneFinalAsset
  <2>1. job.delivered = FALSE /\ job.status # "completed" /\ finals = 0
    OBVIOUS
  <2> QED
    BY <2>1 DEF OneFinalAsset
<1>2. FutureRunsUntouched
  BY DEF FutureRunsUntouched, Events
<1>3. DeliveriesNotAhead
  BY DEF DeliveriesNotAhead, Run, NoDelivery
<1>4. HoldsFollowStatus
  BY DEF HoldsFollowStatus, Live
<1>5. TailsKnow /\ OneAnnouncer
  BY DEF TailsKnow, TailKnows, OneAnnouncer, Owes
<1>6. EventsTellTheTruth
  BY DEF EventsTellTheTruth, Events
<1> QED
  BY <1>1, <1>2, <1>3, <1>4, <1>5, <1>6 DEF SafetyInv

\* The path of a job is fixed when it is created.
LEMMA SamePathField ==
  ASSUME job'.previewFirst = job.previewFirst PROVE PreviewFirst' = PreviewFirst
BY DEF PreviewFirst

\* ... and does not change while the row stays as it is.
LEMMA SamePath ==
  ASSUME job' = job PROVE PreviewFirst' = PreviewFirst
BY DEF PreviewFirst

\* A step that leaves the row, the holds and the events alone and enters no
\* tail keeps the invariant.
LEMMA HarmlessStep ==
  ASSUME SafetyInv, TypeOK, TypeOK', NEW w \in Workers,
         UNCHANGED <<job, finals, resv, emitted, api>>,
         \A r \in Runs : r > job.run /\ task[r].state = "none" => task'[r].state = "none",
         \A v \in Workers \ {w} : Idles(v),
         Run(w)' <= job.run,
         pc'[w] \notin Tail
  PROVE  SafetyInv'
<1> USE DEF SafetyInv
<1>1. OneFinalAsset'
  BY DEF OneFinalAsset
<1>2. FutureRunsUntouched'
  BY DEF FutureRunsUntouched
<1>3. DeliveriesNotAhead'
  BY DEF DeliveriesNotAhead, Idles, Run
<1>4. HoldsFollowStatus'
  BY DEF HoldsFollowStatus
<1>5. TailsKnow'
  BY DEF TailsKnow, TailKnows, Idles, Run, Tail
<1>6. OneAnnouncer'
  BY SamePath DEF OneAnnouncer, Owes, Idles, Run, Tail
<1>7. EventsTellTheTruth'
  BY DEF EventsTellTheTruth
<1> QED
  BY <1>1, <1>2, <1>3, <1>4, <1>5, <1>6, <1>7

\* The row moves between live statuses of the same run.
LEMMA LiveStep ==
  ASSUME SafetyInv, TypeOK, TypeOK', NEW w \in Workers,
         job.status \in Live, job'.status \in Live,
         job'.run = job.run, job'.delivered = job.delivered,
         job'.previewFirst = job.previewFirst,
         UNCHANGED <<finals, resv, emitted, api, task, dlv>>,
         \A v \in Workers \ {w} : Idles(v),
         pc'[w] \notin Tail
  PROVE  SafetyInv'
<1> USE DEF SafetyInv
<1>1. OneFinalAsset'
  BY DEF OneFinalAsset, Live
<1>2. FutureRunsUntouched'
  BY DEF FutureRunsUntouched
<1>3. DeliveriesNotAhead'
  BY DEF DeliveriesNotAhead, Run
<1>4. HoldsFollowStatus'
  BY DEF HoldsFollowStatus, Live
<1>5. TailsKnow'
  BY DEF TailsKnow, TailKnows, Idles, Run, Tail, Live
<1>6. OneAnnouncer'
  BY SamePathField DEF OneAnnouncer, Owes, Idles, Run, Tail
<1>7. EventsTellTheTruth'
  BY DEF EventsTellTheTruth, Live
<1> QED
  BY <1>1, <1>2, <1>3, <1>4, <1>5, <1>6, <1>7

\* Finalizing a hold that is not there changes nothing.
LEMMA FinalizedAgain ==
  ASSUME TypeOK, NEW r \in Runs, NEW target, resv[r] # "reserved"
  PROVE  Finalized(r, target) = resv
BY DEF TypeOK, Finalized

\* Finalizing moves a reserved hold of its own run, and nothing else.
LEMMA FinalizedOnce ==
  ASSUME TypeOK, NEW r \in Runs, NEW target
  PROVE  /\ \A q \in Runs \ {r} : Finalized(r, target)[q] = resv[q]
         /\ Finalized(r, target)[r] = IF resv[r] = "reserved" THEN target ELSE resv[r]
BY DEF TypeOK, Finalized

\* Runs are numbers, and the row and every delivery name one.
LEMMA RunTypes ==
  ASSUME TypeOK
  PROVE  /\ job.run \in Runs
         /\ \A w \in Workers : Run(w) \in Runs
         /\ \A r \in Runs : r \in Nat
BY ConstantsAssumption DEF TypeOK, JobRow, Deliveries, Run, Runs

\* A charge is of the current run, which delivered.
LEMMA CommitStep ==
  ASSUME SafetyInv, TypeOK, TypeOK', NEW w \in Workers, CommitReservation(w)
  PROVE  SafetyInv'
<1> USE DEF SafetyInv
<1>0. /\ job' = job /\ finals' = finals /\ emitted' = emitted /\ api' = api
      /\ task' = task /\ dlv' = dlv /\ snap' = snap
      /\ resv' = Finalized(Run(w), "committed")
      /\ pc' = [pc EXCEPT ![w] = AfterCommit(w)]
  BY DEF CommitReservation, Goto
<1>1. OneFinalAsset'
  BY <1>0 DEF OneFinalAsset
<1>2. Run(w) = job.run /\ job.status = "completed"
  BY DEF TailsKnow, TailKnows, CommitReservation
<1>3. FutureRunsUntouched'
  BY <1>0, <1>2, FinalizedOnce, RunTypes DEF FutureRunsUntouched
<1>4. DeliveriesNotAhead'
  BY <1>0 DEF DeliveriesNotAhead, Run
<1>5. HoldsFollowStatus'
  BY <1>0, <1>2, FinalizedOnce, RunTypes DEF HoldsFollowStatus, Live
<1>6. TailsKnow'
  BY <1>0, <1>2 DEF TailsKnow, TailKnows, Run, AfterCommit, TypeOK
<1>7. OneAnnouncer'
  BY <1>0, SamePath, <1>2 DEF OneAnnouncer, Owes, Run, AfterCommit, TypeOK, CommitReservation
<1>8. EventsTellTheTruth'
  BY <1>0 DEF EventsTellTheTruth
<1> QED
  BY <1>1, <1>3, <1>4, <1>5, <1>6, <1>7, <1>8

\* A refund is of a run that is over without an output.
LEMMA ReleaseStep ==
  ASSUME SafetyInv, TypeOK, TypeOK', NEW w \in Workers, ReleaseReservation(w)
  PROVE  SafetyInv'
<1> USE DEF SafetyInv
<1>0. /\ job' = job /\ finals' = finals /\ emitted' = emitted /\ api' = api
      /\ task' = task /\ dlv' = dlv /\ snap' = snap
      /\ resv' = Finalized(Run(w), "released")
      /\ \E s \in {"ack", "nack"} : pc' = [pc EXCEPT ![w] = s]
  BY DEF ReleaseReservation, Goto
<1>1. OneFinalAsset'
  BY <1>0 DEF OneFinalAsset
<1>2. \/ Run(w) < job.run
      \/ Run(w) = job.run /\ job.status \in {"failed", "cancelled"}
  BY RunTypes DEF TailsKnow, TailKnows, ReleaseReservation, DeliveriesNotAhead
<1>3. FutureRunsUntouched'
  BY <1>0, <1>2, FinalizedOnce, RunTypes DEF FutureRunsUntouched
<1>4. DeliveriesNotAhead'
  BY <1>0 DEF DeliveriesNotAhead, Run
<1>5. HoldsFollowStatus'
  BY <1>0, <1>2, FinalizedOnce, RunTypes DEF HoldsFollowStatus, Live
<1>6. TailsKnow'
  BY <1>0 DEF TailsKnow, TailKnows, Run, TypeOK
<1>7. OneAnnouncer'
  BY <1>0, SamePath DEF OneAnnouncer, Owes, Run, TypeOK
<1>8. EventsTellTheTruth'
  BY <1>0 DEF EventsTellTheTruth
<1> QED
  BY <1>1, <1>3, <1>4, <1>5, <1>6, <1>7, <1>8

\* The compare-and-set of the failure tail, when it is won.
LEMMA FailStep ==
  ASSUME SafetyInv, TypeOK, TypeOK', NEW w \in Workers, MarkFailed(w),
         CanMarkFailed(Run(w))
  PROVE  SafetyInv'
<1> USE DEF SafetyInv
<1>0. /\ finals' = finals /\ resv' = resv /\ emitted' = emitted /\ api' = api
      /\ task' = task /\ dlv' = dlv /\ snap' = snap
      /\ job'.status = "failed" /\ job'.run = job.run /\ job'.delivered = job.delivered
      /\ job'.previewFirst = job.previewFirst
      /\ job.run = Run(w) /\ job.status \in Live
      /\ pc' = [pc EXCEPT ![w] = "emitFailed"]
  BY DEF MarkFailed, CanMarkFailed, Goto, TypeOK, JobRow
<1>1. OneFinalAsset'
  BY <1>0 DEF OneFinalAsset, Live
<1>2. FutureRunsUntouched'
  BY <1>0 DEF FutureRunsUntouched
<1>3. DeliveriesNotAhead'
  BY <1>0 DEF DeliveriesNotAhead, Run
<1>4. HoldsFollowStatus'
  BY <1>0 DEF HoldsFollowStatus, Live
<1>5. TailsKnow'
  BY <1>0 DEF TailsKnow, TailKnows, Run, TypeOK, Live
<1>6. \A v \in Workers : Owes(v) => Run(v) # job.run
  BY <1>0, RunTypes DEF Owes, TailsKnow, TailKnows, Live
<1>7. emitted[job.run]["completed"] = 0 /\ emitted[job.run]["failed"] = 0
  <2>1. emitted[job.run]["completed"] \in Nat /\ emitted[job.run]["failed"] \in Nat
    BY RunTypes DEF TypeOK, Events
  <2> QED
    BY <1>0, <2>1, RunTypes DEF EventsTellTheTruth, Live
<1>8. OneAnnouncer'
  BY <1>0, SamePathField, <1>6, <1>7 DEF OneAnnouncer, Owes, Run, TypeOK
<1>9. EventsTellTheTruth'
  BY <1>0 DEF EventsTellTheTruth, Live
<1> QED
  BY <1>1, <1>2, <1>3, <1>4, <1>5, <1>8, <1>9

\* Under the row lock, only an active row of the delivery's own run persists.
LEMMA PersistedOutcome ==
  ASSUME TypeOK, NEW r, NEW phase, PersistOutcome(r, phase) = "Persisted"
  PROVE  job.run = r /\ job.status \in {"running", "preview_ready"}
<1>1. job.run = r
  BY DEF PersistOutcome
<1>2. job.status \in {"queued", "running", "preview_ready", "completed", "failed", "cancelled"}
  BY DEF TypeOK, JobRow, Statuses, Live, Terminal
<1>3. job.status # "cancelled" /\ job.status # "completed"
  BY <1>1 DEF PersistOutcome
<1>4. job.status # "failed" /\ job.status # "queued"
  BY <1>1 DEF PersistOutcome
<1> QED
  BY <1>1, <1>2, <1>3, <1>4

\* The guarded persist of the final asset, when it persists.
LEMMA CompleteStep ==
  ASSUME SafetyInv, TypeOK, TypeOK', NEW w \in Workers, PersistFinal(w),
         PersistOutcome(Run(w), "final") = "Persisted"
  PROVE  SafetyInv'
<1> USE DEF SafetyInv
<1>b. job' = [job EXCEPT !.status = "completed", !.delivered = TRUE]
  BY DEF PersistFinal
<1>c. /\ job'.status = "completed" /\ job'.run = job.run /\ job'.delivered = TRUE
      /\ job'.previewFirst = job.previewFirst
  BY <1>b DEF TypeOK, JobRow
<1>d. /\ resv' = resv /\ emitted' = emitted /\ api' = api
      /\ task' = task /\ dlv' = dlv /\ snap' = snap /\ finals' = finals + 1
      /\ pc' = [pc EXCEPT ![w] = AfterPersist]
  BY DEF PersistFinal, Goto
<1>0. /\ resv' = resv /\ emitted' = emitted /\ api' = api
      /\ task' = task /\ dlv' = dlv /\ snap' = snap /\ finals' = finals + 1
      /\ job'.status = "completed" /\ job'.run = job.run /\ job'.delivered = TRUE
      /\ job'.previewFirst = job.previewFirst
      /\ pc' = [pc EXCEPT ![w] = AfterPersist]
  BY <1>c, <1>d
<1>a. job.run = Run(w) /\ job.status \in {"running", "preview_ready"}
  BY PersistedOutcome
<1>1. OneFinalAsset'
  <2>1. finals = 0
    BY <1>a DEF OneFinalAsset
  <2>2. job'.delivered = (job'.status = "completed")
    BY <1>0, Zenon
  <2>3. finals' = 1
    BY <1>0, <2>1
  <2> QED
    BY <1>0, <2>2, <2>3 DEF OneFinalAsset
<1>2. FutureRunsUntouched'
  BY <1>0 DEF FutureRunsUntouched
<1>3. DeliveriesNotAhead'
  BY <1>0 DEF DeliveriesNotAhead, Run
<1>4. HoldsFollowStatus'
  BY <1>0, <1>a DEF HoldsFollowStatus, Live
<1>5. TailsKnow'
  BY <1>0, <1>a DEF TailsKnow, TailKnows, Run, TypeOK, AfterPersist
<1>6. \A v \in Workers : Owes(v) => Run(v) # job.run
  BY <1>a, RunTypes DEF Owes, TailsKnow, TailKnows
<1>7. emitted[job.run]["completed"] = 0 /\ emitted[job.run]["failed"] = 0
  <2>1. emitted[job.run]["completed"] \in Nat /\ emitted[job.run]["failed"] \in Nat
    BY RunTypes DEF TypeOK, Events
  <2> QED
    BY <1>a, <2>1, RunTypes DEF EventsTellTheTruth
<1>8. OneAnnouncer'
  BY <1>0, SamePathField, <1>a, <1>6, <1>7 DEF OneAnnouncer, Owes, Run, TypeOK, AfterPersist
<1>9. EventsTellTheTruth'
  BY <1>0, <1>a, RunTypes DEF EventsTellTheTruth
<1> QED
  BY <1>1, <1>2, <1>3, <1>4, <1>5, <1>8, <1>9

\* An event is emitted, or dropped.
LEMMA EmitStep ==
  ASSUME SafetyInv, TypeOK, TypeOK', NEW w \in Workers, Emit(w) \/ EmitDropped(w)
  PROVE  SafetyInv'
<1> USE DEF SafetyInv
<1>0. /\ job' = job /\ finals' = finals /\ resv' = resv /\ api' = api
      /\ task' = task /\ dlv' = dlv /\ snap' = snap
      /\ pc[w] \in {"emitPreview", "emitFailed", "emitCompleted"}
      /\ pc' = [pc EXCEPT ![w] = AfterEmit(w)]
  BY DEF Emit, EmitDropped, Goto, jobVars
<1>a. Run(w) \in Runs /\ EventOf(pc[w]) \in Events
  BY <1>0, RunTypes DEF EventOf, Events
<1>b. emitted' = emitted \/ emitted' = [emitted EXCEPT ![Run(w)][EventOf(pc[w])] = @ + 1]
  BY DEF Emit, EmitDropped
<1>c. \A r \in Runs, ev \in Events :
        \/ emitted'[r][ev] = emitted[r][ev]
        \/ r = Run(w) /\ ev = EventOf(pc[w]) /\ emitted'[r][ev] = emitted[r][ev] + 1
  BY <1>a, <1>b DEF TypeOK
<1>d. /\ pc[w] = "emitPreview" => EventOf(pc[w]) = "preview_ready"
      /\ pc[w] = "emitFailed" => EventOf(pc[w]) = "failed"
      /\ pc[w] = "emitCompleted" => EventOf(pc[w]) = "completed"
  BY DEF EventOf
<1>e. \A r \in Runs, ev \in Events : emitted[r][ev] \in Nat
  BY DEF TypeOK
<1>f. /\ pc[w] = "emitPreview" => AfterEmit(w) = "claimFinal"
      /\ pc[w] = "emitFailed" => AfterEmit(w) = "release"
      /\ pc[w] = "emitCompleted" => AfterEmit(w) = IF PreviewFirst THEN "ack" ELSE "commit"
  BY DEF AfterEmit
<1>1. OneFinalAsset'
  BY <1>0 DEF OneFinalAsset
<1>2. FutureRunsUntouched'
  BY <1>0, <1>c, RunTypes DEF FutureRunsUntouched, Events, DeliveriesNotAhead
<1>3. DeliveriesNotAhead'
  BY <1>0 DEF DeliveriesNotAhead, Run
<1>4. HoldsFollowStatus'
  BY <1>0 DEF HoldsFollowStatus
<1>5. TailsKnow'
  BY <1>0, SamePath, <1>f DEF TailsKnow, TailKnows, Run, TypeOK
<1>6. OneAnnouncer'
  <2>1. \A v \in Workers : Owes(v)' => Owes(v) /\ (v = w => pc[w] = "emitPreview")
    BY <1>0, SamePath, <1>f DEF Owes, TypeOK
  <2>2. \A v \in Workers : Owes(v)' => \/ Run(v) # Run(w)
                                       \/ pc[w] = "emitPreview"
    BY <1>0, SamePath, <2>1 DEF OneAnnouncer, Owes
  <2>3. \A v \in Workers : Owes(v)' => /\ emitted'[Run(v)]["completed"] = emitted[Run(v)]["completed"]
                                       /\ emitted'[Run(v)]["failed"] = emitted[Run(v)]["failed"]
    BY <2>2, <1>c, <1>d, RunTypes DEF Events
  <2> QED
    BY <1>0, <2>1, <2>3 DEF OneAnnouncer, Run
<1>7. EventsTellTheTruth'
  BY <1>0, SamePath, <1>c, <1>d, <1>e, RunTypes
     DEF EventsTellTheTruth, OneAnnouncer, Owes, TailsKnow, TailKnows, Events
<1> QED
  BY <1>1, <1>2, <1>3, <1>4, <1>5, <1>6, <1>7

\* Entering a tail after reading the row.
LEMMA ReadStep ==
  ASSUME SafetyInv, TypeOK, TypeOK', NEW w \in Workers, ReadJob(w) \/ RecheckCancelled(w)
  PROVE  SafetyInv'
<1> USE DEF SafetyInv
<1>0. /\ job' = job /\ finals' = finals /\ resv' = resv /\ emitted' = emitted
      /\ api' = api /\ task' = task /\ dlv' = dlv
      /\ \A v \in Workers \ {w} : pc'[v] = pc[v] /\ snap'[v] = snap[v]
  BY DEF ReadJob, RecheckCancelled, Goto, TypeOK, jobVars
<1>1. /\ pc'[w] \notin {"emitCompleted", "emitFailed"}
      /\ pc'[w] = "release" => \/ Run(w) < job.run
                               \/ job.status \in {"failed", "cancelled"}
      /\ pc'[w] = "commit" => /\ Run(w) = job.run
                              /\ job.status = "completed"
                              /\ snap'[w].status = "completed"
  BY DEF ReadJob, RecheckCancelled, FirstStep, Goto, TypeOK
<1>2. OneFinalAsset' /\ FutureRunsUntouched' /\ HoldsFollowStatus' /\ EventsTellTheTruth'
  BY <1>0 DEF OneFinalAsset, FutureRunsUntouched, HoldsFollowStatus, EventsTellTheTruth
<1>3. DeliveriesNotAhead'
  BY <1>0 DEF DeliveriesNotAhead, Run
<1>4. TailsKnow'
  BY <1>0, <1>1 DEF TailsKnow, TailKnows, Run
<1>5. OneAnnouncer'
  BY <1>0, SamePath, <1>1 DEF OneAnnouncer, Owes, Run
<1> QED
  BY <1>2, <1>3, <1>4, <1>5

\* The steps of a request: what it opened is the past or the present.
LEMMA RequestStep ==
  ASSUME SafetyInv, TypeOK, TypeOK', NEW r \in Runs,
         Request(r) \/ RequestFault(r) \/ RecoverTask(r), UNCHANGED <<job, resv>>
  PROVE  SafetyInv'
<1> USE DEF SafetyInv
<1>0. /\ job' = job /\ resv' = resv /\ finals' = finals /\ emitted' = emitted
      /\ dlv' = dlv /\ pc' = pc /\ snap' = snap
  BY DEF Request, RequestFault, RecoverTask, EnqueueTask, CleanupEnqueue, EnqueueFails,
         CleanupFails, ApiCrash, jobVars, workVars
<1>1. \A q \in Runs : q # r => api'[q] = api[q] /\ task'[q] = task[q]
  BY DEF Request, RequestFault, RecoverTask, EnqueueTask, CleanupEnqueue, EnqueueFails,
         CleanupFails, ApiCrash, TypeOK
<1>2. api[r] # "none" \/ task[r].state # "none"
  BY DEF Request, RequestFault, RecoverTask, EnqueueTask, CleanupEnqueue, EnqueueFails,
         CleanupFails, ApiCrash
<1>3. FutureRunsUntouched'
  BY <1>0, <1>1, <1>2 DEF FutureRunsUntouched
<1>4. OneFinalAsset' /\ HoldsFollowStatus' /\ EventsTellTheTruth'
  BY <1>0 DEF OneFinalAsset, HoldsFollowStatus, EventsTellTheTruth
<1>5. DeliveriesNotAhead' /\ TailsKnow' /\ OneAnnouncer'
  BY <1>0, SamePath DEF DeliveriesNotAhead, TailsKnow, TailKnows, OneAnnouncer, Owes, Run
<1> QED
  BY <1>3, <1>4, <1>5

\* A request ends a live run and gives its hold back in one transaction: a
\* cancel, or the cleanup after a failed enqueue.
LEMMA EndStep ==
  ASSUME SafetyInv, TypeOK, TypeOK',
         job.status \in Live \cup {"cancelled"},
         job'.status \in {"failed", "cancelled"},
         job'.run = job.run, job'.delivered = job.delivered,
         job'.previewFirst = job.previewFirst,
         resv' = Finalized(job.run, "released"),
         \A r \in Runs : r > job.run => api'[r] = api[r],
         UNCHANGED <<finals, emitted, task, workVars>>
  PROVE  SafetyInv'
<1> USE DEF SafetyInv
<1>0. dlv' = dlv /\ pc' = pc /\ snap' = snap /\ emitted' = emitted /\ task' = task
  BY DEF workVars
<1>1. OneFinalAsset'
  <2>1. ~job.delivered /\ finals = 0
    BY DEF OneFinalAsset, Live
  <2>2. job'.delivered = (job'.status = "completed")
    <3>1. (job'.status = "completed") = FALSE
      OBVIOUS
    <3>2. job'.delivered = FALSE
      BY <2>1 DEF TypeOK, JobRow
    <3> QED
      BY <3>1, <3>2
  <2> QED
    BY <2>1, <2>2 DEF OneFinalAsset
<1>2. FutureRunsUntouched'
  BY <1>0, FinalizedOnce, RunTypes DEF FutureRunsUntouched
<1>3. HoldsFollowStatus'
  BY FinalizedOnce, RunTypes DEF HoldsFollowStatus, Live
<1>4. EventsTellTheTruth'
  BY <1>0 DEF EventsTellTheTruth, Live
<1>5. DeliveriesNotAhead'
  BY <1>0 DEF DeliveriesNotAhead, Run
<1>6. TailsKnow'
  BY <1>0 DEF TailsKnow, TailKnows, Run, Live
<1>7. OneAnnouncer'
  BY <1>0, SamePathField DEF OneAnnouncer, Owes, Run
<1> QED
  BY <1>1, <1>2, <1>3, <1>4, <1>5, <1>6, <1>7

\* Admin retry opens the next run.
LEMMA RetryStep ==
  ASSUME SafetyInv, TypeOK, TypeOK', RetryJob
  PROVE  SafetyInv'
<1> USE DEF SafetyInv
<1>0. /\ dlv' = dlv /\ pc' = pc /\ snap' = snap /\ emitted' = emitted /\ task' = task
      /\ finals' = finals
      /\ job.status = "failed" /\ job'.status = "queued" /\ job'.run = job.run + 1
      /\ job'.delivered = FALSE
      /\ job'.previewFirst = job.previewFirst
      /\ \A r \in Runs : r # job.run + 1 => api'[r] = api[r]
  BY DEF RetryJob, workVars, TypeOK, JobRow
<1>a. job.run \in Nat /\ job.run + 1 \in Runs
  BY <1>0, RunTypes DEF TypeOK, JobRow
<1>b. /\ resv'[job.run + 1] = "reserved"
      /\ resv'[job.run] = IF resv[job.run] = "reserved" THEN "released" ELSE resv[job.run]
      /\ \A r \in Runs : r # job.run /\ r # job.run + 1 => resv'[r] = resv[r]
  BY <1>a, RunTypes, TypeFinalized, FinalizedOnce DEF RetryJob, RetryHolds
<1>1. OneFinalAsset'
  <2>1. finals = 0
    BY <1>0 DEF OneFinalAsset
  <2>2. (job'.status = "completed") = FALSE
    BY <1>0
  <2>3. job'.delivered = (job'.status = "completed")
    BY <1>0, <2>2, Zenon
  <2>4. finals' = 0
    BY <1>0, <2>1
  <2> QED
    BY <1>0, <2>3, <2>4 DEF OneFinalAsset
<1>2. FutureRunsUntouched'
  BY <1>0, <1>a, <1>b, RunTypes DEF FutureRunsUntouched
<1>3. HoldsFollowStatus'
  BY <1>0, <1>a, <1>b, RunTypes DEF HoldsFollowStatus
<1>4. EventsTellTheTruth'
  <2> SUFFICES ASSUME NEW r \in Runs
               PROVE  /\ emitted[r]["completed"] + emitted[r]["failed"] <= 1
                      /\ emitted[r]["completed"] > 0 => job.run + 1 = r /\ FALSE
                      /\ emitted[r]["failed"] > 0 => job.run + 1 > r
    BY <1>0 DEF EventsTellTheTruth
  <2>1. r \in Nat /\ emitted[r]["completed"] \in Nat /\ emitted[r]["failed"] \in Nat
    BY RunTypes DEF TypeOK, Events
  <2>2. /\ emitted[r]["completed"] + emitted[r]["failed"] <= 1
        /\ ~(emitted[r]["completed"] > 0)
        /\ emitted[r]["failed"] > 0 => job.run > r \/ job.run = r
    <3>1. /\ emitted[r]["completed"] + emitted[r]["failed"] <= 1
          /\ ~(emitted[r]["completed"] > 0)
      BY <1>0 DEF EventsTellTheTruth
    <3>2. r > job.run => emitted[r]["failed"] = 0
      BY DEF FutureRunsUntouched
    <3> QED
      BY <1>a, <2>1, <3>1, <3>2
  <2> QED
    BY <1>a, <2>1, <2>2
<1>5. DeliveriesNotAhead'
  BY <1>0, <1>a, RunTypes DEF DeliveriesNotAhead, Run
<1>6. TailsKnow'
  <2> SUFFICES ASSUME NEW w \in Workers PROVE TailKnows(w)'
    BY DEF TailsKnow
  <2>1. Run(w)' < job'.run
    BY <1>0, <1>a, RunTypes DEF DeliveriesNotAhead, Run
  <2>2. pc[w] \notin {"commit", "emitCompleted"}
    BY <1>0 DEF TailsKnow, TailKnows
  <2> QED
    BY <1>0, <2>1, <2>2 DEF TailKnows
<1>7. OneAnnouncer'
  BY <1>0, SamePathField DEF OneAnnouncer, Owes, Run
<1> QED
  BY <1>1, <1>2, <1>3, <1>4, <1>5, <1>6, <1>7

\* A lease is lost, or the task is put back, while the handler goes on.
LEMMA LeaseStep ==
  ASSUME SafetyInv, TypeOK, TypeOK', NEW w \in Workers, LoseLease(w) \/ Requeue(w)
  PROVE  SafetyInv'
<1> USE DEF SafetyInv
<1>0. /\ job' = job /\ finals' = finals /\ resv' = resv /\ emitted' = emitted
      /\ api' = api /\ pc' = pc /\ snap' = snap
  BY DEF LoseLease, Requeue, jobVars
<1>1. \A v \in Workers : Run(v)' = Run(v)
  <2> SUFFICES ASSUME NEW v \in Workers PROVE dlv'[v].run = dlv[v].run
    BY DEF Run
  <2>1. dlv' = [dlv EXCEPT ![w] = [dlv[w] EXCEPT !.leased = FALSE]]
    BY DEF LoseLease, Requeue
  <2>2. dlv[w] \in Deliveries /\ [dlv[w] EXCEPT !.leased = FALSE].run = dlv[w].run
    BY DEF TypeOK, Deliveries
  <2> QED
    BY <2>1, <2>2 DEF TypeOK
<1>2. \A r \in Runs : r > job.run => task'[r] = task[r]
  BY RunTypes DEF LoseLease, Requeue, TypeOK, DeliveriesNotAhead
<1>3. FutureRunsUntouched'
  BY <1>0, <1>2 DEF FutureRunsUntouched
<1>4. OneFinalAsset' /\ HoldsFollowStatus' /\ EventsTellTheTruth'
  BY <1>0 DEF OneFinalAsset, HoldsFollowStatus, EventsTellTheTruth
<1>5. DeliveriesNotAhead' /\ TailsKnow' /\ OneAnnouncer'
  BY <1>0, SamePath, <1>1 DEF DeliveriesNotAhead, TailsKnow, TailKnows, OneAnnouncer, Owes
<1> QED
  BY <1>3, <1>4, <1>5

\* Every step keeps the invariant.
LEMMA SafetyStep == SafetyInv /\ TypeOK /\ TypeOK' /\ [Next]_vars => SafetyInv'
<1> SUFFICES ASSUME SafetyInv, TypeOK, TypeOK', [Next]_vars PROVE SafetyInv'
  OBVIOUS
<1>1. ASSUME NEW w \in Workers, Dequeue(w) \/ WorkerStep(w) \/ WorkerFault(w)
      PROVE  SafetyInv'
  <2>0. \A v \in Workers \ {w} : Idles(v)
    BY <1>1, OtherStep
  <2>1. Run(w) <= job.run
    BY DEF SafetyInv, DeliveriesNotAhead
  <2>2. CASE Dequeue(w)
    <3>1. PICK r \in Runs : /\ task[r].state = "pending"
                            /\ task' = [task EXCEPT ![r].state = "active"]
                            /\ dlv' = [dlv EXCEPT ![w] = [run |-> r, retry |-> task[r].retry,
                                                          leased |-> TRUE]]
      BY <2>2 DEF Dequeue
    <3>2. r <= job.run
      BY <3>1, RunTypes DEF SafetyInv, FutureRunsUntouched
    <3>3. Run(w)' <= job.run
      BY <3>1, <3>2 DEF Run, TypeOK
    <3>4. \A q \in Runs : task[q].state = "none" => task'[q].state = "none"
      BY <3>1 DEF TypeOK
    <3>5. pc'[w] \notin Tail /\ UNCHANGED <<job, finals, resv, emitted, api>>
      BY <2>2 DEF Dequeue, Goto, Tail, TypeOK, jobVars
    <3> QED
      BY <2>0, <3>3, <3>4, <3>5, HarmlessStep
  <2>3. CASE ReadJob(w) \/ RecheckCancelled(w)
    BY <2>3, ReadStep
  <2>4. CASE ClaimQueuedJob(w)
    <3>1. pc'[w] \notin Tail /\ UNCHANGED <<finals, resv, emitted, api, task, dlv>>
      BY <2>4 DEF ClaimQueuedJob, Goto, Tail, TypeOK
    <3>2. CASE UNCHANGED job
      BY <2>0, <2>1, <3>1, <3>2, HarmlessStep DEF Run
    <3>3. CASE CanMarkRunning(Run(w)) /\ job' = MarkedRunning
      <4>1. /\ job.status \in Live /\ job'.status \in Live
            /\ job'.run = job.run /\ job'.delivered = job.delivered
            /\ job'.previewFirst = job.previewFirst
        BY <3>3 DEF CanMarkRunning, MarkedRunning, Live, TypeOK, JobRow
      <4> QED
        BY <2>0, <3>1, <4>1, LiveStep
    <3> QED
      BY <2>4, <3>2, <3>3 DEF ClaimQueuedJob
  <2>5. CASE ClaimPreviewFinalization(w)
    <3>1. pc'[w] \notin Tail /\ UNCHANGED <<finals, resv, emitted, api, task, dlv>>
      BY <2>5 DEF ClaimPreviewFinalization, BeginPhase, Goto, Tail, TypeOK
    <3>2. CASE UNCHANGED job
      BY <2>0, <2>1, <3>1, <3>2, HarmlessStep DEF Run
    <3>3. CASE CanClaimFinal(Run(w)) /\ job' = FinalClaimed
      <4>1. /\ job.status \in Live /\ job'.status \in Live
            /\ job'.run = job.run /\ job'.delivered = job.delivered
            /\ job'.previewFirst = job.previewFirst
        BY <3>3 DEF CanClaimFinal, FinalClaimed, Live, TypeOK, JobRow
      <4> QED
        BY <2>0, <3>1, <4>1, LiveStep
    <3> QED
      BY <2>5, <3>2, <3>3 DEF ClaimPreviewFinalization
  <2>6. CASE \/ Prepare(w) \/ ChainExhausted(w) \/ SkipRoute(w) \/ CheckCallCap(w)
             \/ InsertProviderAttempt(w) \/ ProviderReturns(w) \/ UploadImages(w)
    <3>1. /\ pc'[w] \notin Tail
          /\ UNCHANGED <<job, finals, resv, emitted, api, task, dlv>>
      <4> USE DEF Goto, FailWith, GiveUp, Tail, TypeOK, jobVars
      <4>1. CASE Prepare(w)
        BY <4>1 DEF Prepare, BeginPhase
      <4>2. CASE ChainExhausted(w) \/ CheckCallCap(w)
        BY <4>2 DEF ChainExhausted, CheckCallCap, GenerationFailed
      <4>3. CASE SkipRoute(w) \/ InsertProviderAttempt(w)
        BY <4>3 DEF SkipRoute, InsertProviderAttempt
      <4>4. CASE ProviderReturns(w) \/ UploadImages(w)
        BY <4>4 DEF ProviderReturns, UploadImages
      <4> QED
        BY <2>6, <4>1, <4>2, <4>3, <4>4
    <3> QED
      BY <2>0, <2>1, <3>1, HarmlessStep DEF Run
  <2>7. CASE PersistPreview(w)
    <3>1. pc'[w] \notin Tail /\ UNCHANGED <<finals, resv, emitted, api, task, dlv>>
      BY <2>7 DEF PersistPreview, GiveUp, FailWith, Goto, Tail, TypeOK
    <3>2. CASE UNCHANGED job
      BY <2>0, <2>1, <3>1, <3>2, HarmlessStep DEF Run
    <3>3. CASE /\ PersistOutcome(Run(w), "preview") = "Persisted"
               /\ job' = [job EXCEPT !.status = "preview_ready", !.preview = Run(w)]
      <4>1. /\ job.status \in Live /\ job'.status \in Live
            /\ job'.run = job.run /\ job'.delivered = job.delivered
            /\ job'.previewFirst = job.previewFirst
        BY <3>3, PersistedOutcome DEF Live, TypeOK, JobRow
      <4> QED
        BY <2>0, <3>1, <4>1, LiveStep
    <3> QED
      BY <2>7, <3>2, <3>3 DEF PersistPreview
  <2>8. CASE PersistFinal(w)
    <3>1. CASE PersistOutcome(Run(w), "final") = "Persisted"
      BY <2>8, <3>1, CompleteStep
    <3>2. CASE PersistOutcome(Run(w), "final") # "Persisted"
      <4>1. /\ pc'[w] \notin Tail
            /\ UNCHANGED <<job, finals, resv, emitted, api, task, dlv>>
        BY <2>8, <3>2 DEF PersistFinal, GiveUp, FailWith, Goto, Tail, TypeOK
      <4> QED
        BY <2>0, <2>1, <4>1, HarmlessStep DEF Run
    <3> QED
      BY <3>1, <3>2
  <2>9. CASE MarkFailed(w)
    <3>1. CASE CanMarkFailed(Run(w))
      BY <2>9, <3>1, FailStep
    <3>2. CASE ~CanMarkFailed(Run(w))
      <4>1. /\ pc'[w] \notin Tail
            /\ UNCHANGED <<job, finals, resv, emitted, api, task, dlv>>
        BY <2>9, <3>2 DEF MarkFailed, TailError, Goto, Tail, TypeOK
      <4> QED
        BY <2>0, <2>1, <4>1, HarmlessStep DEF Run
    <3> QED
      BY <3>1, <3>2
  <2>10. CASE Emit(w) \/ EmitDropped(w)
    BY <2>10, EmitStep
  <2>11. CASE CommitReservation(w)
    BY <2>11, CommitStep
  <2>12. CASE ReleaseReservation(w)
    BY <2>12, ReleaseStep
  <2>13. CASE HandlerReturns(w) \/ Crash(w)
    <3>1. pc'[w] \notin Tail /\ UNCHANGED <<job, finals, resv, emitted, api>>
      BY <2>13 DEF HandlerReturns, Crash, Forget, Tail, TypeOK, jobVars
    <3>2. Run(w)' <= job.run
      BY <2>13, RunTypes, ConstantsAssumption
         DEF HandlerReturns, Crash, Forget, TypeOK, Run, NoDelivery, Runs
    <3>3. \A q \in Runs : q > job.run => task'[q] = task[q]
      <4>1. \A q \in Runs : q > job.run => q # Run(w)
        BY <2>1, RunTypes
      <4> QED
        BY <2>13, <4>1 DEF HandlerReturns, Crash, TypeOK
    <3> QED
      BY <2>0, <3>1, <3>2, <3>3, HarmlessStep
  <2>14. CASE LoseLease(w) \/ Requeue(w)
    BY <2>14, LeaseStep
  <2>15. CASE DbError(w)
    <3>1. /\ pc'[w] \notin Tail
          /\ UNCHANGED <<job, finals, resv, emitted, api, task, dlv>>
      BY <2>15 DEF DbError, GiveUp, FailWith, TailError, Goto, Tail, TypeOK, jobVars
    <3> QED
      BY <2>0, <2>1, <3>1, HarmlessStep DEF Run
  <2> QED
    BY <1>1, <2>2, <2>3, <2>4, <2>5, <2>6, <2>7, <2>8, <2>9, <2>10, <2>11, <2>12,
       <2>13, <2>14, <2>15 DEF WorkerStep, WorkerFault
<1>2. ASSUME NEW r \in Runs, Request(r) \/ RequestFault(r) \/ RecoverTask(r)
      PROVE  SafetyInv'
  <2>1. CASE UNCHANGED <<job, resv>>
    BY <1>2, <2>1, RequestStep
  <2>2. CASE CleanupEnqueue(r) /\ CanMarkFailed(r)
    <3>1. job.run = r /\ job.status \in Live
      BY <2>2 DEF CanMarkFailed
    <3>2. /\ job'.status = "failed" /\ job'.run = job.run /\ job'.delivered = job.delivered
          /\ job'.previewFirst = job.previewFirst
          /\ resv' = Finalized(job.run, "released")
          /\ UNCHANGED <<finals, emitted, task, workVars>>
      BY <2>2, <3>1 DEF CleanupEnqueue, TypeOK, JobRow
    <3>3. \A q \in Runs : q > job.run => api'[q] = api[q]
      BY <2>2, <3>1, RunTypes DEF CleanupEnqueue, TypeOK
    <3> QED
      BY <3>1, <3>2, <3>3, EndStep
  <2> QED
    BY <1>2, <2>1, <2>2
       DEF Request, RequestFault, RecoverTask, EnqueueTask, CleanupEnqueue, EnqueueFails,
           CleanupFails, ApiCrash, jobVars
<1>3. CASE CancelJob
  <2>1. /\ job'.status = "cancelled" /\ job'.run = job.run /\ job'.delivered = job.delivered
        /\ job'.previewFirst = job.previewFirst
    BY <1>3 DEF CancelJob, TypeOK, JobRow
  <2> QED
    BY <1>3, <2>1, EndStep DEF CancelJob
<1>4. CASE RetryJob
  BY <1>4, RetryStep
<1>5. CASE UNCHANGED vars
  <2>1. /\ UNCHANGED <<job, finals, resv, emitted, api, task, pc, dlv, snap>>
    BY <1>5 DEF vars, jobVars, workVars
  <2> QED
    BY <2>1, SamePath DEF SafetyInv, OneFinalAsset, FutureRunsUntouched, DeliveriesNotAhead,
                HoldsFollowStatus, TailsKnow, TailKnows, OneAnnouncer, Owes,
                EventsTellTheTruth, Run
<1> QED
  BY <1>1, <1>2, <1>3, <1>4, <1>5 DEF Next

-----------------------------------------------------------------------------
\* The inductive invariant holds for any number of workers, runs, attempts,
\* routes and faults.
THEOREM SafetyInvariant == Spec => []SafetyInv
<1>1. Init => SafetyInv
  BY SafetyInit
<1>2. SafetyInv /\ TypeOK /\ TypeOK' /\ [Next]_vars => SafetyInv'
  BY SafetyStep
<1>3. Spec => []TypeOK
  BY TypeCorrect
<1> QED
  BY <1>1, <1>2, <1>3, PTL DEF Spec

\* However many deliveries and admin retries overlap, the guarded persist
\* inserts one final asset, and the job is completed exactly then.
THEOREM OneFinalAssetHolds == Spec => []OneFinalAsset
<1>1. SafetyInv => OneFinalAsset
  BY DEF SafetyInv
<1> QED
  BY <1>1, SafetyInvariant, PTL

\* commitReservation charges only the reservation of the run that delivered.
THEOREM ChargedOnlyIfDeliveredHolds == Spec => []ChargedOnlyIfDelivered
<1>1. SafetyInv /\ TypeOK => ChargedOnlyIfDelivered
  BY RunTypes DEF SafetyInv, HoldsFollowStatus, FutureRunsUntouched, ChargedOnlyIfDelivered
<1> QED
  BY <1>1, SafetyInvariant, TypeCorrect, PTL

\* No cancel, failure tail or superseded delivery gives back the hold of the
\* run that delivered.
THEOREM DeliveredNeverReleasedHolds == Spec => []DeliveredNeverReleased
<1>1. SafetyInv => DeliveredNeverReleased
  BY DEF SafetyInv, HoldsFollowStatus, DeliveredNeverReleased
<1> QED
  BY <1>1, SafetyInvariant, PTL

\* Only the current run of the reusable job id holds budget.
THEOREM OneLiveHoldHolds == Spec => []OneLiveHold
<1>1. SafetyInv /\ TypeOK => OneLiveHold
  BY RunTypes DEF SafetyInv, HoldsFollowStatus, FutureRunsUntouched, OneLiveHold
<1> QED
  BY <1>1, SafetyInvariant, TypeCorrect, PTL

\* Terminal events are emitted at most once per run and are never contradicted
\* by the row.
THEOREM EventsTellTheTruthHolds == Spec => []EventsTellTheTruth
<1>1. SafetyInv => EventsTellTheTruth
  BY DEF SafetyInv
<1> QED
  BY <1>1, SafetyInvariant, PTL

-----------------------------------------------------------------------------
(* The call cap. *)

\* The workers that have passed the comparison and not inserted their row yet.
Inserting == {w \in Workers : pc[w] = "insert"}

\* What was billed, and what is about to be: the slots left below the cap can
\* all be taken at once by workers that counted before any of them inserted.
CallSlots == billed + Cardinality(Inserting) <= billableCallCap + Cardinality(Workers) - 1

\* At least one call is allowed.
LEMMA CapType ==
  ASSUME TypeOK
  PROVE  billableCallCap \in Nat \ {0}
BY ConstantsAssumption DEF billableCallCap, PreviewFirst, TypeOK, JobRow

\* Only CheckCallCap puts a worker before its insert.
LEMMA InsertingStep ==
  ASSUME TypeOK, [Next]_vars, NEW v \in Workers, pc'[v] = "insert"
  PROVE  \/ pc[v] = "insert" /\ ~InsertProviderAttempt(v)
         \/ CheckCallCap(v) /\ UnderCallCap
<1> USE DEF TypeOK
<1>1. CASE Idles(v)
  <2>1. pc[v] = "insert"
    BY <1>1 DEF Idles
  <2> QED BY <2>1 DEF InsertProviderAttempt, Goto
<1>2. CASE CheckCallCap(v)
  BY <1>2 DEF CheckCallCap, GenerationFailed, GiveUp, FailWith, Goto
<1>3. CASE InsertProviderAttempt(v)
  BY <1>3 DEF InsertProviderAttempt, Goto
<1>4. CASE ReadJob(v)
  BY <1>4 DEF ReadJob, FirstStep, Goto
<1>5. CASE Prepare(v) \/ ClaimPreviewFinalization(v)
  BY <1>5 DEF Prepare, ClaimPreviewFinalization, FailWith, BeginPhase, Goto
<1>6. CASE Dequeue(v) \/ ClaimQueuedJob(v) \/ RecheckCancelled(v) \/ HandlerReturns(v)
  BY <1>6 DEF Dequeue, ClaimQueuedJob, RecheckCancelled, HandlerReturns, Forget, Goto
<1>7. CASE ChainExhausted(v) \/ SkipRoute(v)
  BY <1>7 DEF ChainExhausted, SkipRoute, GenerationFailed, GiveUp, FailWith, Goto
<1>8. CASE ProviderReturns(v) \/ UploadImages(v)
  BY <1>8 DEF ProviderReturns, UploadImages, GiveUp, FailWith, Goto
<1>9. CASE PersistPreview(v)
  BY <1>9 DEF PersistPreview, GiveUp, FailWith, Goto
<1>10. CASE PersistFinal(v)
  BY <1>10 DEF PersistFinal, AfterPersist, GiveUp, FailWith, Goto
<1>11. CASE MarkFailed(v) \/ Emit(v)
  BY <1>11 DEF MarkFailed, TailError, Emit, AfterEmit, Goto
<1>12. CASE CommitReservation(v) \/ ReleaseReservation(v)
  BY <1>12 DEF CommitReservation, AfterCommit, ReleaseReservation, Goto
<1>13. CASE Crash(v) \/ EmitDropped(v) \/ DbError(v)
  BY <1>13 DEF Crash, EmitDropped, DbError, AfterEmit, TailError, Forget, GiveUp, FailWith, Goto
<1>14. CASE LoseLease(v) \/ Requeue(v)
  <2>1. pc[v] = "insert" /\ pc' = pc
    BY <1>14 DEF LoseLease, Requeue
  <2> QED BY <2>1 DEF InsertProviderAttempt, Goto
<1> QED
  BY OwnStep, <1>1, <1>2, <1>3, <1>4, <1>5, <1>6, <1>7, <1>8, <1>9, <1>10, <1>11, <1>12,
     <1>13, <1>14 DEF WorkerStep, WorkerFault

\* The path of the job is fixed, and with it the cap.
LEMMA PathFixed ==
  ASSUME TypeOK, [Next]_vars
  PROVE  job'.previewFirst = job.previewFirst
<1> USE DEF jobVars, TypeOK, JobRow
<1>1. ASSUME NEW w \in Workers, Dequeue(w) \/ WorkerFault(w)
      PROVE job'.previewFirst = job.previewFirst
  BY <1>1 DEF Dequeue, WorkerFault, Crash, LoseLease, Requeue, DbError, EmitDropped
<1>2. ASSUME NEW w \in Workers, WorkerStep(w)
      PROVE job'.previewFirst = job.previewFirst
  <2>1. CASE ClaimQueuedJob(w) \/ ClaimPreviewFinalization(w) \/ MarkFailed(w)
    BY <2>1 DEF ClaimQueuedJob, MarkedRunning, ClaimPreviewFinalization, FinalClaimed, MarkFailed
  <2>2. CASE PersistPreview(w)
    BY <2>2 DEF PersistPreview
  <2>3. CASE PersistFinal(w)
    BY <2>3 DEF PersistFinal
  <2>4. CASE UNCHANGED job
    BY <2>4
  <2> QED
    BY <1>2, <2>1, <2>2, <2>3, <2>4 DEF WorkerStep, ReadJob, Prepare, ChainExhausted, SkipRoute,
       CheckCallCap, InsertProviderAttempt, ProviderReturns, UploadImages, RecheckCancelled, Emit,
       CommitReservation, ReleaseReservation, HandlerReturns
<1>3. ASSUME NEW r \in Runs, Request(r) \/ RequestFault(r) \/ RecoverTask(r)
      PROVE job'.previewFirst = job.previewFirst
  BY <1>3 DEF Request, RequestFault, RecoverTask, EnqueueTask, CleanupEnqueue, EnqueueFails,
              CleanupFails, ApiCrash
<1>4. CASE CancelJob \/ RetryJob \/ UNCHANGED vars
  BY <1>4 DEF CancelJob, RetryJob, vars
<1> QED BY <1>1, <1>2, <1>3, <1>4 DEF Next

\* Only an insert bills a call.
LEMMA BilledStep ==
  ASSUME TypeOK, [Next]_vars
  PROVE  \/ billed' = billed
         \/ \E w \in Workers : InsertProviderAttempt(w)
BY DEF Next, vars, Dequeue, WorkerStep, WorkerFault, ReadJob, ClaimQueuedJob, Prepare,
   ClaimPreviewFinalization, ChainExhausted, SkipRoute, CheckCallCap, ProviderReturns, UploadImages,
   PersistPreview, PersistFinal, RecheckCancelled, MarkFailed, Emit, CommitReservation,
   ReleaseReservation, HandlerReturns, Crash, LoseLease, Requeue, DbError, EmitDropped,
   Request, RequestFault, RecoverTask, EnqueueTask, CleanupEnqueue, EnqueueFails,
   CleanupFails, ApiCrash, CancelJob, RetryJob

\* A worker that passes the comparison found a slot below the cap; an insert turns
\* an announced call into a billed one.
LEMMA CallSlotsStep ==
  ASSUME TypeOK, TypeOK', CallSlots, [Next]_vars
  PROVE  CallSlots'
<1>1. billableCallCap' = billableCallCap
  BY PathFixed DEF billableCallCap, PreviewFirst
<1>2. /\ IsFiniteSet(Workers) /\ Cardinality(Workers) \in Nat
      /\ IsFiniteSet(Inserting) /\ Cardinality(Inserting) \in Nat
      /\ IsFiniteSet(Inserting') /\ Cardinality(Inserting') \in Nat
      /\ Cardinality(Inserting') <= Cardinality(Workers)
  <2>1. Inserting \subseteq Workers /\ Inserting' \subseteq Workers
    BY DEF Inserting
  <2> QED BY <2>1, ConstantsAssumption, FS_Subset, FS_CardinalityType
<1>3. billed \in Nat /\ billed' \in Nat /\ billableCallCap \in Nat
  BY CapType DEF TypeOK
<1>4. CASE \E v \in Workers : CheckCallCap(v) /\ UnderCallCap
  <2>1. billed' = billed /\ billed < billableCallCap
    BY <1>4 DEF CheckCallCap, UnderCallCap
  <2> QED BY <1>1, <1>2, <1>3, <2>1 DEF CallSlots
<1>5. CASE ~\E v \in Workers : CheckCallCap(v) /\ UnderCallCap
  <2>1. \A v \in Inserting' : v \in Inserting /\ ~InsertProviderAttempt(v)
    BY <1>5, InsertingStep DEF Inserting
  <2>2. CASE billed' = billed
    <3>1. Cardinality(Inserting') <= Cardinality(Inserting)
      <4>1. Inserting' \subseteq Inserting
        BY <2>1
      <4> QED BY <1>2, <4>1, FS_Subset
    <3> QED BY <1>1, <1>2, <1>3, <2>2, <3>1 DEF CallSlots
  <2>3. ASSUME NEW w \in Workers, InsertProviderAttempt(w) PROVE CallSlots'
    <3>1. w \in Inserting /\ billed' = billed + 1
      BY <2>3 DEF InsertProviderAttempt, Inserting
    <3>2. Inserting' \subseteq Inserting \ {w}
      BY <2>1, <2>3
    <3>3. /\ IsFiniteSet(Inserting \ {w})
          /\ Cardinality(Inserting \ {w}) = Cardinality(Inserting) - 1
      BY <1>2, <3>1, FS_RemoveElement
    <3>4. Cardinality(Inserting') <= Cardinality(Inserting \ {w})
      BY <3>2, <3>3, FS_Subset
    <3> QED BY <1>1, <1>2, <1>3, <3>1, <3>3, <3>4 DEF CallSlots
  <2> QED BY <2>2, <2>3, BilledStep
<1> QED BY <1>4, <1>5

\* The call cap is exceeded by at most one call for each other worker, for any
\* number of overlapping deliveries.
THEOREM CallCapSlackHolds == Spec => []CallCapSlack
<1>1. Init => CallSlots
  <2> SUFFICES ASSUME Init PROVE CallSlots
    OBVIOUS
  <2>1. Inserting = {} /\ billed = 0
    BY DEF Init, Inserting
  <2>2. Cardinality(Inserting) = 0
    BY <2>1, FS_EmptySet
  <2>3. Cardinality(Workers) \in Nat /\ Cardinality(Workers) # 0
    BY ConstantsAssumption, FS_CardinalityType, FS_EmptySet
  <2>4. billableCallCap \in Nat
    BY TypeInit, CapType
  <2> QED BY <2>1, <2>2, <2>3, <2>4 DEF CallSlots
<1>2. TypeOK /\ TypeOK' /\ CallSlots /\ [Next]_vars => CallSlots'
  BY CallSlotsStep
<1>3. TypeOK /\ CallSlots => CallCapSlack
  <2> SUFFICES ASSUME TypeOK, CallSlots PROVE CallCapSlack
    OBVIOUS
  <2>1. IsFiniteSet(Workers) /\ Inserting \subseteq Workers
    BY ConstantsAssumption DEF Inserting
  <2>2. Cardinality(Inserting) \in Nat /\ Cardinality(Workers) \in Nat
    BY <2>1, FS_Subset, FS_CardinalityType
  <2>3. billed \in Nat /\ billableCallCap \in Nat
    BY CapType DEF TypeOK
  <2> QED BY <2>2, <2>3 DEF CallSlots, CallCapSlack
<1> QED BY <1>1, <1>2, <1>3, TypeCorrect, PTL DEF Spec

-----------------------------------------------------------------------------
(* First deliveries. *)

\* A first delivery that won the queued row, by its compare-and-set, and still
\* works on what it claimed.
QueueClaimer(w) ==
  /\ dlv[w].retry = 0
  /\ \/ pc[w] = "prepare" /\ ~(PreviewFirst /\ snap[w].preview)
     \/ pc[w] \in Generating /\ (PreviewFirst => loc[w].phase = "preview")

\* One that won the final phase of a preview-first job.
FinalClaimer(w) ==
  dlv[w].retry = 0 /\ pc[w] \in Generating /\ PreviewFirst /\ loc[w].phase = "final"

\* A claim leaves its mark in the row for as long as the run lasts, so that the
\* next compare-and-set fails.
ClaimsLeaveMarks ==
  \A w \in Workers :
    /\ QueueClaimer(w) => Run(w) < job.run \/ job.status # "queued"
    /\ FinalClaimer(w) => Run(w) < job.run \/ job.claimed

\* Claims are won by one delivery of a run.
ClaimersAlone ==
  \A v, w \in Workers : Run(v) = Run(w) =>
    /\ QueueClaimer(v) /\ QueueClaimer(w) => v = w
    /\ FinalClaimer(v) /\ FinalClaimer(w) => v = w

\* Only a preview-first job is worked on in two phases.
TwoPhases ==
  \A w \in Workers :
    pc[w] \in {"claimFinal", "emitPreview"} \/ loc[w].phase = "preview" => PreviewFirst

\* Every action keeps to the path of the job.
LEMMA TwoPhasesStep ==
  ASSUME TypeOK, TwoPhases, [Next]_vars
  PROVE  TwoPhases'
<1>0. PreviewFirst' = PreviewFirst
  BY PathFixed DEF PreviewFirst
<1> SUFFICES ASSUME NEW v \in Workers, ~PreviewFirst
             PROVE  pc'[v] \notin {"claimFinal", "emitPreview"} /\ loc'[v].phase # "preview"
  BY <1>0 DEF TwoPhases
<1>a. pc[v] \notin {"claimFinal", "emitPreview"} /\ loc[v].phase # "preview"
  BY DEF TwoPhases
<1> USE <1>a DEF TypeOK, Locals
<1>1. CASE Idles(v)
  BY <1>1 DEF Idles
<1>2. CASE CheckCallCap(v) \/ InsertProviderAttempt(v)
  BY <1>2 DEF CheckCallCap, InsertProviderAttempt, GenerationFailed, GiveUp, FailWith, Goto
<1>3. CASE Dequeue(v) \/ RecheckCancelled(v) \/ HandlerReturns(v)
  BY <1>3 DEF Dequeue, RecheckCancelled, HandlerReturns, Forget, Goto, NoLocals
<1>4. CASE ReadJob(v) \/ ClaimQueuedJob(v)
  BY <1>4 DEF ReadJob, FirstStep, ClaimQueuedJob, Goto
<1>5. CASE Prepare(v)
  BY <1>5 DEF Prepare, FailWith, BeginPhase, Goto, NoLocals
<1>6. CASE ClaimPreviewFinalization(v) \/ PersistPreview(v)
  BY <1>6 DEF ClaimPreviewFinalization, PersistPreview
<1>7. CASE ChainExhausted(v) \/ SkipRoute(v)
  BY <1>7 DEF ChainExhausted, SkipRoute, GenerationFailed, GiveUp, FailWith, Goto
<1>8. CASE ProviderReturns(v) \/ UploadImages(v)
  BY <1>8 DEF ProviderReturns, UploadImages, GiveUp, FailWith, Goto
<1>9. CASE PersistFinal(v)
  <2>1. CASE PersistOutcome(Run(v), "final") = "Persisted"
    BY <1>9, <2>1 DEF PersistFinal, AfterPersist, Goto
  <2>2. CASE PersistOutcome(Run(v), "final") # "Persisted"
    BY <1>9, <2>2 DEF PersistFinal, GiveUp, FailWith, Goto
  <2> QED BY <2>1, <2>2
<1>10. CASE MarkFailed(v) \/ Emit(v)
  BY <1>10 DEF MarkFailed, TailError, Emit, AfterEmit, Goto
<1>11. CASE CommitReservation(v) \/ ReleaseReservation(v)
  BY <1>11 DEF CommitReservation, AfterCommit, ReleaseReservation, Goto
<1>12. CASE Crash(v) \/ EmitDropped(v) \/ DbError(v)
  BY <1>12 DEF Crash, EmitDropped, DbError, AfterEmit, TailError, Forget, GiveUp, FailWith, Goto,
     NoLocals
<1>13. CASE LoseLease(v) \/ Requeue(v)
  BY <1>13 DEF LoseLease, Requeue
<1> QED
  BY OwnStep, <1>1, <1>2, <1>3, <1>4, <1>5, <1>6, <1>7, <1>8, <1>9, <1>10, <1>11, <1>12,
     <1>13 DEF WorkerStep, WorkerFault

\* A run never returns to queued and never loses its claim; a retry opens the
\* next run.
RowMovesOn ==
  /\ job'.previewFirst = job.previewFirst
  /\ \/ /\ job'.run = job.run
        /\ job'.status = "queued" => job.status = "queued"
        /\ job.claimed => job'.claimed
     \/ job'.run = job.run + 1

\* What every action does to the marks of the row.
LEMMA RowStep ==
  ASSUME TypeOK, [Next]_vars
  PROVE  RowMovesOn
<1> USE DEF jobVars, TypeOK, JobRow, RowMovesOn
<1>1. CASE UNCHANGED job
  BY <1>1
<1>2. ASSUME NEW w \in Workers, WorkerStep(w), job' # job PROVE RowMovesOn
  <2>1. CASE ClaimQueuedJob(w) \/ ClaimPreviewFinalization(w) \/ MarkFailed(w)
    BY <1>2, <2>1 DEF ClaimQueuedJob, MarkedRunning, ClaimPreviewFinalization, FinalClaimed,
       MarkFailed
  <2>2. CASE PersistPreview(w)
    BY <1>2, <2>2 DEF PersistPreview
  <2>3. CASE PersistFinal(w)
    BY <1>2, <2>3 DEF PersistFinal
  <2> QED
    BY <1>2, <2>1, <2>2, <2>3 DEF WorkerStep, ReadJob, Prepare, ChainExhausted, SkipRoute,
       CheckCallCap, InsertProviderAttempt, ProviderReturns, UploadImages, RecheckCancelled, Emit,
       CommitReservation, ReleaseReservation, HandlerReturns
<1>3. ASSUME NEW r \in Runs, Request(r) \/ RequestFault(r) \/ RecoverTask(r)
      PROVE  RowMovesOn
  BY <1>3 DEF Request, RequestFault, RecoverTask, EnqueueTask, CleanupEnqueue, EnqueueFails,
              CleanupFails, ApiCrash
<1>4. CASE CancelJob \/ RetryJob
  BY <1>4 DEF CancelJob, RetryJob
<1>5. ASSUME NEW w \in Workers, Dequeue(w) \/ WorkerFault(w) PROVE UNCHANGED job
  BY <1>5 DEF Dequeue, WorkerFault, Crash, LoseLease, Requeue, DbError, EmitDropped
<1>6. UNCHANGED vars => UNCHANGED job
  BY DEF vars
<1> QED BY <1>1, <1>2, <1>3, <1>4, <1>5, <1>6 DEF Next

\* A worker becomes a claimer only by winning the compare-and-set.
Wins(v) ==
  /\ Run(v)' = Run(v) /\ Run(v) = job.run /\ job'.run = job.run
  /\ QueueClaimer(v)' => QueueClaimer(v) \/ (job.status = "queued" /\ job'.status # "queued")
  /\ FinalClaimer(v)' => FinalClaimer(v) \/ (~job.claimed /\ job'.claimed)

\* A worker that goes on is at most the claimer it was.
Stays(v) ==
  /\ Run(v)' = Run(v)
  /\ QueueClaimer(v)' => QueueClaimer(v)
  /\ FinalClaimer(v)' => FinalClaimer(v)

\* A step within what was claimed.
LEMMA WorksOn ==
  ASSUME NEW v \in Workers, PreviewFirst' = PreviewFirst,
         dlv'[v].run = dlv[v].run, dlv'[v].retry = dlv[v].retry,
         snap'[v].preview = snap[v].preview,
         \/ pc'[v] \in Generating /\ pc[v] \in Generating /\ loc'[v].phase = loc[v].phase
         \/ pc'[v] = "prepare" /\ pc[v] = "prepare"
         \/ pc'[v] \notin Generating \cup {"prepare"}
  PROVE  Stays(v)
<1>1. Run(v)' = Run(v)
  BY DEF Run
<1>2. QueueClaimer(v)' => QueueClaimer(v)
  BY DEF QueueClaimer, Generating
<1>3. FinalClaimer(v)' => FinalClaimer(v)
  BY DEF FinalClaimer, Generating
<1> QED BY <1>1, <1>2, <1>3 DEF Stays

\* A worker that moves on to anything else is none.
Drops(v) == ~QueueClaimer(v)' /\ ~FinalClaimer(v)'

\* Each action of a worker is one of the three.
LEMMA ClaimerStep ==
  ASSUME TypeOK, TwoPhases, [Next]_vars, NEW v \in Workers
  PROVE  Stays(v) \/ Wins(v) \/ Drops(v)
<1>0. PreviewFirst' = PreviewFirst
  BY PathFixed DEF PreviewFirst
<1> DEFINE Within == /\ dlv'[v].run = dlv[v].run /\ dlv'[v].retry = dlv[v].retry
                     /\ snap'[v].preview = snap[v].preview
                     /\ \/ /\ pc'[v] \in Generating /\ pc[v] \in Generating
                           /\ loc'[v].phase = loc[v].phase
                        \/ pc'[v] = "prepare" /\ pc[v] = "prepare"
                        \/ pc'[v] \notin Generating \cup {"prepare"}
<1>a. Within => Stays(v)
  BY <1>0, WorksOn
<1>b. pc'[v] \notin Generating \cup {"prepare"} => Drops(v)
  BY DEF Drops, QueueClaimer, FinalClaimer, Generating
<1> HIDE DEF Within
<1> USE DEF TypeOK, Generating
<1>1. CASE Idles(v)
  <2>1. Within
    BY <1>1 DEF Idles, Within
  <2> QED BY <1>a, <2>1
<1>2. CASE CheckCallCap(v) \/ InsertProviderAttempt(v)
  <2>1. Within
    BY <1>2 DEF CheckCallCap, InsertProviderAttempt, GenerationFailed, GiveUp, FailWith, Goto, Within
  <2> QED BY <1>a, <2>1
<1>3. CASE Dequeue(v) \/ RecheckCancelled(v) \/ HandlerReturns(v)
  <2>1. pc'[v] \notin Generating \cup {"prepare"}
    BY <1>3 DEF Dequeue, RecheckCancelled, HandlerReturns, Forget, Goto
  <2> QED BY <1>b, <2>1
<1>4. CASE ReadJob(v)
  <2>1. /\ pc'[v] = "prepare" => PreviewFirst /\ snap'[v].preview
        /\ pc'[v] \notin Generating
    BY <1>4 DEF ReadJob, FirstStep, Goto
  <2>2. Drops(v)
    BY <1>0, <2>1 DEF Drops, QueueClaimer, FinalClaimer
  <2> QED BY <2>2
<1>5. CASE Prepare(v)
  <2>1. /\ pc[v] = "prepare" /\ UNCHANGED <<dlv, snap>>
    BY <1>5 DEF Prepare
  <2>2. CASE pc'[v] \notin Generating \cup {"prepare"}
    BY <1>b, <2>2
  <2>3. CASE pc'[v] \in Generating \cup {"prepare"}
    <3>1. /\ pc'[v] = "route" /\ ~(PreviewFirst /\ snap[v].preview)
          /\ loc'[v].phase = IF PreviewFirst THEN "preview" ELSE "final"
      BY <1>5, <2>3 DEF Prepare, FailWith, BeginPhase, Goto, NoLocals
    <3>2. QueueClaimer(v)' => QueueClaimer(v)
      BY <2>1, <3>1 DEF QueueClaimer
    <3>3. ~FinalClaimer(v)'
      BY <1>0, <3>1 DEF FinalClaimer
    <3>4. Run(v)' = Run(v)
      BY <2>1 DEF Run
    <3> QED BY <3>2, <3>3, <3>4 DEF Stays
  <2> QED BY <2>2, <2>3
<1>6. CASE ClaimQueuedJob(v)
  <2>0. pc[v] = "claim" /\ UNCHANGED <<dlv, snap>> /\ dlv[v].retry \in Nat
    BY <1>6 DEF ClaimQueuedJob, Deliveries
  <2>1. CASE pc'[v] # "prepare"
    <3>1. pc'[v] \notin Generating \cup {"prepare"}
      BY <1>6, <2>1 DEF ClaimQueuedJob, Goto
    <3> QED BY <1>b, <3>1
  <2>2. CASE dlv[v].retry > 0
    <3>1. Drops(v)
      BY <2>0, <2>2 DEF Drops, QueueClaimer, FinalClaimer
    <3> QED BY <3>1
  <2>3. CASE pc'[v] = "prepare" /\ ~(dlv[v].retry > 0)
    <3>1. CanMarkRunning(Run(v)) /\ job' = MarkedRunning
      BY <1>6, <2>3 DEF ClaimQueuedJob, OwnsRunning, Goto
    <3>2. /\ Run(v)' = Run(v) /\ Run(v) = job.run /\ job'.run = job.run
          /\ job.status = "queued" /\ job'.status # "queued"
      BY <2>0, <3>1 DEF CanMarkRunning, MarkedRunning, JobRow, Run
    <3>3. ~FinalClaimer(v)'
      BY <2>3 DEF FinalClaimer
    <3> QED BY <3>2, <3>3 DEF Wins
  <2> QED BY <2>1, <2>2, <2>3
<1>7. CASE ClaimPreviewFinalization(v)
  <2>0. pc[v] = "claimFinal" /\ UNCHANGED <<dlv, snap>> /\ dlv[v].retry \in Nat /\ PreviewFirst
    BY <1>7 DEF ClaimPreviewFinalization, Deliveries, TwoPhases
  <2>1. CASE dlv[v].retry > 0
    <3>1. Drops(v)
      BY <2>0, <2>1 DEF Drops, QueueClaimer, FinalClaimer
    <3> QED BY <3>1
  <2>2. CASE ~(dlv[v].retry > 0) /\ CanClaimFinal(Run(v))
    <3>1. job' = FinalClaimed /\ BeginPhase(v, "final")
      BY <1>7, <2>2 DEF ClaimPreviewFinalization
    <3>2. pc'[v] = "route" /\ loc'[v].phase = "final"
      BY <3>1 DEF BeginPhase, Goto, NoLocals
    <3>3. /\ Run(v)' = Run(v) /\ Run(v) = job.run /\ ~job.claimed
          /\ job'.run = job.run /\ job'.claimed
      BY <2>0, <2>2, <3>1 DEF CanClaimFinal, FinalClaimed, JobRow, Run
    <3>4. ~QueueClaimer(v)'
      BY <1>0, <2>0, <3>2 DEF QueueClaimer
    <3> QED BY <3>3, <3>4 DEF Wins
  <2>3. CASE ~(dlv[v].retry > 0) /\ ~CanClaimFinal(Run(v))
    <3>1. pc'[v] \notin Generating \cup {"prepare"}
      BY <1>7, <2>3 DEF ClaimPreviewFinalization, Goto
    <3> QED BY <1>b, <3>1
  <2> QED BY <2>1, <2>2, <2>3
<1>8. CASE ChainExhausted(v) \/ SkipRoute(v)
  <2>1. Within
    BY <1>8 DEF ChainExhausted, SkipRoute, GenerationFailed, GiveUp, FailWith, Goto, Locals, Within
  <2> QED BY <1>a, <2>1
<1>9. CASE ProviderReturns(v) \/ UploadImages(v)
  <2>1. Within
    BY <1>9 DEF ProviderReturns, UploadImages, GiveUp, FailWith, Goto, Locals, Within
  <2> QED BY <1>a, <2>1
<1>10. CASE PersistPreview(v) \/ PersistFinal(v)
  <2>1. pc'[v] \notin Generating \cup {"prepare"}
    <3>1. CASE PersistPreview(v)
      BY <3>1 DEF PersistPreview, GiveUp, FailWith, Goto
    <3>2. CASE PersistFinal(v)
      BY <3>2 DEF PersistFinal, AfterPersist, GiveUp, FailWith, Goto
    <3> QED BY <1>10, <3>1, <3>2
  <2> QED BY <1>b, <2>1
<1>11. CASE MarkFailed(v) \/ Emit(v) \/ CommitReservation(v) \/ ReleaseReservation(v)
  <2>1. pc'[v] \notin Generating \cup {"prepare"}
    BY <1>11 DEF MarkFailed, TailError, Emit, AfterEmit, CommitReservation, AfterCommit,
       ReleaseReservation, Goto
  <2> QED BY <1>b, <2>1
<1>12. CASE Crash(v) \/ EmitDropped(v) \/ DbError(v)
  <2>1. pc'[v] \notin Generating \cup {"prepare"}
    BY <1>12 DEF Crash, EmitDropped, DbError, AfterEmit, TailError, Forget, GiveUp, FailWith, Goto
  <2> QED BY <1>b, <2>1
<1>13. CASE LoseLease(v) \/ Requeue(v)
  <2>1. /\ UNCHANGED <<pc, snap, loc>>
        /\ dlv'[v].run = dlv[v].run /\ dlv'[v].retry = dlv[v].retry
    BY <1>13 DEF LoseLease, Requeue, Deliveries
  <2>2. Within
    BY <2>1 DEF Within
  <2> QED BY <1>a, <2>2
<1> QED
  BY OwnStep, <1>1, <1>2, <1>3, <1>4, <1>5, <1>6, <1>7, <1>8, <1>9, <1>10, <1>11, <1>12,
     <1>13 DEF WorkerStep, WorkerFault

\* Two workers never win in the same step.
LEMMA OneMoves ==
  ASSUME TypeOK, [Next]_vars, NEW v \in Workers, NEW w \in Workers, v # w
  PROVE  Idles(v) \/ Idles(w)
BY OtherStep, OwnStep

\* The inductive invariant of the claims.
ClaimInv == TwoPhases /\ ClaimsLeaveMarks /\ ClaimersAlone

\* Nobody has claimed anything initially ...
LEMMA ClaimInit == Init => ClaimInv
BY DEF Init, ClaimInv, TwoPhases, ClaimsLeaveMarks, ClaimersAlone, QueueClaimer, FinalClaimer,
   Generating, NoLocals

\* ... and who wins a compare-and-set is the first: an earlier winner of the run
\* would have left the mark that makes it fail.
LEMMA ClaimStep ==
  ASSUME TypeOK, TypeOK', SafetyInv, SafetyInv', ClaimInv, [Next]_vars
  PROVE  ClaimInv'
<1>0. RowMovesOn
  BY RowStep
<1>1. \A v \in Workers : Stays(v) \/ Wins(v) \/ Drops(v)
  BY ClaimerStep DEF ClaimInv
<1>2. \A v \in Workers : Run(v) <= job.run /\ Run(v)' <= job'.run /\ Run(v) \in Nat
  BY DEF SafetyInv, DeliveriesNotAhead, Run, TypeOK, Deliveries, Runs
<1>3. job.run \in Nat /\ job'.run \in Nat
  BY DEF TypeOK, JobRow, Runs
<1>4. ClaimsLeaveMarks'
  <2> SUFFICES ASSUME NEW v \in Workers
               PROVE  /\ QueueClaimer(v)' => Run(v)' < job'.run \/ job'.status # "queued"
                      /\ FinalClaimer(v)' => Run(v)' < job'.run \/ job'.claimed
    BY DEF ClaimsLeaveMarks
  <2>0. /\ QueueClaimer(v) => Run(v) < job.run \/ job.status # "queued"
        /\ FinalClaimer(v) => Run(v) < job.run \/ job.claimed
    BY DEF ClaimInv, ClaimsLeaveMarks
  <2>1. CASE Stays(v)
    BY <1>0, <1>2, <1>3, <2>0, <2>1 DEF Stays, RowMovesOn
  <2>2. CASE Wins(v) /\ ~Stays(v)
    BY <1>0, <1>2, <1>3, <2>0, <2>2 DEF Wins, RowMovesOn
  <2>3. CASE Drops(v)
    BY <2>3 DEF Drops
  <2> QED BY <1>1, <2>1, <2>2, <2>3
<1>5. ClaimersAlone'
  <2> SUFFICES ASSUME NEW v \in Workers, NEW w \in Workers, v # w, Run(v)' = Run(w)',
                      Idles(v)
               PROVE  /\ ~(QueueClaimer(v)' /\ QueueClaimer(w)')
                      /\ ~(FinalClaimer(v)' /\ FinalClaimer(w)')
    BY OneMoves DEF ClaimersAlone
  <2>1. Run(v)' = Run(v)
    BY DEF Idles, Run
  <2>2. PreviewFirst' = PreviewFirst
    BY <1>0 DEF RowMovesOn, PreviewFirst
  <2>3. QueueClaimer(v)' = QueueClaimer(v) /\ FinalClaimer(v)' = FinalClaimer(v)
    BY <2>2 DEF Idles, QueueClaimer, FinalClaimer
  <2>4. /\ Run(v) = Run(w) => ~(QueueClaimer(v) /\ QueueClaimer(w))
        /\ Run(v) = Run(w) => ~(FinalClaimer(v) /\ FinalClaimer(w))
        /\ QueueClaimer(v) => Run(v) < job.run \/ job.status # "queued"
        /\ FinalClaimer(v) => Run(v) < job.run \/ job.claimed
    BY DEF ClaimInv, ClaimersAlone, ClaimsLeaveMarks
  <2>5. CASE Stays(w)
    BY <2>1, <2>3, <2>4, <2>5 DEF Stays
  <2>6. CASE Drops(w)
    BY <2>6 DEF Drops
  <2>7. CASE Wins(w)
    <3>1. Run(v) = Run(w) /\ Run(w) = job.run
      BY <2>1, <2>7 DEF Wins, Run
    <3>0. ~(Run(v) < job.run)
      BY <1>3, <3>1
    <3>2. ~(QueueClaimer(v) /\ QueueClaimer(w)')
      BY <2>4, <2>7, <3>0, <3>1 DEF Wins
    <3>3. ~(FinalClaimer(v) /\ FinalClaimer(w)')
      BY <2>4, <2>7, <3>0, <3>1 DEF Wins
    <3> QED BY <2>3, <3>2, <3>3
  <2> QED BY <1>1, <2>5, <2>6, <2>7
<1> QED BY <1>4, <1>5, TwoPhasesStep DEF ClaimInv

\* The claims turn every duplicate first delivery into a no-op: two first
\* deliveries of a task never generate the same phase at once, whatever is
\* requeued, cancelled or retried in between.
THEOREM FirstDeliveriesExclusiveHolds == Spec => []FirstDeliveriesExclusive
<1>1. TypeOK /\ ClaimInv => FirstDeliveriesExclusive
  <2> SUFFICES ASSUME TypeOK, ClaimInv, NEW v \in Workers, NEW w \in Workers,
                      pc[v] \in Generating, pc[w] \in Generating,
                      Run(v) = Run(w), loc[v].phase = loc[w].phase,
                      dlv[v].retry = 0, dlv[w].retry = 0
               PROVE  v = w
    BY DEF FirstDeliveriesExclusive
  <2>1. loc[v].phase \in {"preview", "final"}
    BY DEF TypeOK, Locals
  <2>2. (QueueClaimer(v) /\ QueueClaimer(w)) \/ (FinalClaimer(v) /\ FinalClaimer(w))
    <3>1. CASE PreviewFirst /\ loc[v].phase = "final"
      BY <3>1 DEF FinalClaimer
    <3>2. CASE PreviewFirst => loc[v].phase = "preview"
      <4>1. (PreviewFirst => loc[v].phase = "preview") /\ (PreviewFirst => loc[w].phase = "preview")
        BY <3>2, Zenon
      <4>2. QueueClaimer(v)
        BY <4>1, Zenon DEF QueueClaimer
      <4>3. QueueClaimer(w)
        BY <4>1, Zenon DEF QueueClaimer
      <4> QED BY <4>2, <4>3
    <3> QED BY <2>1, <3>1, <3>2
  <2> QED BY <2>2 DEF ClaimInv, ClaimersAlone
<1>2. TypeOK /\ TypeOK' /\ SafetyInv /\ SafetyInv' /\ ClaimInv /\ [Next]_vars => ClaimInv'
  BY ClaimStep
<1> QED BY <1>1, <1>2, ClaimInit, TypeCorrect, SafetyInvariant, PTL DEF Spec

-----------------------------------------------------------------------------
(* Module GenerationJob implements module JobLifecycle: the row's status, its
   run, the hold of that run and the delivered output change only as the status
   machine promises, and only the delivery of the current run publishes. *)

\* The queued row of the first run is the status machine's initial state.
LEMMA RefinesInit == Init => Lifecycle!Init
BY ConstantsAssumption DEF Init, Lifecycle!Init, Runs

\* A step that leaves the row and the holds alone.
LEMMA Stutters ==
  ASSUME UNCHANGED <<job, resv>>
  PROVE  UNCHANGED Lifecycle!vars
BY DEF Lifecycle!vars

\* Where a preview is persisted, the row was running.
LEMMA PreviewOutcome ==
  ASSUME TypeOK, NEW r, PersistOutcome(r, "preview") = "Persisted"
  PROVE  job.run = r /\ job.status = "running"
<1>1. job.run = r /\ job.status \in {"running", "preview_ready"}
  BY PersistedOutcome
<1>2. job.status # "preview_ready"
  BY <1>1 DEF PersistOutcome
<1> QED
  BY <1>1, <1>2

\* The worker's writes of the row.
LEMMA RefinesRow ==
  ASSUME SafetyInv, TypeOK, NEW w \in Workers,
         \/ ClaimQueuedJob(w) \/ ClaimPreviewFinalization(w) \/ PersistPreview(w)
         \/ PersistFinal(w) \/ MarkFailed(w)
  PROVE  [Lifecycle!Next]_(Lifecycle!vars)
<1>0. UNCHANGED resv
  BY DEF ClaimQueuedJob, ClaimPreviewFinalization, PersistPreview, PersistFinal, MarkFailed
<1>1. CASE UNCHANGED job
  BY <1>0, <1>1, Stutters
<1>2. CASE /\ job.status = "queued" /\ job'.status = "running"
           /\ job'.run = job.run /\ job'.delivered = job.delivered
  BY <1>0, <1>2 DEF Lifecycle!Next, Lifecycle!Start
<1>3. CASE /\ job.status = "preview_ready" /\ job'.status = "preview_ready"
           /\ job'.run = job.run /\ job'.delivered = job.delivered
  BY <1>0, <1>3 DEF Lifecycle!vars
<1>4. CASE /\ job.status = "running" /\ job'.status = "preview_ready"
           /\ job'.run = job.run /\ job'.delivered = job.delivered
  BY <1>0, <1>4 DEF Lifecycle!Next, Lifecycle!PreviewReady
<1>5. CASE /\ job.status \in {"running", "preview_ready"} /\ job'.status = "completed"
           /\ job'.run = job.run /\ job'.delivered = TRUE
  BY <1>0, <1>5 DEF Lifecycle!Next, Lifecycle!Complete
<1>6. CASE /\ job.status \in Live /\ job'.status = "failed"
           /\ job'.run = job.run /\ job'.delivered = job.delivered
  BY <1>0, <1>6 DEF Lifecycle!Next, Lifecycle!Fail, Lifecycle!Live, Live
<1> USE DEF TypeOK, JobRow
<1>a. CASE ClaimQueuedJob(w)
  BY <1>a, <1>1, <1>2 DEF ClaimQueuedJob, CanMarkRunning, MarkedRunning
<1>b. CASE ClaimPreviewFinalization(w)
  BY <1>b, <1>1, <1>2, <1>3 DEF ClaimPreviewFinalization, CanClaimFinal, FinalClaimed
<1>c. CASE PersistPreview(w)
  BY <1>c, <1>1, <1>4, PreviewOutcome DEF PersistPreview
<1>d. CASE PersistFinal(w)
  <2>1. CASE PersistOutcome(Run(w), "final") = "Persisted"
    <3>1. job' = [job EXCEPT !.status = "completed", !.delivered = TRUE]
      BY <1>d, <2>1 DEF PersistFinal
    <3> QED
      BY <2>1, <3>1, <1>5, PersistedOutcome
  <2>2. CASE PersistOutcome(Run(w), "final") # "Persisted"
    BY <1>d, <2>2, <1>1 DEF PersistFinal
  <2> QED
    BY <2>1, <2>2
<1>e. CASE MarkFailed(w)
  BY <1>e, <1>1, <1>6 DEF MarkFailed, CanMarkFailed
<1> QED
  BY <1>a, <1>b, <1>c, <1>d, <1>e

\* The worker's writes of the hold.
LEMMA RefinesHold ==
  ASSUME SafetyInv, TypeOK, NEW w \in Workers,
         CommitReservation(w) \/ ReleaseReservation(w)
  PROVE  [Lifecycle!Next]_(Lifecycle!vars)
<1> USE DEF SafetyInv
<1>1. CASE CommitReservation(w)
  <2>1. job' = job /\ Run(w) = job.run /\ job.status = "completed"
    BY <1>1 DEF CommitReservation, TailsKnow, TailKnows
  <2>2. resv'[job.run] = IF resv[job.run] = "reserved" THEN "committed" ELSE resv[job.run]
    BY <1>1, <2>1, FinalizedOnce, RunTypes DEF CommitReservation
  <2> QED
    BY <2>1, <2>2 DEF Lifecycle!Next, Lifecycle!Commit, Lifecycle!vars
<1>2. CASE ReleaseReservation(w)
  <2>1. job' = job /\ resv' = Finalized(Run(w), "released")
    BY <1>2 DEF ReleaseReservation
  <2>2. \/ Run(w) # job.run
        \/ Run(w) = job.run /\ job.status \in {"failed", "cancelled"}
    BY <1>2, RunTypes DEF ReleaseReservation, TailsKnow, TailKnows
  <2>3. CASE Run(w) # job.run
    <3>1. resv'[job.run] = resv[job.run]
      BY <2>1, <2>3, FinalizedOnce, RunTypes
    <3> QED
      BY <2>1, <3>1 DEF Lifecycle!vars
  <2>4. CASE Run(w) = job.run /\ job.status \in {"failed", "cancelled"}
    <3>1. resv'[job.run] = IF resv[job.run] = "reserved" THEN "released" ELSE resv[job.run]
      BY <2>1, <2>4, FinalizedOnce, RunTypes
    <3> QED
      BY <2>1, <2>4, <3>1 DEF Lifecycle!Next, Lifecycle!Release, Lifecycle!vars
  <2> QED
    BY <2>2, <2>3, <2>4
<1> QED
  BY <1>1, <1>2

\* The requests that write the row and the hold together.
LEMMA RefinesRequest ==
  ASSUME SafetyInv, TypeOK,
         \/ CancelJob
         \/ RetryJob
         \/ \E r \in Runs : CleanupEnqueue(r)
  PROVE  [Lifecycle!Next]_(Lifecycle!vars)
<1> USE DEF SafetyInv
<1>0. job.run \in Runs /\ job.run \in Nat
  BY RunTypes
<1>1. CASE CancelJob
  <2>1. /\ job'.status = "cancelled" /\ job'.run = job.run /\ job'.delivered = job.delivered
        /\ job.status \in Live \cup {"cancelled"}
    BY <1>1 DEF CancelJob, TypeOK, JobRow
  <2>2. resv'[job.run] = IF resv[job.run] = "reserved" THEN "released" ELSE resv[job.run]
    BY <1>0, <1>1, FinalizedOnce DEF CancelJob
  <2>3. CASE job.status \in Live
    <3>1. resv'[job'.run] = "released"
      BY <2>1, <2>2, <2>3 DEF HoldsFollowStatus
    <3> QED
      BY <2>1, <2>3, <3>1 DEF Lifecycle!Next, Lifecycle!Cancel, Lifecycle!Live, Live
  <2>4. CASE job.status = "cancelled"
    BY <2>1, <2>2, <2>4 DEF Lifecycle!Next, Lifecycle!Release, Lifecycle!vars
  <2> QED
    BY <2>1, <2>3, <2>4
<1>2. CASE RetryJob
  <2>1. /\ job.status = "failed" /\ job'.status = "queued" /\ job'.run = job.run + 1
        /\ job.run < MaxRuns /\ job'.delivered = FALSE
    BY <1>2 DEF RetryJob, TypeOK, JobRow
  <2>2. job.delivered = FALSE
    BY <2>1 DEF OneFinalAsset
  <2>3. job.run + 1 \in Runs
    BY <1>0, <2>1, ConstantsAssumption DEF Runs
  <2>4. resv'[job.run + 1] = "reserved"
    BY <1>0, <1>2, <2>3, TypeFinalized DEF RetryJob, RetryHolds
  <2> QED
    BY <2>1, <2>2, <2>4 DEF Lifecycle!Next, Lifecycle!Retry
<1>3. ASSUME NEW r \in Runs, CleanupEnqueue(r) PROVE [Lifecycle!Next]_(Lifecycle!vars)
  <2>1. CASE ~CanMarkFailed(r)
    BY <1>3, <2>1, Stutters DEF CleanupEnqueue
  <2>2. CASE CanMarkFailed(r)
    <3>1. /\ r = job.run /\ job.status \in Live /\ job'.status = "failed"
          /\ job'.run = job.run /\ job'.delivered = job.delivered
      BY <1>3, <2>2 DEF CleanupEnqueue, CanMarkFailed, TypeOK, JobRow
    <3>2. resv'[job.run] = "released"
      BY <1>0, <1>3, <2>2, <3>1, FinalizedOnce DEF CleanupEnqueue, HoldsFollowStatus
    <3> QED
      BY <3>1, <3>2 DEF Lifecycle!Next, Lifecycle!Fail, Lifecycle!Live, Live
  <2> QED
    BY <2>1, <2>2
<1> QED
  BY <1>1, <1>2, <1>3

\* Every step is a step of the status machine, or none.
LEMMA RefinesStep ==
  ASSUME SafetyInv, TypeOK, [Next]_vars
  PROVE  [Lifecycle!Next]_(Lifecycle!vars)
<1>1. ASSUME NEW w \in Workers, Dequeue(w) \/ WorkerStep(w) \/ WorkerFault(w)
      PROVE  [Lifecycle!Next]_(Lifecycle!vars)
  <2>1. CASE \/ ClaimQueuedJob(w) \/ ClaimPreviewFinalization(w) \/ PersistPreview(w)
             \/ PersistFinal(w) \/ MarkFailed(w)
    BY <2>1, RefinesRow
  <2>2. CASE CommitReservation(w) \/ ReleaseReservation(w)
    BY <2>2, RefinesHold
  <2>3. CASE UNCHANGED <<job, resv>>
    BY <2>3, Stutters
  <2>4. CASE Dequeue(w) \/ WorkerFault(w)
    BY <2>3, <2>4 DEF Dequeue, WorkerFault, Crash, LoseLease, Requeue, DbError, EmitDropped,
                      jobVars
  <2>5. CASE \/ ReadJob(w) \/ Prepare(w) \/ ChainExhausted(w) \/ SkipRoute(w)
             \/ CheckCallCap(w) \/ InsertProviderAttempt(w) \/ ProviderReturns(w)
             \/ UploadImages(w) \/ RecheckCancelled(w) \/ Emit(w) \/ HandlerReturns(w)
    BY <2>3, <2>5 DEF ReadJob, Prepare, ChainExhausted, SkipRoute, CheckCallCap,
                      InsertProviderAttempt, ProviderReturns, UploadImages,
                      RecheckCancelled, Emit, HandlerReturns, jobVars
  <2> QED
    BY <1>1, <2>1, <2>2, <2>4, <2>5 DEF WorkerStep
<1>2. ASSUME NEW r \in Runs, Request(r) \/ RequestFault(r) \/ RecoverTask(r)
      PROVE  [Lifecycle!Next]_(Lifecycle!vars)
  <2>1. CASE CleanupEnqueue(r)
    BY <2>1, RefinesRequest
  <2>2. CASE UNCHANGED <<job, resv>>
    BY <2>2, Stutters
  <2> QED
    BY <1>2, <2>1, <2>2 DEF Request, RequestFault, RecoverTask, EnqueueTask, EnqueueFails,
                            CleanupFails, ApiCrash, jobVars
<1>3. CASE CancelJob \/ RetryJob
  BY <1>3, RefinesRequest
<1>4. CASE UNCHANGED vars
  BY <1>4, Stutters DEF vars, jobVars
<1> QED
  BY <1>1, <1>2, <1>3, <1>4 DEF Next

-----------------------------------------------------------------------------
\* The handler, the queue and the admin endpoints together keep the promise of
\* the status machine, for any number of workers, deliveries and retries.
THEOREM Refinement == Spec => ImplementsLifecycle
<1>1. Init => Lifecycle!Init
  BY RefinesInit
<1>2. SafetyInv /\ TypeOK /\ [Next]_vars => [Lifecycle!Next]_(Lifecycle!vars)
  BY RefinesStep
<1> QED
  BY <1>1, <1>2, SafetyInvariant, TypeCorrect, PTL DEF Spec, ImplementsLifecycle, Lifecycle!Spec

\* The delivery w of the current run persists.
Publishes(w) == pc[w] = "persist" /\ Run(w) = job.run /\ pc'[w] # pc[w]

\* Every step of a worker publishes for the current run, or publishes nothing.
LEMMA PublishStep ==
  ASSUME TypeOK, NEW w \in Workers, Dequeue(w) \/ WorkerStep(w) \/ WorkerFault(w)
  PROVE  (finals' = finals /\ job'.preview = job.preview) \/ Publishes(w)
<1> USE DEF TypeOK, JobRow
<1>1. CASE UNCHANGED jobVars
  BY <1>1 DEF jobVars
<1>2. CASE ClaimQueuedJob(w)
  BY <1>2 DEF ClaimQueuedJob, MarkedRunning
<1>3. CASE ClaimPreviewFinalization(w)
  BY <1>3 DEF ClaimPreviewFinalization, FinalClaimed
<1>4. CASE PersistPreview(w)
  BY <1>4, PersistedOutcome DEF PersistPreview, Publishes, Goto
<1>5. CASE PersistFinal(w)
  BY <1>5, PersistedOutcome DEF PersistFinal, Publishes, Goto, AfterPersist
<1>6. CASE MarkFailed(w)
  BY <1>6 DEF MarkFailed
<1>7. CASE CommitReservation(w) \/ ReleaseReservation(w)
  BY <1>7 DEF CommitReservation, ReleaseReservation
<1>8. CASE Dequeue(w) \/ WorkerFault(w)
  BY <1>1, <1>8 DEF Dequeue, WorkerFault, Crash, LoseLease, Requeue, DbError, EmitDropped
<1>9. CASE \/ ReadJob(w) \/ Prepare(w) \/ ChainExhausted(w) \/ SkipRoute(w)
           \/ CheckCallCap(w) \/ InsertProviderAttempt(w) \/ ProviderReturns(w)
           \/ UploadImages(w) \/ RecheckCancelled(w) \/ Emit(w) \/ HandlerReturns(w)
  BY <1>1, <1>9 DEF ReadJob, Prepare, ChainExhausted, SkipRoute, CheckCallCap,
                    InsertProviderAttempt, ProviderReturns, UploadImages,
                    RecheckCancelled, Emit, HandlerReturns
<1> QED
  BY <1>2, <1>3, <1>4, <1>5, <1>6, <1>7, <1>8, <1>9 DEF WorkerStep

\* A delivery of a superseded run publishes nothing: the guarded persist is
\* bound to the reservation the delivery was enqueued with.
THEOREM OnlyCurrentRunPublishesHolds == Spec => OnlyCurrentRunPublishes
<1> DEFINE Publication ==
      finals' # finals \/ job'.preview # job.preview
        => \E w \in Workers : pc[w] = "persist" /\ Run(w) = job.run /\ pc'[w] # pc[w]
<1>1. TypeOK /\ [Next]_vars => [Publication]_vars
  <2> SUFFICES ASSUME TypeOK, Next PROVE Publication
    OBVIOUS
  <2>1. ASSUME NEW w \in Workers, Dequeue(w) \/ WorkerStep(w) \/ WorkerFault(w)
        PROVE  Publication
    BY <2>1, PublishStep DEF Publishes
  <2>2. CASE finals' = finals /\ job'.preview = job.preview
    BY <2>2
  <2>3. ASSUME NEW r \in Runs, Request(r) \/ RequestFault(r) \/ RecoverTask(r)
        PROVE  Publication
    BY <2>2, <2>3 DEF Request, RequestFault, RecoverTask, EnqueueTask, CleanupEnqueue,
                      EnqueueFails, CleanupFails, ApiCrash, jobVars, TypeOK, JobRow
  <2>4. CASE CancelJob \/ RetryJob
    BY <2>2, <2>4 DEF CancelJob, RetryJob, TypeOK, JobRow
  <2> QED
    BY <2>1, <2>3, <2>4 DEF Next
<1> QED
  BY <1>1, TypeCorrect, PTL DEF Spec, OnlyCurrentRunPublishes
=============================================================================
