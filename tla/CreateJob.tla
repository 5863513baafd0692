------------------------------ MODULE CreateJob ------------------------------
(***************************************************************************)
(* How one API token's generation requests become jobs: the handlers of    *)
(* POST /v1/artifacts, /v1/generations and the pack endpoints, and the     *)
(* service that lands their jobs (internal/jobs/service.go).  Requests     *)
(* run concurrently; what they share is the token's idempotency rows, its  *)
(* live jobs, the advisory lock of the concurrent-job cap and the reusable *)
(* assets.  PostgreSQL's READ COMMITTED transactions appear as one step    *)
(* per statement: a statement reads what is committed when it runs, its    *)
(* own writes stay in `pending` until Commit, and now() is the start of    *)
(* the transaction (ts).  What a job row refers to is modelled where it    *)
(* lives: the reservation in CostLedger and GenerationJob, the pack and    *)
(* its items in PackFanout.                                                *)
(***************************************************************************)
EXTENDS Integers, FiniteSets

CONSTANTS
    Requests,           \* the HTTP requests in flight; a job is named by the
                        \* request that created it
    Keys,               \* Idempotency-Key values
    Bodies,             \* request bodies (equal bodies have equal hashes)
    Endpoints,          \* a subset of {"artifact", "generation", "pack"}
    Forces,             \* whether requests ask for new output, which skips the
                        \* reuse lookup: force_regenerate, preview_first and
                        \* transparent packs
    MaxConcurrentJobs,  \* the token's cap, 0 for none
    TTL,                \* lifetime of an idempotency row
    MaxTime,            \* bound on the clock
    MaxRetries,         \* bound on admin retries
    None                \* no key, no lock holder, no row

ASSUME CreateAssumption ==
    /\ IsFiniteSet(Requests)
    /\ MaxConcurrentJobs \in Nat /\ TTL \in Nat \ {0} /\ MaxTime \in Nat
    /\ MaxRetries \in Nat
    /\ Endpoints \subseteq {"artifact", "generation", "pack"}
    /\ Forces \subseteq BOOLEAN
    /\ None \notin Requests \cup Keys

VARIABLES
    now,        \* the database's clock
    req,        \* what each request asks for
    pc,         \* where its handler stands
    ts,         \* the start of its open transaction
    pending,    \* the job row its open transaction has written
    jobs,       \* generation_jobs, committed
    keyRow,     \* idempotency_keys, committed
    keyLock,    \* the transaction with an uncommitted row for a key
    lock,       \* holder of pg_advisory_xact_lock(concurrent:token)
    resp,       \* the response
    ready,      \* bodies a reusable asset exists for
    reopened    \* jobs an admin put back to queued

vars == <<now, req, pc, ts, pending, jobs, keyRow, keyLock, lock, resp, ready,
          reopened>>
dbvars == <<keyRow, keyLock, lock>>
envvars == <<now, ready, reopened>>

Live == {"queued", "running", "preview_ready"}
Request == [endpoint : Endpoints, key : Keys \cup {None}, body : Bodies,
            force : Forces]
KeyRow == [job : Requests, endpoint : Endpoints, body : Bodies, expires : Nat]
JobRow == [status : Live \cup {"completed", "failed", "cancelled"},
           key : Keys \cup {None}, body : Bodies, endpoint : Endpoints,
           code : {"none", "no_price_entry", "budget_exceeded", "enqueue_failed"},
           born : Nat, expires : Nat, reused : BOOLEAN]
Response == [kind : {"job", "denied", "conflict", "cap", "blocked",
                     "unroutable", "error"},
             job : Requests \cup {None}]

\* No row is told apart from every row.
ASSUME NoneAssumption ==
    None \notin Request /\ None \notin KeyRow /\ None \notin JobRow /\ None \notin Response

InTx == {"lock", "lookup", "count", "insert", "key", "commit"}
Steps == InTx \cup {"idle", "precheck", "gate", "plan", "begin", "cached",
                    "replay", "enqueue", "done"}

TypeOK ==
    /\ now \in 0..MaxTime
    /\ req \in [Requests -> Request \cup {None}]
    /\ pc \in [Requests -> Steps]
    /\ ts \in [Requests -> 0..MaxTime]
    /\ pending \in [Requests -> JobRow \cup {None}]
    /\ jobs \in [Requests -> JobRow \cup {None}]
    /\ keyRow \in [Keys -> KeyRow \cup {None}]
    /\ keyLock \in [Keys -> Requests \cup {None}]
    /\ lock \in Requests \cup {None}
    /\ resp \in [Requests -> Response \cup {None}]
    /\ ready \subseteq Bodies
    /\ reopened \subseteq Requests

Init ==
    /\ now = 0 /\ lock = None /\ ready = {} /\ reopened = {}
    /\ req = [r \in Requests |-> None]
    /\ pc = [r \in Requests |-> "idle"]
    /\ ts = [r \in Requests |-> 0]
    /\ pending = [r \in Requests |-> None]
    /\ jobs = [r \in Requests |-> None]
    /\ keyRow = [k \in Keys |-> None]
    /\ keyLock = [k \in Keys |-> None]
    /\ resp = [r \in Requests |-> None]

-----------------------------------------------------------------------------
(* Statements and helpers *)

Goto(r, s) == pc' = [pc EXCEPT ![r] = s]
Reply(r, kind, j) ==
    /\ resp' = [resp EXCEPT ![r] = [kind |-> kind, job |-> j]]
    /\ Goto(r, "done")

\* GetIdempotencyKey: only a row that outlives the reading transaction's start.
HasLiveRow(k, t) == keyRow[k] # None /\ keyRow[k].expires > t

\* CountLiveGenerationJobsByToken.
LiveJobs == {j \in Requests : jobs[j] # None /\ jobs[j].status \in Live}

\* replayResult: endpoint and body must match; a denied job denies again.
Replayed(r, row) ==
    LET job == jobs[row.job] IN
    IF row.endpoint # req[r].endpoint \/ row.body # req[r].body
    THEN Reply(r, "conflict", None)
    ELSE IF job.status = "failed" /\ job.code \in {"no_price_entry", "budget_exceeded"}
    THEN Reply(r, "denied", row.job)
    ELSE Reply(r, "job", row.job)

\* Mutation: pg_advisory_lock, which outlives the transaction.
EndTxKeepsLock(r) ==
    /\ lock' = lock
    /\ keyLock' = [k \in Keys |-> IF keyLock[k] = r THEN None ELSE keyLock[k]]
    /\ pending' = [pending EXCEPT ![r] = None]

\* The end of a transaction gives back the advisory lock and the key's index
\* entry, and forgets what was not committed.
EndTx(r) ==
    /\ lock' = IF lock = r THEN None ELSE lock
    /\ keyLock' = [k \in Keys |-> IF keyLock[k] = r THEN None ELSE keyLock[k]]
    /\ pending' = [pending EXCEPT ![r] = None]

\* The job row a request inserts.
NewJob(r, status) ==
    [status |-> status, key |-> req[r].key, body |-> req[r].body,
     endpoint |-> req[r].endpoint, code |-> "none",
     born |-> ts[r], expires |-> 0, reused |-> status = "completed"]

\* The row of a denied request, kept for the audit.
Denied(r, code) == [NewJob(r, "failed") EXCEPT !.code = code]

\* CreateCompletedCacheHitJob, CreateCompletedPackReuseJob: completed at once.
Reused(r) == [NewJob(r, "completed") EXCEPT !.born = now]

-----------------------------------------------------------------------------
(* The handlers *)

\* A request passes validation: /v1/generations insists on a key.
Arrive(r) ==
    /\ pc[r] = "idle"
    /\ \E in \in Request :
          /\ in.endpoint = "generation" => in.key # None /\ ~in.force
          /\ req' = [req EXCEPT ![r] = in]
          /\ Goto(r, IF in.key # None THEN "precheck" ELSE "gate")
    /\ UNCHANGED <<ts, pending, jobs, resp, dbvars, envvars>>

\* handleReplay with LookupReplay: the unlocked pre-check.
LookupReplay(r) ==
    /\ pc[r] = "precheck"
    /\ IF HasLiveRow(req[r].key, now)
       THEN Replayed(r, keyRow[req[r].key])
       ELSE Goto(r, "gate") /\ UNCHANGED resp
    /\ UNCHANGED <<req, ts, pending, jobs, dbvars, envvars>>

\* The governance gate lets the request on or answers 403.
Gate(r) ==
    /\ pc[r] = "gate"
    /\ \/ Goto(r, "plan") /\ UNCHANGED resp
       \/ Reply(r, "blocked", None)
    /\ UNCHANGED <<req, ts, pending, jobs, dbvars, envvars>>

\* Retrieval before generation: a reusable asset, unless regeneration is forced.
\* Only a request that is to generate resolves a route, and may find none.
PlanReuse(r) ==
    /\ pc[r] = "plan"
    /\ IF req[r].body \in ready /\ ~req[r].force
       THEN Goto(r, "cached") /\ UNCHANGED resp
       ELSE \/ Goto(r, "begin") /\ UNCHANGED resp
            \/ Reply(r, "unroutable", None)
    /\ UNCHANGED <<req, ts, pending, jobs, dbvars, envvars>>

-----------------------------------------------------------------------------
(* CreateAndEnqueue *)

\* BeginTx, and a read of the fallback routes of the primary's price class.
BeginCreate(r) ==
    /\ pc[r] = "begin"
    /\ ts' = [ts EXCEPT ![r] = now]
    /\ Goto(r, "lock")
    /\ UNCHANGED <<req, pending, jobs, resp, dbvars, envvars>>

\* Mutation: the lock is taken with the try variant and its answer ignored.
AcquireLockTry(r) ==
    /\ pc[r] = "lock"
    /\ lock' = r
    /\ Goto(r, IF req[r].key # None THEN "lookup" ELSE "count")
    /\ UNCHANGED <<req, ts, pending, jobs, keyRow, keyLock, resp, envvars>>

AcquireLock(r) ==
    /\ pc[r] = "lock"
    /\ lock = None
    /\ lock' = r
    /\ Goto(r, IF req[r].key # None THEN "lookup" ELSE "count")
    /\ UNCHANGED <<req, ts, pending, jobs, keyRow, keyLock, resp, envvars>>

\* Mutation: the key is looked up before the lock only.
LookupSkipped(r) ==
    /\ pc[r] = "lookup"
    /\ Goto(r, "count") /\ UNCHANGED <<lock, keyLock, pending>>
    /\ UNCHANGED <<req, ts, jobs, keyRow, resp, envvars>>

LookupUnderLock(r) ==
    /\ pc[r] = "lookup"
    /\ IF HasLiveRow(req[r].key, ts[r])
       THEN EndTx(r) /\ Goto(r, "replay")
       ELSE Goto(r, "count") /\ UNCHANGED <<lock, keyLock, pending>>
    /\ UNCHANGED <<req, ts, jobs, keyRow, resp, envvars>>

AtCap == MaxConcurrentJobs > 0 /\ Cardinality(LiveJobs) >= MaxConcurrentJobs

CountLive(r) ==
    /\ pc[r] = "count"
    /\ IF AtCap
       THEN EndTx(r) /\ Reply(r, "cap", None)
       ELSE Goto(r, "insert") /\ UNCHANGED <<lock, keyLock, pending, resp>>
    /\ UNCHANGED <<req, ts, jobs, keyRow, envvars>>

\* insertJob, Reserve and SetGenerationJobCost: the pre-flight lets the job be, or
\* denies it for want of a price or of budget.
InsertJob(r) ==
    /\ pc[r] = "insert"
    /\ \E row \in {NewJob(r, "queued"), Denied(r, "no_price_entry"), Denied(r, "budget_exceeded")} :
          pending' = [pending EXCEPT ![r] = row]
    /\ Goto(r, IF req[r].key # None THEN "key" ELSE "commit")
    /\ UNCHANGED <<req, ts, jobs, resp, dbvars, envvars>>

\* The two reuse transactions open, insert and go on to the key the same way,
\* without the advisory lock.
CreateCompleted(r) ==
    /\ pc[r] = "cached"
    /\ ts' = [ts EXCEPT ![r] = now]
    /\ pending' = [pending EXCEPT ![r] = Reused(r)]
    /\ Goto(r, IF req[r].key # None THEN "key" ELSE "commit")
    /\ UNCHANGED <<req, jobs, resp, dbvars, envvars>>

\* Mutation: the takeover forgets WHERE expires_at <= now().
InsertIdempotencyKeyTakesOver(r) ==
    /\ pc[r] = "key"
    /\ keyLock[req[r].key] = None
    /\ keyLock' = [keyLock EXCEPT ![req[r].key] = r]
    /\ pending' = [pending EXCEPT ![r].expires = now + TTL]
    /\ Goto(r, "commit")
    /\ UNCHANGED <<req, ts, jobs, keyRow, lock, resp, envvars>>

\* InsertIdempotencyKey waits for a concurrent writer of the key; then a live
\* row makes this request the loser, an expired one is taken over.
InsertIdempotencyKey(r) ==
    LET k == req[r].key IN
    /\ pc[r] = "key"
    /\ keyLock[k] = None
    /\ IF HasLiveRow(k, ts[r])
       THEN EndTx(r) /\ Goto(r, "replay")
       ELSE /\ keyLock' = [keyLock EXCEPT ![k] = r]
            /\ pending' = [pending EXCEPT ![r].expires = now + TTL]
            /\ Goto(r, "commit")
            /\ UNCHANGED lock
    /\ UNCHANGED <<req, ts, jobs, keyRow, resp, envvars>>

Commit(r) ==
    LET row == pending[r] IN
    /\ pc[r] = "commit"
    /\ jobs' = [jobs EXCEPT ![r] = row]
    /\ keyRow' = IF row.key = None THEN keyRow
                 ELSE [keyRow EXCEPT ![row.key] =
                        [job |-> r, endpoint |-> row.endpoint, body |-> row.body,
                         expires |-> row.expires]]
    /\ EndTx(r)
    /\ CASE row.status = "queued" -> Goto(r, "enqueue") /\ UNCHANGED resp
         [] row.status = "failed" -> Reply(r, "denied", r)
         [] OTHER                 -> Reply(r, "job", r)
    /\ UNCHANGED <<req, ts, envvars>>

\* A statement or the commit fails, or the process dies: the transaction is gone.
Abort(r) ==
    /\ pc[r] \in InTx
    /\ EndTx(r)
    /\ Reply(r, "error", None)
    /\ UNCHANGED <<req, ts, jobs, keyRow, envvars>>

\* replayExisting: the winner's row, unless it expired since.
ReplayExisting(r) ==
    /\ pc[r] = "replay"
    /\ IF HasLiveRow(req[r].key, now)
       THEN Replayed(r, keyRow[req[r].key])
       ELSE Reply(r, "error", None)
    /\ UNCHANGED <<req, ts, pending, jobs, dbvars, envvars>>

Enqueue(r) ==
    /\ pc[r] = "enqueue"
    /\ Reply(r, "job", r)
    /\ UNCHANGED <<req, ts, pending, jobs, dbvars, envvars>>

\* The queue is unreachable: one transaction fails the job and its pack, and
\* does nothing when the job is no longer queued.
EnqueueFails(r) ==
    /\ pc[r] = "enqueue"
    /\ jobs' = IF jobs[r].status = "queued"
               THEN [jobs EXCEPT ![r].status = "failed", ![r].code = "enqueue_failed"]
               ELSE jobs
    /\ Reply(r, "error", None)
    /\ UNCHANGED <<req, ts, pending, dbvars, envvars>>

-----------------------------------------------------------------------------
(* Around the requests *)

\* The worker or an admin ends a job; a completed one leaves a reusable asset.
JobEnds(j) ==
    /\ jobs[j] # None /\ jobs[j].status \in Live
    /\ \E s \in {"completed", "failed", "cancelled"} :
          /\ s # "cancelled" => pc[j] = "done"
          /\ jobs' = [jobs EXCEPT ![j].status = s]
          /\ ready' = IF s = "completed" THEN ready \cup {jobs[j].body} ELSE ready
    /\ UNCHANGED <<now, req, pc, ts, pending, dbvars, resp, reopened>>

\* The admin's RetryJob reopens a failed job with a reservation of its own, without
\* asking the cap.  A retry that is denied its reservation rolls back: no step.
RetryJob(j) ==
    /\ jobs[j] # None /\ jobs[j].status = "failed"
    /\ pc[j] = "done"
    /\ j \notin reopened /\ Cardinality(reopened) < MaxRetries
    /\ jobs' = [jobs EXCEPT ![j].status = "queued", ![j].code = "none"]
    /\ reopened' = reopened \cup {j}
    /\ UNCHANGED <<now, req, pc, ts, pending, dbvars, resp, ready>>

\* Time passes; a transaction is far shorter than the life of a row.
Tick ==
    /\ now < MaxTime
    /\ \A r \in Requests : pc[r] \in InTx => now + 1 - ts[r] < TTL
    /\ now' = now + 1
    /\ UNCHANGED <<req, pc, ts, pending, jobs, dbvars, resp, ready, reopened>>

RequestStep(r) ==
    \/ LookupReplay(r) \/ Gate(r) \/ PlanReuse(r) \/ BeginCreate(r)
    \/ AcquireLock(r) \/ LookupUnderLock(r) \/ CountLive(r) \/ InsertJob(r)
    \/ CreateCompleted(r) \/ InsertIdempotencyKey(r) \/ Commit(r)
    \/ ReplayExisting(r) \/ Enqueue(r) \/ EnqueueFails(r)

Next ==
    \/ \E r \in Requests : Arrive(r) \/ RequestStep(r) \/ Abort(r)
    \/ \E j \in Requests : JobEnds(j) \/ RetryJob(j)
    \/ Tick

Spec == Init /\ [][Next]_vars

\* A handler runs until it has answered.
FairSpec == Spec /\ \A r \in Requests : WF_vars(RequestStep(r))

-----------------------------------------------------------------------------
(* Properties *)

\* A key creates one job per life of its row: of two committed jobs with one
\* key, the later transaction began when the earlier row had expired.  The
\* lock, the pre-check and the conflict clause of InsertIdempotencyKey divide
\* this work between three code paths, two of which take no lock.
OneJobPerLiveKey ==
    \A i, j \in Requests :
        /\ i # j /\ jobs[i] # None /\ jobs[j] # None
        /\ jobs[i].key = jobs[j].key /\ jobs[i].key # None
        => jobs[i].expires <= jobs[j].born \/ jobs[j].expires <= jobs[i].born

\* The concurrent-job cap is hard: the jobs requests have live never exceed it,
\* however requests interleave; only an admin's retry can.
CapHeld ==
    MaxConcurrentJobs > 0 => Cardinality(LiveJobs \ reopened) <= MaxConcurrentJobs

\* Whatever path answered, the job a response names is committed and was made
\* for the same key, endpoint and body.
AnswersOwnRequest ==
    \A r \in Requests :
        resp[r] # None /\ resp[r].job # None =>
            LET job == jobs[resp[r].job] IN
            /\ job # None
            /\ job.key = req[r].key /\ job.body = req[r].body
            /\ job.endpoint = req[r].endpoint

\* The idempotency key does its work: a retried request makes no second job,
\* and is answered with the job of its own body or refused.
IdempotentCreation == OneJobPerLiveKey /\ AnswersOwnRequest

\* Every request is answered: nobody waits for ever on the advisory lock or on
\* another transaction's key, although the paths take them in different ways.
EventuallyAnswered ==
    \A r \in Requests : pc[r] # "idle" ~> resp[r] # None

\* Replay wins over the cap: no request is turned away at the cap while its key
\* has a live row that CreateAndEnqueue wrote.  The lookup before the lock may be
\* stale by then; the one under the lock has to catch it.  (The row of a
\* reused render is written without the lock and can slip in between.)
ReplayWinsOverCap ==
    [][\A r \in Requests :
          /\ resp[r] = None /\ resp'[r] # None /\ resp'[r].kind = "cap"
          /\ req[r].key # None /\ HasLiveRow(req[r].key, ts[r])
          => jobs[keyRow[req[r].key].job].reused]_vars
=============================================================================
