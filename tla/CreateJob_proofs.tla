-------------------------- MODULE CreateJob_proofs --------------------------
(***************************************************************************)
(* Proofs about module CreateJob, for any requests, keys, bodies, cap and  *)
(* lifetimes: types, then an inductive invariant in three layers.  What a  *)
(* request holds (its place, its uncommitted row, the advisory lock, its   *)
(* key's index entry), what a key's committed row says of the jobs made    *)
(* under that key, and what the holder of the advisory lock knows of the   *)
(* count.  Every step either leaves the committed rows as they are, up to  *)
(* the status of a job, or is a Commit.  The last part is about the        *)
(* limiter that stands in front of the handlers.                           *)
(***************************************************************************)
EXTENDS CreateJob, RateLimit, FiniteSetTheorems, TLAPS

-----------------------------------------------------------------------------
(* Rows *)

\* The parts of a job row that no statement changes after its insert.
SameOrigin(new, old) ==
    /\ new.key = old.key /\ new.body = old.body /\ new.endpoint = old.endpoint
    /\ new.born = old.born /\ new.expires = old.expires /\ new.reused = old.reused

\* Setting one column of a job row.
LEMMA RowUpdates ==
  /\ \A row \in JobRow : \A s \in Live \cup {"completed", "failed", "cancelled"} :
        [row EXCEPT !.status = s] \in JobRow
  /\ \A row \in JobRow :
        \A c \in {"none", "no_price_entry", "budget_exceeded", "enqueue_failed"} :
        [row EXCEPT !.code = c] \in JobRow
  /\ \A row \in JobRow : \A n \in Nat : [row EXCEPT !.born = n] \in JobRow
  /\ \A row \in JobRow : \A n \in Nat : [row EXCEPT !.expires = n] \in JobRow
<1>1. \A row \in JobRow : \A s \in Live \cup {"completed", "failed", "cancelled"} :
        [row EXCEPT !.status = s] \in JobRow
  BY DEF JobRow
<1>2. \A row \in JobRow :
        \A c \in {"none", "no_price_entry", "budget_exceeded", "enqueue_failed"} :
        [row EXCEPT !.code = c] \in JobRow
  BY DEF JobRow
<1>3. \A row \in JobRow : \A n \in Nat : [row EXCEPT !.born = n] \in JobRow
  BY DEF JobRow
<1>4. \A row \in JobRow : \A n \in Nat : [row EXCEPT !.expires = n] \in JobRow
  BY DEF JobRow
<1> QED BY <1>1, <1>2, <1>3, <1>4

\* The row a request inserts is a job row with the columns it was given.
LEMMA NewJobRow ==
  ASSUME TypeOK, NEW r \in Requests, req[r] # None,
         NEW s \in {"queued", "failed", "completed"}
  PROVE  /\ NewJob(r, s) \in JobRow
         /\ NewJob(r, s).status = s /\ NewJob(r, s).key = req[r].key
         /\ NewJob(r, s).body = req[r].body
         /\ NewJob(r, s).endpoint = req[r].endpoint
         /\ NewJob(r, s).born = ts[r]
         /\ NewJob(r, s).reused = (s = "completed")
<1>1. req[r] \in Request /\ ts[r] \in Nat
  BY CreateAssumption DEF TypeOK
<1>2. req[r].key \in Keys \cup {None} /\ req[r].body \in Bodies
      /\ req[r].endpoint \in Endpoints
  BY <1>1 DEF Request
<1>3. s \in Live \cup {"completed", "failed", "cancelled"}
  BY DEF Live
<1>4. NewJob(r, s) \in JobRow
  BY <1>1, <1>2, <1>3 DEF NewJob, JobRow
<1> QED BY <1>4 DEF NewJob

\* The row was made for request r.
OfRequest(row, r) ==
    row.key = req[r].key /\ row.body = req[r].body /\ row.endpoint = req[r].endpoint

\* The rows InsertJob may write: an accepted or a denied one.
LEMMA InsertedRow ==
  ASSUME TypeOK, NEW r \in Requests, req[r] # None,
         NEW row \in {NewJob(r, "queued"), Denied(r, "no_price_entry"), Denied(r, "budget_exceeded")}
  PROVE  /\ row \in JobRow /\ OfRequest(row, r)
         /\ row.born = ts[r] /\ ~row.reused /\ row.status \in {"queued", "failed"}
<1> DEFINE q == NewJob(r, "queued")
           f == NewJob(r, "failed")
<1>1. /\ q \in JobRow /\ f \in JobRow
      /\ q.key = req[r].key /\ q.body = req[r].body /\ q.endpoint = req[r].endpoint
      /\ q.born = ts[r] /\ q.reused = FALSE /\ q.status = "queued"
      /\ f.key = req[r].key /\ f.body = req[r].body /\ f.endpoint = req[r].endpoint
      /\ f.born = ts[r] /\ f.reused = FALSE /\ f.status = "failed"
  BY NewJobRow
<1>2. CASE row = q
  <2> HIDE DEF q
  <2> QED BY <1>1, <1>2 DEF OfRequest
<1>3. ASSUME NEW c \in {"no_price_entry", "budget_exceeded"}, row = Denied(r, c)
      PROVE  /\ row \in JobRow /\ OfRequest(row, r)
             /\ row.born = ts[r] /\ ~row.reused /\ row.status \in {"queued", "failed"}
  <2> HIDE DEF q, f
  <2> DEFINE a == [f EXCEPT !.code = c]
  <2>1. a \in JobRow BY <1>1, RowUpdates
  <2>2. /\ a.key = f.key /\ a.body = f.body /\ a.endpoint = f.endpoint
        /\ a.born = f.born /\ a.reused = f.reused /\ a.status = f.status
    BY <1>1 DEF JobRow
  <2>3. row = a BY <1>3 DEF Denied, f
  <2> HIDE DEF a
  <2> QED BY <1>1, <2>1, <2>2, <2>3 DEF OfRequest
<1> QED BY <1>2, <1>3

\* The row of a reused render.
LEMMA ReusedRow ==
  ASSUME TypeOK, NEW r \in Requests, req[r] # None
  PROVE  /\ Reused(r) \in JobRow /\ OfRequest(Reused(r), r)
         /\ Reused(r).born = now /\ Reused(r).reused /\ Reused(r).status = "completed"
<1> DEFINE q == NewJob(r, "completed")
           a == [q EXCEPT !.born = now]
<1>0. now \in Nat
  BY CreateAssumption DEF TypeOK
<1>1. /\ q \in JobRow /\ now \in Nat
      /\ q.key = req[r].key /\ q.body = req[r].body /\ q.endpoint = req[r].endpoint
      /\ q.reused = TRUE /\ q.status = "completed"
  BY <1>0, NewJobRow
<1>2. Reused(r) = a
  BY DEF Reused
<1> HIDE DEF q
<1>3. a \in JobRow BY <1>1, RowUpdates
<1>4. /\ a.key = q.key /\ a.body = q.body /\ a.endpoint = q.endpoint
      /\ a.born = now /\ a.reused = q.reused /\ a.status = q.status
  BY <1>1 DEF JobRow
<1> HIDE DEF a
<1> QED BY <1>1, <1>2, <1>3, <1>4 DEF OfRequest

-----------------------------------------------------------------------------
(* Effects of the steps *)

\* An answer is well formed, and only the answering request's state changes.
LEMMA ReplyEffect ==
  ASSUME TypeOK, NEW r \in Requests, NEW j \in Requests \cup {None},
         NEW kind \in {"job", "denied", "conflict", "cap", "blocked",
                       "unroutable", "error"},
         Reply(r, kind, j)
  PROVE  /\ resp' \in [Requests -> Response \cup {None}]
         /\ resp'[r] # None /\ resp'[r].job = j /\ resp'[r].kind = kind
         /\ pc' \in [Requests -> Steps] /\ pc'[r] = "done"
         /\ \A q \in Requests : q # r => resp'[q] = resp[q] /\ pc'[q] = pc[q]
<1> DEFINE a == [kind |-> kind, job |-> j]
<1>1. a \in Response /\ a.job = j /\ a.kind = kind
  BY DEF Response
<1>2. a # None
  BY <1>1, NoneAssumption
<1>3. resp' = [resp EXCEPT ![r] = a] /\ pc' = [pc EXCEPT ![r] = "done"]
  BY DEF Reply, Goto
<1> HIDE DEF a
<1> QED BY <1>1, <1>2, <1>3 DEF TypeOK, Steps

\* A move of the handler changes only its own place.
LEMMA GotoEffect ==
  ASSUME TypeOK, NEW r \in Requests, NEW s \in Steps, Goto(r, s)
  PROVE  /\ pc' \in [Requests -> Steps] /\ pc'[r] = s
         /\ \A q \in Requests : q # r => pc'[q] = pc[q]
BY DEF TypeOK, Goto

\* A transaction that ends gives back what it held and nothing else.
LEMMA EndTxEffect ==
  ASSUME TypeOK, NEW r \in Requests, EndTx(r)
  PROVE  /\ lock' \in Requests \cup {None} /\ lock' # r
         /\ keyLock' \in [Keys -> Requests \cup {None}]
         /\ \A k \in Keys : keyLock'[k] # r
         /\ pending' \in [Requests -> JobRow \cup {None}] /\ pending'[r] = None
         /\ \A q \in Requests : q # r =>
               /\ lock' = q <=> lock = q
               /\ pending'[q] = pending[q]
               /\ \A k \in Keys : keyLock'[k] = q <=> keyLock[k] = q
BY CreateAssumption DEF TypeOK, EndTx

\* The key row read is a row of the table, and its job is a job name.
LEMMA RowRead ==
  ASSUME TypeOK, NEW k \in Keys, keyRow[k] # None
  PROVE  /\ keyRow[k] \in KeyRow /\ keyRow[k].job \in Requests
         /\ keyRow[k].expires \in Nat
BY DEF TypeOK, KeyRow

\* A request that has come in has a key or none.
LEMMA RequestRead ==
  ASSUME TypeOK, NEW r \in Requests, req[r] # None
  PROVE  /\ req[r] \in Request /\ req[r].key \in Keys \cup {None}
         /\ req[r].body \in Bodies /\ req[r].endpoint \in Endpoints
BY DEF TypeOK, Request

\* A replay answers with a conflict, or with the row's job when endpoint and
\* body are the request's own.
LEMMA ReplayedEffect ==
  ASSUME TypeOK, NEW r \in Requests, NEW row \in KeyRow, Replayed(r, row)
  PROVE  /\ resp' \in [Requests -> Response \cup {None}]
         /\ resp'[r] # None /\ resp'[r].kind \in {"job", "denied", "conflict"}
         /\ \/ resp'[r].job = None
            \/ /\ resp'[r].job = row.job
               /\ row.endpoint = req[r].endpoint /\ row.body = req[r].body
         /\ pc' \in [Requests -> Steps] /\ pc'[r] = "done"
         /\ \A q \in Requests : q # r => resp'[q] = resp[q] /\ pc'[q] = pc[q]
<1>1. row.job \in Requests
  BY DEF KeyRow
<1>2. CASE row.endpoint # req[r].endpoint \/ row.body # req[r].body
  <2>1. Reply(r, "conflict", None)
    BY <1>2 DEF Replayed
  <2> QED BY <2>1, ReplyEffect
<1>3. CASE ~(row.endpoint # req[r].endpoint \/ row.body # req[r].body)
  <2>1. Reply(r, "denied", row.job) \/ Reply(r, "job", row.job)
    BY <1>3 DEF Replayed
  <2> QED BY <1>1, <1>3, <2>1, ReplyEffect
<1> QED BY <1>2, <1>3

-----------------------------------------------------------------------------
(* The inductive invariant *)

\* What the place of a request says of its row, its answer and its job.
Placed(r) ==
    /\ pc[r] = "idle" => resp[r] = None /\ jobs[r] = None
    /\ pc[r] # "idle" => req[r] # None
    /\ pc[r] \in {"precheck", "lookup", "key", "replay"} => req[r].key # None
    /\ resp[r] # None => pc[r] = "done"
    /\ pending[r] # None <=> pc[r] \in {"key", "commit"}
    /\ jobs[r] # None => pc[r] \in {"enqueue", "done"}
    /\ pc[r] = "enqueue" => jobs[r] # None

\* An uncommitted row was made for its request in this transaction; only a
\* reused render's is written without the advisory lock.
Fresh(r) ==
    pending[r] # None =>
        /\ OfRequest(pending[r], r)
        /\ pending[r].born = ts[r]
        /\ pending[r].reused \/ lock = r
        /\ pending[r].status \in Live => lock = r

\* So was the committed one.
Made(r) == jobs[r] # None => OfRequest(jobs[r], r)

\* The lock is held from its acquisition to the insert, an index entry between
\* the insert of the key and the commit, and now() is never in the future.
LockKept(r) ==
    /\ pc[r] \in {"lookup", "count", "insert"} => lock = r
    /\ lock = r => pc[r] \in {"lookup", "count", "insert", "key", "commit"}
KeysKept(r) ==
    \A k \in Keys : keyLock[k] = r <=> (pc[r] = "commit" /\ req[r].key = k)
Past(r) == ts[r] <= now

\* Whoever is about to commit a key found no live row under it.
Winner(r) ==
    pc[r] = "commit" /\ req[r].key # None =>
        /\ pending[r].born <= pending[r].expires
        /\ keyRow[req[r].key] # None => keyRow[req[r].key].expires <= pending[r].born

\* An answer names a committed job of the request's key, body and endpoint.
Answered(r) ==
    resp[r] # None /\ resp[r].job # None =>
        jobs[resp[r].job] # None /\ OfRequest(jobs[resp[r].job], r)

\* Who holds the lock and has counted has a free slot for its job.
Slot(r) ==
    lock = r /\ pc[r] \in {"insert", "key", "commit"} /\ MaxConcurrentJobs > 0 =>
        Cardinality(LiveJobs \ reopened) < MaxConcurrentJobs

\* A live row that appeared since the lookup under the lock is a reused one's.
Counting(r) ==
    pc[r] = "count" /\ req[r].key # None /\ HasLiveRow(req[r].key, ts[r]) =>
        jobs[keyRow[req[r].key].job].reused

Mine(r) ==
    /\ Placed(r) /\ Fresh(r) /\ Made(r) /\ LockKept(r) /\ KeysKept(r) /\ Past(r)
    /\ Winner(r) /\ Answered(r) /\ Slot(r) /\ Counting(r)

\* A key's row describes a job made under the key.
KeyRowRight(k) ==
    keyRow[k] # None =>
        LET job == jobs[keyRow[k].job] IN
        /\ job # None /\ job.key = k /\ job.body = keyRow[k].body
        /\ job.endpoint = keyRow[k].endpoint /\ job.expires = keyRow[k].expires

\* It is the latest: every other job of the key had expired when it was made.
Latest(k) ==
    \A j \in Requests : jobs[j] # None /\ jobs[j].key = k =>
        /\ keyRow[k] # None
        /\ jobs[j].born <= jobs[j].expires
        /\ j = keyRow[k].job \/ jobs[j].expires <= jobs[keyRow[k].job].born

CreateInv ==
    /\ TypeOK /\ CapHeld /\ OneJobPerLiveKey
    /\ \A r \in Requests : Mine(r)
    /\ \A k \in Keys : KeyRowRight(k) /\ Latest(k)

-----------------------------------------------------------------------------
(* Steps that leave the committed rows alone *)

\* Nothing of request q's own changes.
Untouched(q) ==
    /\ req'[q] = req[q] /\ pc'[q] = pc[q] /\ ts'[q] = ts[q]
    /\ pending'[q] = pending[q] /\ resp'[q] = resp[q]
    /\ lock' = q <=> lock = q
    /\ \A k \in Keys : keyLock'[k] = q <=> keyLock[k] = q

\* The job row stays, up to its status and its error.
Kept(j) ==
    /\ jobs[j] = None => jobs'[j] = None
    /\ jobs[j] # None => jobs'[j] # None /\ SameOrigin(jobs'[j], jobs[j])

\* No row appears, and no job starts to count against the cap.
Quiet ==
    /\ keyRow' = keyRow /\ now <= now'
    /\ \A j \in Requests : Kept(j)
    /\ LiveJobs' \ reopened' \subseteq LiveJobs \ reopened

\* A step of request r that is not its commit.
Moves(r) ==
    /\ TypeOK' /\ Mine(r)' /\ Quiet
    /\ \A q \in Requests : q # r => Untouched(q)

\* Steps that do not write the tables are quiet.
LEMMA StillQuiet ==
  ASSUME TypeOK, UNCHANGED <<jobs, keyRow, now, reopened>>
  PROVE  Quiet /\ LiveJobs' = LiveJobs
<1>1. LiveJobs' = LiveJobs
  BY DEF LiveJobs
<1>2. now <= now'
  BY CreateAssumption DEF TypeOK
<1> QED BY <1>1, <1>2 DEF Quiet, Kept, SameOrigin

\* The live jobs are finitely many.
LEMMA LiveFinite ==
  ASSUME NEW S, S \subseteq LiveJobs
  PROVE  IsFiniteSet(S) /\ Cardinality(S) \in Nat
<1>1. S \subseteq Requests BY DEF LiveJobs
<1>2. IsFiniteSet(S) BY <1>1, CreateAssumption, FS_Subset
<1> QED BY <1>2, FS_CardinalityType

\* A quiet step does not raise the count.
LEMMA QuietCount ==
  ASSUME TypeOK, Quiet
  PROVE  /\ Cardinality(LiveJobs \ reopened) \in Nat
         /\ Cardinality(LiveJobs' \ reopened') \in Nat
         /\ Cardinality(LiveJobs' \ reopened') <= Cardinality(LiveJobs \ reopened)
<1>1. IsFiniteSet(LiveJobs \ reopened) /\ Cardinality(LiveJobs \ reopened) \in Nat
  BY LiveFinite
<1>2. LiveJobs' \ reopened' \subseteq LiveJobs \ reopened
  BY DEF Quiet
<1> HIDE DEF LiveJobs
<1>3. ASSUME NEW S, S = LiveJobs \ reopened, NEW T, T = LiveJobs' \ reopened'
      PROVE  Cardinality(T) \in Nat /\ Cardinality(T) <= Cardinality(S)
  BY <1>1, <1>2, <1>3, FS_Subset, FS_CardinalityType
<1> QED BY <1>1, <1>3

\* A request that nothing touches keeps what it has through a quiet step.
LEMMA UntouchedKeeps ==
  ASSUME TypeOK, TypeOK', Quiet, \A k \in Keys : KeyRowRight(k),
         NEW q \in Requests, Mine(q), Untouched(q)
  PROVE  Mine(q)'
<1>1. Kept(q)
  BY DEF Quiet
<1>2. Placed(q)'
  BY <1>1 DEF Mine, Placed, Untouched, Kept
<1>3. Fresh(q)'
  BY DEF Mine, Fresh, Untouched, OfRequest
<1>4. Made(q)'
  BY <1>1 DEF Mine, Made, Untouched, Kept, SameOrigin, OfRequest
<1>5. LockKept(q)' /\ KeysKept(q)'
  BY DEF Mine, LockKept, KeysKept, Untouched
<1>6. Past(q)'
  BY CreateAssumption DEF Mine, Past, Untouched, Quiet, TypeOK
<1>7. Winner(q)'
  BY DEF Mine, Winner, Untouched, Quiet
<1>8. Answered(q)'
  <2>1. SUFFICES ASSUME resp'[q] # None, resp'[q].job # None
                 PROVE  /\ jobs'[resp'[q].job] # None
                        /\ OfRequest(jobs[resp[q].job], q)'
    BY DEF Answered
  <2>2. resp'[q] = resp[q] /\ req'[q] = req[q]
    BY DEF Untouched
  <2>3. resp[q].job \in Requests
    BY <2>1, <2>2 DEF TypeOK, Response
  <2>4. jobs[resp[q].job] # None /\ OfRequest(jobs[resp[q].job], q)
    BY <2>1, <2>2 DEF Mine, Answered
  <2>5. jobs'[resp[q].job] # None /\ SameOrigin(jobs'[resp[q].job], jobs[resp[q].job])
    BY <2>3, <2>4 DEF Quiet, Kept
  <2> QED BY <2>2, <2>4, <2>5 DEF OfRequest, SameOrigin
<1>9. Slot(q)'
  <2>1. SUFFICES ASSUME lock' = q, pc'[q] \in {"insert", "key", "commit"},
                        MaxConcurrentJobs > 0
                 PROVE  Cardinality(LiveJobs' \ reopened') < MaxConcurrentJobs
    BY DEF Slot
  <2>2. Cardinality(LiveJobs \ reopened) < MaxConcurrentJobs
    BY <2>1 DEF Mine, Slot, Untouched
  <2> QED BY <2>2, QuietCount, CreateAssumption
<1>10. Counting(q)'
  <2>1. SUFFICES ASSUME pc'[q] = "count", req'[q].key # None,
                        HasLiveRow(req[q].key, ts[q])'
                 PROVE  jobs'[keyRow'[req'[q].key].job].reused
    BY DEF Counting
  <2>2. req'[q] = req[q] /\ ts'[q] = ts[q] /\ pc'[q] = pc[q] /\ keyRow' = keyRow
    BY DEF Untouched, Quiet
  <2>3. HasLiveRow(req[q].key, ts[q])
    BY <2>1, <2>2 DEF HasLiveRow
  <2> DEFINE j == keyRow[req[q].key].job
  <2>4. req[q] # None
    BY <2>1, <2>2 DEF Mine, Placed
  <2>5. req[q].key \in Keys
    BY <2>1, <2>2, <2>4, RequestRead
  <2>6. j \in Requests
    BY <2>3, <2>5, RowRead DEF HasLiveRow
  <2>7. jobs[j].reused
    BY <2>1, <2>2, <2>3 DEF Mine, Counting
  <2>8. jobs[j] # None
    BY <2>3, <2>5 DEF KeyRowRight, HasLiveRow
  <2>9. SameOrigin(jobs'[j], jobs[j])
    BY <2>6, <2>8 DEF Quiet, Kept
  <2> QED BY <2>2, <2>7, <2>9 DEF SameOrigin
<1> QED BY <1>2, <1>3, <1>4, <1>5, <1>6, <1>7, <1>8, <1>9, <1>10 DEF Mine

\* A quiet step keeps what the key rows say, and the cap.
LEMMA QuietRows ==
  ASSUME TypeOK, Quiet, CapHeld, \A k \in Keys : KeyRowRight(k) /\ Latest(k)
  PROVE  CapHeld' /\ \A k \in Keys : KeyRowRight(k)' /\ Latest(k)'
<1>1. CapHeld'
  BY QuietCount, CreateAssumption DEF CapHeld
<1>2. ASSUME NEW k \in Keys
      PROVE  KeyRowRight(k)'
  <2>1. SUFFICES ASSUME keyRow[k] # None
                 PROVE  LET job == jobs'[keyRow[k].job] IN
                        /\ job # None /\ job.key = k /\ job.body = keyRow[k].body
                        /\ job.endpoint = keyRow[k].endpoint
                        /\ job.expires = keyRow[k].expires
    BY DEF KeyRowRight, Quiet
  <2>2. keyRow[k].job \in Requests /\ jobs[keyRow[k].job] # None
    BY <2>1, RowRead DEF KeyRowRight
  <2>3. Kept(keyRow[k].job)
    BY <2>2 DEF Quiet
  <2> QED BY <2>1, <2>2, <2>3 DEF Kept, SameOrigin, KeyRowRight
<1>3. ASSUME NEW k \in Keys
      PROVE  Latest(k)'
  <2>1. SUFFICES ASSUME NEW j \in Requests, jobs'[j] # None, jobs'[j].key = k
                 PROVE  /\ keyRow[k] # None
                        /\ jobs'[j].born <= jobs'[j].expires
                        /\ \/ j = keyRow[k].job
                           \/ jobs'[j].expires <= jobs'[keyRow[k].job].born
    BY DEF Latest, Quiet
  <2>2. jobs[j] # None /\ SameOrigin(jobs'[j], jobs[j])
    BY <2>1 DEF Quiet, Kept
  <2>3. /\ keyRow[k] # None /\ jobs[j].born <= jobs[j].expires
        /\ j = keyRow[k].job \/ jobs[j].expires <= jobs[keyRow[k].job].born
    BY <2>1, <2>2 DEF Latest, SameOrigin
  <2>4. keyRow[k].job \in Requests /\ jobs[keyRow[k].job] # None
    BY <2>3, RowRead DEF KeyRowRight
  <2>5. SameOrigin(jobs'[keyRow[k].job], jobs[keyRow[k].job])
    BY <2>4 DEF Quiet, Kept
  <2> QED BY <2>2, <2>3, <2>5 DEF SameOrigin
<1> QED BY <1>1, <1>2, <1>3

\* Nor does it make a second job under a live key.
LEMMA QuietKeys ==
  ASSUME Quiet, OneJobPerLiveKey
  PROVE  OneJobPerLiveKey'
<1>1. SUFFICES ASSUME NEW i \in Requests, NEW j \in Requests, i # j,
                      jobs'[i] # None, jobs'[j] # None,
                      jobs'[i].key = jobs'[j].key, jobs'[i].key # None
               PROVE  \/ jobs'[i].expires <= jobs'[j].born
                      \/ jobs'[j].expires <= jobs'[i].born
  BY DEF OneJobPerLiveKey
<1>2. /\ jobs[i] # None /\ SameOrigin(jobs'[i], jobs[i])
      /\ jobs[j] # None /\ SameOrigin(jobs'[j], jobs[j])
  BY <1>1 DEF Quiet, Kept
<1>3. jobs[i].expires <= jobs[j].born \/ jobs[j].expires <= jobs[i].born
  BY <1>1, <1>2 DEF OneJobPerLiveKey, SameOrigin
<1> QED BY <1>2, <1>3 DEF SameOrigin

-----------------------------------------------------------------------------
(* The handlers, one by one.  A request in one of the places outside a       *)
(* transaction holds nothing: then most of the invariant is vacuous.         *)

\* A step after which the request is outside its transaction.
LEMMA OutsideTx ==
  ASSUME TypeOK', NEW r \in Requests, Placed(r)', Made(r)', Past(r)', Answered(r)',
         pending'[r] = None,
         pc'[r] \notin {"lookup", "count", "insert", "key", "commit"},
         \A k \in Keys : keyLock'[k] # r, lock' # r
  PROVE  Mine(r)'
<1>1. Fresh(r)' /\ LockKept(r)' /\ Winner(r)' /\ Slot(r)' /\ Counting(r)'
  BY DEF Fresh, LockKept, Winner, Slot, Counting
<1>2. KeysKept(r)'
  BY DEF KeysKept
<1> QED BY <1>1, <1>2 DEF Mine

\* The request's own job does not change.
LEMMA MadeKept ==
  ASSUME NEW r \in Requests, Made(r), jobs'[r] = jobs[r], req'[r] = req[r]
  PROVE  Made(r)'
BY DEF Made, OfRequest

\* An answer with a key's row as it stands is about the request's own key.
LEMMA ReplayAnswers ==
  ASSUME TypeOK, NEW r \in Requests, req[r] # None, req[r].key # None,
         \A k \in Keys : KeyRowRight(k),
         keyRow[req[r].key] # None, Replayed(r, keyRow[req[r].key]),
         UNCHANGED <<jobs, req>>
  PROVE  Answered(r)'
<1> DEFINE row == keyRow[req[r].key]
<1>1. req[r].key \in Keys
  BY RequestRead
<1>2. row \in KeyRow
  BY <1>1, RowRead
<1>3. \/ resp'[r].job = None
      \/ /\ resp'[r].job = row.job
         /\ row.endpoint = req[r].endpoint /\ row.body = req[r].body
  BY <1>2, ReplayedEffect
<1>4. /\ jobs[row.job] # None /\ jobs[row.job].key = req[r].key
      /\ jobs[row.job].body = row.body /\ jobs[row.job].endpoint = row.endpoint
  BY <1>1 DEF KeyRowRight
<1> QED BY <1>3, <1>4 DEF Answered, OfRequest

\* A request comes in.
LEMMA ArriveMoves ==
  ASSUME TypeOK, NEW r \in Requests, Mine(r), Arrive(r)
  PROVE  Moves(r)
<1>1. PICK in \in Request :
        /\ req' = [req EXCEPT ![r] = in]
        /\ Goto(r, IF in.key # None THEN "precheck" ELSE "gate")
  BY DEF Arrive
<1>2. pc[r] = "idle" /\ UNCHANGED <<ts, pending, jobs, resp, keyRow, keyLock, lock,
                                     now, ready, reopened>>
  BY DEF Arrive, dbvars, envvars
<1>3. /\ pc' \in [Requests -> Steps] /\ pc'[r] \in {"precheck", "gate"}
      /\ pc'[r] = "precheck" => in.key # None
      /\ \A q \in Requests : q # r => pc'[q] = pc[q]
  BY <1>1, GotoEffect DEF Steps
<1>4. /\ req' \in [Requests -> Request \cup {None}] /\ req'[r] = in
      /\ \A q \in Requests : q # r => req'[q] = req[q]
  BY <1>1 DEF TypeOK
<1>5. in # None
  BY NoneAssumption
<1>6. TypeOK'
  BY <1>2, <1>3, <1>4 DEF TypeOK
<1>7. Quiet
  BY <1>2, StillQuiet
<1>8. \A q \in Requests : q # r => Untouched(q)
  BY <1>2, <1>3, <1>4 DEF Untouched
<1>9. Placed(r) /\ jobs[r] = None /\ pending[r] = None /\ resp[r] = None
  BY <1>2 DEF Mine, Placed
<1>10. Placed(r)' /\ Made(r)' /\ Past(r)' /\ Answered(r)'
  BY <1>2, <1>3, <1>4, <1>5, <1>9 DEF Mine, Placed, Made, Past, Answered
<1>11. lock' # r /\ \A k \in Keys : keyLock'[k] # r
  BY <1>2 DEF Mine, KeysKept, LockKept
<1> QED BY <1>2, <1>3, <1>6, <1>7, <1>8, <1>9, <1>10, <1>11, OutsideTx DEF Moves

\* The handler's place and answer after a step of request r.
Stands(r) ==
    /\ resp' \in [Requests -> Response \cup {None}] /\ pc' \in [Requests -> Steps]
    /\ \A q \in Requests : q # r => resp'[q] = resp[q] /\ pc'[q] = pc[q]

\* A step outside a transaction goes on or answers, and writes no table.
LEMMA HandlerMoves ==
  ASSUME TypeOK, NEW r \in Requests, Mine(r),
         pc[r] \in {"precheck", "gate", "plan", "replay", "enqueue"},
         UNCHANGED <<req, ts, pending, jobs, keyRow, keyLock, lock, now, ready, reopened>>,
         Stands(r),
         \/ /\ pc'[r] \in {"gate", "plan", "cached", "begin"} /\ resp'[r] = resp[r]
            /\ pc[r] # "enqueue"
         \/ pc'[r] = "done" /\ resp'[r] # None /\ Answered(r)'
  PROVE  Moves(r)
<1>1. TypeOK'
  BY DEF TypeOK, Stands
<1>2. Quiet
  BY StillQuiet
<1>3. \A q \in Requests : q # r => Untouched(q)
  BY DEF Untouched, Stands
<1>4. /\ pending[r] = None /\ resp[r] = None /\ req[r] # None
      /\ pc[r] # "enqueue" => jobs[r] = None
  BY DEF Mine, Placed
<1>5. Placed(r)'
  BY <1>4 DEF Placed
<1>6. Made(r)'
  BY MadeKept DEF Mine
<1>7. Past(r)' /\ Answered(r)'
  BY <1>4 DEF Mine, Past, Answered
<1>8. lock' # r /\ \A k \in Keys : keyLock'[k] # r
  BY DEF Mine, KeysKept, LockKept
<1> QED BY <1>1, <1>2, <1>3, <1>4, <1>5, <1>6, <1>7, <1>8, OutsideTx DEF Moves

\* The unlocked pre-check.
LEMMA LookupReplayMoves ==
  ASSUME TypeOK, NEW r \in Requests, Mine(r), \A k \in Keys : KeyRowRight(k),
         LookupReplay(r)
  PROVE  Moves(r)
<1>1. pc[r] = "precheck"
      /\ UNCHANGED <<req, ts, pending, jobs, keyRow, keyLock, lock, now, ready, reopened>>
  BY DEF LookupReplay, dbvars, envvars
<1>2. req[r] # None /\ req[r].key # None
  BY <1>1 DEF Mine, Placed
<1>3. CASE HasLiveRow(req[r].key, now)
  <2>1. keyRow[req[r].key] # None /\ Replayed(r, keyRow[req[r].key])
    BY <1>3 DEF LookupReplay, HasLiveRow
  <2>2. keyRow[req[r].key] \in KeyRow
    BY <1>2, <2>1, RequestRead, RowRead
  <2>3. Stands(r) /\ pc'[r] = "done" /\ resp'[r] # None
    BY <2>1, <2>2, ReplayedEffect DEF Stands
  <2>4. Answered(r)'
    BY <1>1, <1>2, <2>1, ReplayAnswers
  <2> QED BY <1>1, <2>3, <2>4, HandlerMoves
<1>4. CASE ~HasLiveRow(req[r].key, now)
  <2>1. Goto(r, "gate") /\ UNCHANGED resp
    BY <1>4 DEF LookupReplay
  <2>2. Stands(r) /\ pc'[r] = "gate"
    BY <2>1, GotoEffect DEF Stands, Steps, TypeOK
  <2> QED BY <1>1, <2>1, <2>2, HandlerMoves
<1> QED BY <1>3, <1>4

\* The replay after losing the key.
LEMMA ReplayExistingMoves ==
  ASSUME TypeOK, NEW r \in Requests, Mine(r), \A k \in Keys : KeyRowRight(k),
         ReplayExisting(r)
  PROVE  Moves(r)
<1>1. pc[r] = "replay"
      /\ UNCHANGED <<req, ts, pending, jobs, keyRow, keyLock, lock, now, ready, reopened>>
  BY DEF ReplayExisting, dbvars, envvars
<1>2. req[r] # None /\ req[r].key # None
  BY <1>1 DEF Mine, Placed
<1>3. CASE HasLiveRow(req[r].key, now)
  <2>1. keyRow[req[r].key] # None /\ Replayed(r, keyRow[req[r].key])
    BY <1>3 DEF ReplayExisting, HasLiveRow
  <2>2. keyRow[req[r].key] \in KeyRow
    BY <1>2, <2>1, RequestRead, RowRead
  <2>3. Stands(r) /\ pc'[r] = "done" /\ resp'[r] # None
    BY <2>1, <2>2, ReplayedEffect DEF Stands
  <2>4. Answered(r)'
    BY <1>1, <1>2, <2>1, ReplayAnswers
  <2> QED BY <1>1, <2>3, <2>4, HandlerMoves
<1>4. CASE ~HasLiveRow(req[r].key, now)
  <2>1. Reply(r, "error", None)
    BY <1>4 DEF ReplayExisting
  <2>2. Stands(r) /\ pc'[r] = "done" /\ resp'[r] # None /\ resp'[r].job = None
    BY <2>1, ReplyEffect DEF Stands
  <2>3. Answered(r)'
    BY <2>2 DEF Answered
  <2> QED BY <1>1, <2>2, <2>3, HandlerMoves
<1> QED BY <1>3, <1>4

\* The gate and the reuse plan.
LEMMA GateAndPlanMove ==
  ASSUME TypeOK, NEW r \in Requests, Mine(r), Gate(r) \/ PlanReuse(r)
  PROVE  Moves(r)
<1>1. pc[r] \in {"gate", "plan"}
      /\ UNCHANGED <<req, ts, pending, jobs, keyRow, keyLock, lock, now, ready, reopened>>
  BY DEF Gate, PlanReuse, dbvars, envvars
<1>2. \/ \E s \in {"plan", "cached", "begin"} : Goto(r, s) /\ UNCHANGED resp
      \/ \E kind \in {"blocked", "unroutable"} : Reply(r, kind, None)
  BY DEF Gate, PlanReuse
<1>3. ASSUME NEW s \in {"plan", "cached", "begin"}, Goto(r, s), UNCHANGED resp
      PROVE  Moves(r)
  <2>1. Stands(r) /\ pc'[r] \in {"plan", "cached", "begin"}
    BY <1>3, GotoEffect DEF Stands, Steps, TypeOK
  <2> QED BY <1>1, <1>3, <2>1, HandlerMoves
<1>4. ASSUME NEW kind \in {"blocked", "unroutable"}, Reply(r, kind, None)
      PROVE  Moves(r)
  <2>1. Stands(r) /\ pc'[r] = "done" /\ resp'[r] # None /\ resp'[r].job = None
    BY <1>4, ReplyEffect DEF Stands
  <2>2. Answered(r)'
    BY <2>1 DEF Answered
  <2> QED BY <1>1, <2>1, <2>2, HandlerMoves
<1> QED BY <1>2, <1>3, <1>4

\* The task reaches the queue.
LEMMA EnqueueMoves ==
  ASSUME TypeOK, NEW r \in Requests, Mine(r), Enqueue(r)
  PROVE  Moves(r)
<1>1. pc[r] = "enqueue" /\ Reply(r, "job", r)
      /\ UNCHANGED <<req, ts, pending, jobs, keyRow, keyLock, lock, now, ready, reopened>>
  BY DEF Enqueue, dbvars, envvars
<1>2. Stands(r) /\ pc'[r] = "done" /\ resp'[r] # None /\ resp'[r].job = r
  BY <1>1, ReplyEffect DEF Stands
<1>3. jobs[r] # None /\ OfRequest(jobs[r], r)
  BY <1>1 DEF Mine, Placed, Made
<1>4. Answered(r)'
  BY <1>1, <1>2, <1>3 DEF Answered, OfRequest
<1> QED BY <1>1, <1>2, <1>4, HandlerMoves

\* A transaction that ends without a commit.
LEMMA EndsMove ==
  ASSUME TypeOK, NEW r \in Requests, Mine(r), pc[r] \in InTx, EndTx(r),
         UNCHANGED <<req, ts, jobs, keyRow, now, ready, reopened>>, Stands(r),
         \/ pc'[r] = "replay" /\ req[r].key # None /\ resp'[r] = resp[r]
         \/ pc'[r] = "done" /\ resp'[r] # None /\ resp'[r].job = None
  PROVE  Moves(r)
<1>1. TypeOK'
  BY EndTxEffect DEF TypeOK, Stands
<1>2. Quiet
  BY StillQuiet
<1>3. \A q \in Requests : q # r => Untouched(q)
  BY EndTxEffect DEF Untouched, Stands
<1>4. pending'[r] = None /\ lock' # r /\ \A k \in Keys : keyLock'[k] # r
  BY EndTxEffect
<1>5. resp[r] = None /\ req[r] # None /\ jobs[r] = None
  BY DEF Mine, Placed, InTx
<1>6. Placed(r)'
  BY <1>4, <1>5 DEF Placed
<1>7. Made(r)'
  BY MadeKept DEF Mine
<1>8. Past(r)' /\ Answered(r)'
  BY <1>5 DEF Mine, Past, Answered
<1> QED BY <1>1, <1>2, <1>3, <1>4, <1>6, <1>7, <1>8, OutsideTx DEF Moves

\* The transaction opens.
LEMMA BeginCreateMoves ==
  ASSUME TypeOK, NEW r \in Requests, Mine(r), BeginCreate(r)
  PROVE  Moves(r)
<1>1. /\ pc[r] = "begin" /\ Goto(r, "lock") /\ ts' = [ts EXCEPT ![r] = now]
      /\ UNCHANGED <<req, pending, jobs, resp, keyRow, keyLock, lock, now, ready, reopened>>
  BY DEF BeginCreate, dbvars, envvars
<1>2. Stands(r) /\ pc'[r] = "lock"
  BY <1>1, GotoEffect DEF Stands, Steps, InTx, TypeOK
<1>3. /\ ts' \in [Requests -> 0..MaxTime] /\ ts'[r] = now
      /\ \A q \in Requests : q # r => ts'[q] = ts[q]
  BY <1>1 DEF TypeOK
<1>4. TypeOK'
  BY <1>1, <1>2, <1>3 DEF TypeOK, Stands
<1>5. Quiet
  BY <1>1, StillQuiet
<1>6. \A q \in Requests : q # r => Untouched(q)
  BY <1>1, <1>2, <1>3 DEF Untouched, Stands
<1>7. pending[r] = None /\ resp[r] = None /\ req[r] # None /\ jobs[r] = None
  BY <1>1 DEF Mine, Placed
<1>8. Placed(r)' /\ Answered(r)'
  BY <1>1, <1>2, <1>7 DEF Placed, Answered
<1>9. Made(r)'
  BY <1>1, MadeKept DEF Mine
<1>10. Past(r)'
  BY <1>1, <1>3, CreateAssumption DEF Past, TypeOK
<1>11. lock' # r /\ \A k \in Keys : keyLock'[k] # r
  BY <1>1 DEF Mine, KeysKept, LockKept
<1> QED BY <1>1, <1>2, <1>4, <1>5, <1>6, <1>7, <1>8, <1>9, <1>10, <1>11, OutsideTx DEF Moves

\* The advisory lock is granted.
LEMMA AcquireLockMoves ==
  ASSUME TypeOK, NEW r \in Requests, Mine(r), AcquireLock(r)
  PROVE  Moves(r)
<1>1. /\ pc[r] = "lock" /\ lock = None /\ lock' = r
      /\ Goto(r, IF req[r].key # None THEN "lookup" ELSE "count")
      /\ UNCHANGED <<req, ts, pending, jobs, resp, keyRow, keyLock, now, ready, reopened>>
  BY DEF AcquireLock, envvars
<1>2. /\ Stands(r) /\ pc'[r] \in {"lookup", "count"}
      /\ pc'[r] = "lookup" <=> req[r].key # None
  BY <1>1, GotoEffect DEF Stands, Steps, InTx, TypeOK
<1>3. TypeOK'
  BY <1>1, <1>2 DEF TypeOK, Stands
<1>4. Quiet
  BY <1>1, StillQuiet
<1>5. \A q \in Requests : q # r => Untouched(q)
  BY <1>1, <1>2, CreateAssumption DEF Untouched, Stands
<1>6. pending[r] = None /\ resp[r] = None /\ req[r] # None /\ jobs[r] = None
  BY <1>1 DEF Mine, Placed
<1>7. Placed(r)' /\ Fresh(r)' /\ Made(r)' /\ LockKept(r)' /\ Winner(r)' /\ Answered(r)'
      /\ Slot(r)'
  BY <1>1, <1>2, <1>6 DEF Placed, Fresh, Made, LockKept, Winner, Answered, Slot
<1>8. KeysKept(r)' /\ Past(r)'
  BY <1>1, <1>2 DEF Mine, KeysKept, Past
<1>9. Counting(r)'
  BY <1>1, <1>2 DEF Counting
<1> QED BY <1>3, <1>4, <1>5, <1>7, <1>8, <1>9 DEF Moves, Mine

\* The lookup under the lock: a live row ends the transaction.
LEMMA LookupUnderLockMoves ==
  ASSUME TypeOK, NEW r \in Requests, Mine(r), LookupUnderLock(r)
  PROVE  Moves(r)
<1>1. /\ pc[r] = "lookup"
      /\ UNCHANGED <<req, ts, jobs, resp, keyRow, now, ready, reopened>>
  BY DEF LookupUnderLock, envvars
<1>2. pending[r] = None /\ resp[r] = None /\ req[r] # None /\ jobs[r] = None
      /\ req[r].key # None
  BY <1>1 DEF Mine, Placed
<1>3. CASE HasLiveRow(req[r].key, ts[r])
  <2>1. EndTx(r) /\ Goto(r, "replay")
    BY <1>3 DEF LookupUnderLock
  <2>2. Stands(r) /\ pc'[r] = "replay"
    BY <1>1, <2>1, GotoEffect DEF Stands, Steps, TypeOK
  <2> QED BY <1>1, <1>2, <2>1, <2>2, EndsMove DEF InTx
<1>4. CASE ~HasLiveRow(req[r].key, ts[r])
  <2>1. Goto(r, "count") /\ UNCHANGED <<lock, keyLock, pending>>
    BY <1>4 DEF LookupUnderLock
  <2>2. Stands(r) /\ pc'[r] = "count"
    BY <1>1, <2>1, GotoEffect DEF Stands, Steps, InTx, TypeOK
  <2>3. TypeOK'
    BY <1>1, <2>1, <2>2 DEF TypeOK, Stands
  <2>4. Quiet
    BY <1>1, StillQuiet
  <2>5. \A q \in Requests : q # r => Untouched(q)
    BY <1>1, <2>1, <2>2 DEF Untouched, Stands
  <2>6. Placed(r)' /\ Fresh(r)' /\ Made(r)' /\ Winner(r)' /\ Answered(r)' /\ Slot(r)'
    BY <1>1, <1>2, <2>1, <2>2 DEF Placed, Fresh, Made, Winner, Answered, Slot
  <2>7. KeysKept(r)' /\ Past(r)' /\ LockKept(r)'
    BY <1>1, <2>1, <2>2 DEF Mine, KeysKept, Past, LockKept
  <2>8. Counting(r)'
    BY <1>1, <1>4, <2>2 DEF Counting, HasLiveRow
  <2> QED BY <2>3, <2>4, <2>5, <2>6, <2>7, <2>8 DEF Moves, Mine
<1> QED BY <1>3, <1>4

\* The count: at the cap the request is turned away, below it it has a slot.
LEMMA CountLiveMoves ==
  ASSUME TypeOK, NEW r \in Requests, Mine(r), CountLive(r)
  PROVE  Moves(r)
<1>1. /\ pc[r] = "count"
      /\ UNCHANGED <<req, ts, jobs, keyRow, now, ready, reopened>>
  BY DEF CountLive, envvars
<1>2. pending[r] = None /\ resp[r] = None /\ req[r] # None /\ jobs[r] = None
  BY <1>1 DEF Mine, Placed
<1>3. CASE AtCap
  <2>1. EndTx(r) /\ Reply(r, "cap", None)
    BY <1>3 DEF CountLive
  <2>2. Stands(r) /\ pc'[r] = "done" /\ resp'[r] # None /\ resp'[r].job = None
    BY <2>1, ReplyEffect DEF Stands
  <2> QED BY <1>1, <1>2, <2>1, <2>2, EndsMove DEF InTx
<1>4. CASE ~AtCap
  <2>1. Goto(r, "insert") /\ UNCHANGED <<lock, keyLock, pending, resp>>
    BY <1>4 DEF CountLive
  <2>2. Stands(r) /\ pc'[r] = "insert"
    BY <1>1, <2>1, GotoEffect DEF Stands, Steps, InTx, TypeOK
  <2>3. TypeOK'
    BY <1>1, <2>1, <2>2 DEF TypeOK, Stands
  <2>4. Quiet /\ LiveJobs' = LiveJobs
    BY <1>1, StillQuiet
  <2>5. \A q \in Requests : q # r => Untouched(q)
    BY <1>1, <2>1, <2>2 DEF Untouched, Stands
  <2>6. Placed(r)' /\ Fresh(r)' /\ Made(r)' /\ Winner(r)' /\ Answered(r)' /\ Counting(r)'
    BY <1>1, <1>2, <2>1, <2>2 DEF Placed, Fresh, Made, Winner, Answered, Counting
  <2>7. KeysKept(r)' /\ Past(r)' /\ LockKept(r)'
    BY <1>1, <2>1, <2>2 DEF Mine, KeysKept, Past, LockKept
  <2>8. Slot(r)'
    <3>1. SUFFICES ASSUME MaxConcurrentJobs > 0
                   PROVE  Cardinality(LiveJobs \ reopened) < MaxConcurrentJobs
      BY <1>1, <2>4 DEF Slot
    <3>2. IsFiniteSet(LiveJobs) /\ Cardinality(LiveJobs) \in Nat
      BY LiveFinite
    <3>3. Cardinality(LiveJobs) < MaxConcurrentJobs
      BY <1>4, <3>1, <3>2, CreateAssumption DEF AtCap
    <3>4. ASSUME NEW S, S = LiveJobs
          PROVE  Cardinality(S \ reopened) <= Cardinality(S)
                 /\ Cardinality(S \ reopened) \in Nat
      <4>1. S \ reopened \subseteq S /\ IsFiniteSet(S)
        BY <3>2, <3>4
      <4>2. IsFiniteSet(S \ reopened)
        BY <4>1, FS_Subset
      <4> QED BY <4>1, <4>2, FS_Subset, FS_CardinalityType
    <3> QED BY <3>2, <3>3, <3>4, CreateAssumption
  <2> QED BY <2>3, <2>4, <2>5, <2>6, <2>7, <2>8 DEF Moves, Mine
<1> QED BY <1>3, <1>4

\* A row is written in the transaction and the handler goes on to the key.
\* InsertJob writes under the lock, CreateCompleted in a transaction of its own.
LEMMA WritesRow ==
  ASSUME TypeOK, NEW r \in Requests, Mine(r), pc[r] \in {"insert", "cached"},
         NEW row \in JobRow, OfRequest(row, r),
         pending' = [pending EXCEPT ![r] = row],
         Goto(r, IF req[r].key # None THEN "key" ELSE "commit"),
         ts' \in [Requests -> 0..MaxTime], ts'[r] <= now, row.born = ts'[r],
         \A q \in Requests : q # r => ts'[q] = ts[q],
         lock = r \/ row.reused, lock = r \/ row.status \notin Live,
         UNCHANGED <<req, jobs, resp, keyRow, keyLock, lock, now, ready, reopened>>
  PROVE  Moves(r)
<1>1. /\ Stands(r) /\ pc'[r] \in {"key", "commit"}
      /\ pc'[r] = "key" <=> req[r].key # None
  BY GotoEffect DEF Stands, Steps, InTx, TypeOK
<1>2. /\ pending' \in [Requests -> JobRow \cup {None}] /\ pending'[r] = row
      /\ \A q \in Requests : q # r => pending'[q] = pending[q]
  BY DEF TypeOK
<1>3. row # None
  BY NoneAssumption
<1>4. resp[r] = None /\ req[r] # None /\ jobs[r] = None
  BY DEF Mine, Placed
<1>5. TypeOK'
  BY <1>1, <1>2 DEF TypeOK, Stands
<1>6. Quiet /\ LiveJobs' = LiveJobs
  BY StillQuiet
<1>7. \A q \in Requests : q # r => Untouched(q)
  BY <1>1, <1>2 DEF Untouched, Stands
<1>8. Placed(r)'
  BY <1>1, <1>2, <1>3, <1>4 DEF Placed
<1>9. Fresh(r)'
  BY <1>2 DEF Fresh, OfRequest
<1>10. Made(r)' /\ LockKept(r)' /\ Winner(r)' /\ Answered(r)' /\ Counting(r)' /\ Past(r)'
  BY <1>1, <1>4 DEF Made, LockKept, Winner, Answered, Counting, Past
<1>11. KeysKept(r)'
  <2>1. \A k \in Keys : keyLock[k] # r
    BY DEF Mine, KeysKept
  <2> QED BY <1>1, <2>1, CreateAssumption DEF KeysKept
<1>12. Slot(r)'
  BY <1>6 DEF Mine, Slot, LockKept
<1> QED BY <1>5, <1>6, <1>7, <1>8, <1>9, <1>10, <1>11, <1>12 DEF Moves, Mine

\* The job row, accepted or denied.
LEMMA InsertJobMoves ==
  ASSUME TypeOK, NEW r \in Requests, Mine(r), InsertJob(r)
  PROVE  Moves(r)
<1>1. /\ pc[r] = "insert" /\ Goto(r, IF req[r].key # None THEN "key" ELSE "commit")
      /\ UNCHANGED <<req, ts, jobs, resp, keyRow, keyLock, lock, now, ready, reopened>>
  BY DEF InsertJob, dbvars, envvars
<1>2. PICK row \in {NewJob(r, "queued"), Denied(r, "no_price_entry"), Denied(r, "budget_exceeded")} :
        pending' = [pending EXCEPT ![r] = row]
  BY DEF InsertJob
<1>3. req[r] # None /\ lock = r /\ ts[r] <= now
  BY <1>1 DEF Mine, Placed, LockKept, Past
<1>4. /\ row \in JobRow /\ OfRequest(row, r) /\ row.born = ts[r]
  BY <1>3, InsertedRow
<1>5. ts' \in [Requests -> 0..MaxTime]
  BY <1>1 DEF TypeOK
<1> HIDE DEF NewJob, Denied
<1> QED BY <1>1, <1>2, <1>3, <1>4, <1>5, WritesRow

\* The row of a reused render.
LEMMA CreateCompletedMoves ==
  ASSUME TypeOK, NEW r \in Requests, Mine(r), CreateCompleted(r)
  PROVE  Moves(r)
<1>1. /\ pc[r] = "cached" /\ Goto(r, IF req[r].key # None THEN "key" ELSE "commit")
      /\ ts' = [ts EXCEPT ![r] = now] /\ pending' = [pending EXCEPT ![r] = Reused(r)]
      /\ UNCHANGED <<req, jobs, resp, keyRow, keyLock, lock, now, ready, reopened>>
  BY DEF CreateCompleted, dbvars, envvars
<1>2. req[r] # None
  BY <1>1 DEF Mine, Placed
<1>3. /\ ts' \in [Requests -> 0..MaxTime] /\ ts'[r] = now /\ now <= now
      /\ \A q \in Requests : q # r => ts'[q] = ts[q]
  BY <1>1, CreateAssumption DEF TypeOK
<1>4. /\ Reused(r) \in JobRow /\ OfRequest(Reused(r), r)
      /\ Reused(r).born = ts'[r] /\ Reused(r).reused /\ Reused(r).status \notin Live
  BY <1>2, <1>3, ReusedRow DEF Live
<1> QED BY <1>1, <1>3, <1>4, WritesRow

\* The key: a live row makes the request the loser, otherwise it is the winner.
LEMMA InsertIdempotencyKeyMoves ==
  ASSUME TypeOK, NEW r \in Requests, Mine(r), InsertIdempotencyKey(r)
  PROVE  Moves(r)
<1> DEFINE k == req[r].key
<1>1. /\ pc[r] = "key" /\ keyLock[k] = None
      /\ UNCHANGED <<req, ts, jobs, keyRow, resp, now, ready, reopened>>
  BY DEF InsertIdempotencyKey, envvars
<1>2. pending[r] # None /\ resp[r] = None /\ req[r] # None /\ jobs[r] = None /\ k # None
  BY <1>1 DEF Mine, Placed
<1>3. k \in Keys
  BY <1>2, RequestRead
<1>4. CASE HasLiveRow(k, ts[r])
  <2>1. EndTx(r) /\ Goto(r, "replay")
    BY <1>4 DEF InsertIdempotencyKey
  <2>2. Stands(r) /\ pc'[r] = "replay"
    BY <1>1, <2>1, GotoEffect DEF Stands, Steps, TypeOK
  <2> QED BY <1>1, <1>2, <2>1, <2>2, EndsMove DEF InTx
<1>5. CASE ~HasLiveRow(k, ts[r])
  <2> DEFINE row == [pending[r] EXCEPT !.expires = now + TTL]
  <2>1. /\ keyLock' = [keyLock EXCEPT ![k] = r] /\ pending' = [pending EXCEPT ![r] = row]
        /\ Goto(r, "commit") /\ UNCHANGED lock
    BY <1>5 DEF InsertIdempotencyKey
  <2>2. Stands(r) /\ pc'[r] = "commit"
    BY <1>1, <2>1, GotoEffect DEF Stands, Steps, InTx, TypeOK
  <2>3. pending[r] \in JobRow /\ now + TTL \in Nat /\ ts[r] \in Nat /\ now \in Nat
    BY <1>2, CreateAssumption DEF TypeOK
  <2>4. row \in JobRow
    BY <2>3, RowUpdates
  <2>5. /\ row.status = pending[r].status /\ row.key = pending[r].key
        /\ row.body = pending[r].body /\ row.endpoint = pending[r].endpoint
        /\ row.born = pending[r].born /\ row.reused = pending[r].reused
        /\ row.expires = now + TTL
    BY <2>3 DEF JobRow
  <2> HIDE DEF row, k
  <2>6. row # None
    BY <2>4, NoneAssumption
  <2>7. /\ pending' \in [Requests -> JobRow \cup {None}] /\ pending'[r] = row
        /\ \A q \in Requests : q # r => pending'[q] = pending[q]
    BY <2>1, <2>4 DEF TypeOK
  <2>8. /\ keyLock' \in [Keys -> Requests \cup {None}] /\ keyLock'[k] = r
        /\ \A l \in Keys : l # k => keyLock'[l] = keyLock[l]
    BY <1>3, <2>1 DEF TypeOK
  <2>9. TypeOK'
    BY <1>1, <2>1, <2>2, <2>7, <2>8 DEF TypeOK, Stands
  <2>10. Quiet /\ LiveJobs' = LiveJobs
    BY <1>1, StillQuiet
  <2>11. \A q \in Requests : q # r => Untouched(q)
    BY <1>1, <1>3, <2>1, <2>2, <2>7, <2>8, CreateAssumption DEF Untouched, Stands
  <2>12. Placed(r)'
    BY <1>1, <1>2, <2>2, <2>6, <2>7 DEF Placed
  <2>13. Fresh(r)'
    BY <1>1, <1>2, <2>1, <2>5, <2>7 DEF Mine, Fresh, OfRequest
  <2>14. Made(r)' /\ Answered(r)' /\ Counting(r)' /\ Past(r)'
    BY <1>1, <1>2, <2>2 DEF Mine, Made, Answered, Counting, Past
  <2>15. LockKept(r)'
    BY <1>1, <2>1, <2>2 DEF LockKept
  <2>16. KeysKept(r)'
    <3>1. \A l \in Keys : keyLock[l] # r
      BY <1>1 DEF Mine, KeysKept
    <3> QED BY <1>1, <1>3, <2>2, <2>8, <3>1 DEF KeysKept, k
  <2>17. Winner(r)'
    <3>1. pending[r].born = ts[r] /\ ts[r] <= now
      BY <1>2 DEF Mine, Fresh, Past
    <3>2. row.born <= row.expires
      BY <2>3, <2>5, <3>1, CreateAssumption
    <3>3. keyRow[k] # None => keyRow[k].expires <= ts[r]
      BY <1>3, <1>5, <2>3, RowRead DEF HasLiveRow
    <3> QED BY <1>1, <2>5, <2>7, <3>1, <3>2, <3>3 DEF Winner, k
  <2>18. Slot(r)'
    BY <1>1, <2>1, <2>10 DEF Mine, Slot
  <2> QED BY <2>9, <2>10, <2>11, <2>12, <2>13, <2>14, <2>15, <2>16, <2>17, <2>18 DEF Moves, Mine
<1> QED BY <1>4, <1>5

\* A transaction that fails.
LEMMA AbortMoves ==
  ASSUME TypeOK, NEW r \in Requests, Mine(r), Abort(r)
  PROVE  Moves(r)
<1>1. pc[r] \in InTx /\ EndTx(r) /\ Reply(r, "error", None)
      /\ UNCHANGED <<req, ts, jobs, keyRow, now, ready, reopened>>
  BY DEF Abort, envvars
<1>2. Stands(r) /\ pc'[r] = "done" /\ resp'[r] # None /\ resp'[r].job = None
  BY <1>1, ReplyEffect DEF Stands
<1> QED BY <1>1, <1>2, EndsMove

-----------------------------------------------------------------------------
(* Steps that change a job's status *)

\* One job's status and error change, to a status that is not live or of a job
\* the admin has reopened: nothing else of the tables does.
LEMMA StatusChange ==
  ASSUME TypeOK, NEW j \in Requests, jobs[j] # None,
         NEW s \in Live \cup {"completed", "failed", "cancelled"},
         NEW c \in {"none", "no_price_entry", "budget_exceeded", "enqueue_failed"},
         \/ jobs' = [jobs EXCEPT ![j].status = s]
         \/ jobs' = [jobs EXCEPT ![j].status = s, ![j].code = c],
         UNCHANGED <<keyRow, now>>, reopened \subseteq reopened',
         s \in Live => j \in reopened'
  PROVE  /\ jobs' \in [Requests -> JobRow \cup {None}]
         /\ Quiet
<1> DEFINE one == [jobs[j] EXCEPT !.status = s]
           two == [one EXCEPT !.code = c]
<1>1. jobs[j] \in JobRow
  BY DEF TypeOK
<1>2. one \in JobRow
  BY <1>1, RowUpdates
<1>3. SameOrigin(one, jobs[j]) /\ one.status = s
  BY <1>1 DEF SameOrigin, JobRow
<1>4. jobs' = [jobs EXCEPT ![j] = one] \/ jobs' = [jobs EXCEPT ![j] = two]
  BY DEF TypeOK
<1> HIDE DEF one
<1>5. two \in JobRow
  BY <1>2, RowUpdates
<1>6. SameOrigin(two, one) /\ two.status = one.status
  BY <1>2 DEF SameOrigin, JobRow
<1> HIDE DEF two
<1>7. SameOrigin(two, jobs[j])
  BY <1>3, <1>6 DEF SameOrigin
<1>8. PICK row \in {one, two} : jobs' = [jobs EXCEPT ![j] = row]
  BY <1>4
<1>9. row \in JobRow /\ row # None /\ SameOrigin(row, jobs[j]) /\ row.status = s
  BY <1>2, <1>3, <1>5, <1>6, <1>7, NoneAssumption
<1>10. /\ jobs' \in [Requests -> JobRow \cup {None}] /\ jobs'[j] = row
       /\ \A i \in Requests : i # j => jobs'[i] = jobs[i]
  BY <1>8, <1>9 DEF TypeOK
<1>11. \A i \in Requests : Kept(i)
  BY <1>9, <1>10 DEF Kept, SameOrigin
<1>12. LiveJobs' \ reopened' \subseteq LiveJobs \ reopened
  BY <1>9, <1>10 DEF LiveJobs
<1>13. now <= now'
  BY CreateAssumption DEF TypeOK
<1> QED BY <1>10, <1>11, <1>12, <1>13 DEF Quiet

\* The queue is unreachable.
LEMMA EnqueueFailsMoves ==
  ASSUME TypeOK, NEW r \in Requests, Mine(r), EnqueueFails(r)
  PROVE  Moves(r)
<1>1. /\ pc[r] = "enqueue" /\ Reply(r, "error", None)
      /\ UNCHANGED <<req, ts, pending, keyRow, keyLock, lock, now, ready, reopened>>
      /\ jobs' = IF jobs[r].status = "queued"
                 THEN [jobs EXCEPT ![r].status = "failed", ![r].code = "enqueue_failed"]
                 ELSE jobs
  BY DEF EnqueueFails, dbvars, envvars
<1>2. Stands(r) /\ pc'[r] = "done" /\ resp'[r] # None /\ resp'[r].job = None
  BY <1>1, ReplyEffect DEF Stands
<1>3. jobs[r] # None /\ req[r] # None /\ pending[r] = None
  BY <1>1 DEF Mine, Placed
<1>4. jobs' \in [Requests -> JobRow \cup {None}] /\ Quiet
  <2>1. CASE jobs[r].status = "queued"
    <3>1. "failed" \notin Live BY DEF Live
    <3> QED BY <1>1, <1>3, <2>1, <3>1, StatusChange
  <2>2. CASE jobs[r].status # "queued"
    <3>1. UNCHANGED <<jobs, keyRow, now, reopened>>
      BY <1>1, <2>2
    <3> QED BY <3>1, StillQuiet DEF TypeOK
  <2> QED BY <2>1, <2>2
<1>5. TypeOK'
  BY <1>1, <1>2, <1>4 DEF TypeOK, Stands
<1>6. \A q \in Requests : q # r => Untouched(q)
  BY <1>1, <1>2 DEF Untouched, Stands
<1>7. jobs'[r] # None /\ SameOrigin(jobs'[r], jobs[r])
  BY <1>3, <1>4 DEF Quiet, Kept
<1>8. Placed(r)' /\ Answered(r)' /\ Past(r)'
  BY <1>1, <1>2, <1>3, <1>7 DEF Mine, Placed, Answered, Past
<1>9. Made(r)'
  BY <1>1, <1>3, <1>7 DEF Mine, Made, OfRequest, SameOrigin
<1>10. lock' # r /\ \A k \in Keys : keyLock'[k] # r
  BY <1>1 DEF Mine, KeysKept, LockKept
<1> QED BY <1>1, <1>2, <1>3, <1>4, <1>5, <1>6, <1>8, <1>9, <1>10, OutsideTx DEF Moves

\* The worker, the admin and the clock touch no request.
LEMMA AroundQuiet ==
  ASSUME TypeOK, (\E j \in Requests : JobEnds(j) \/ RetryJob(j)) \/ Tick
  PROVE  TypeOK' /\ Quiet /\ \A q \in Requests : Untouched(q)
<1>1. UNCHANGED <<req, pc, ts, pending, resp, keyRow, keyLock, lock>>
  BY DEF JobEnds, RetryJob, Tick, dbvars
<1>2. \A q \in Requests : Untouched(q)
  BY <1>1 DEF Untouched
<1>3. ASSUME NEW j \in Requests, JobEnds(j)
      PROVE  TypeOK' /\ Quiet
  <2>1. PICK s \in {"completed", "failed", "cancelled"} :
          /\ jobs' = [jobs EXCEPT ![j].status = s]
          /\ ready' = IF s = "completed" THEN ready \cup {jobs[j].body} ELSE ready
    BY <1>3 DEF JobEnds
  <2>2. jobs[j] # None /\ UNCHANGED <<now, reopened>>
    BY <1>3 DEF JobEnds
  <2>3. jobs' \in [Requests -> JobRow \cup {None}] /\ Quiet
    <3>1. s \notin Live /\ s \in Live \cup {"completed", "failed", "cancelled"}
          /\ "none" \in {"none", "no_price_entry", "budget_exceeded", "enqueue_failed"}
      BY DEF Live
    <3> QED BY <1>1, <2>1, <2>2, <3>1, StatusChange
  <2>4. jobs[j].body \in Bodies
    BY <2>2 DEF TypeOK, JobRow
  <2>5. ready' \subseteq Bodies
    BY <2>1, <2>4 DEF TypeOK
  <2> QED BY <1>1, <2>2, <2>3, <2>5 DEF TypeOK
<1>4. ASSUME NEW j \in Requests, RetryJob(j)
      PROVE  TypeOK' /\ Quiet
  <2>1. /\ jobs[j] # None /\ UNCHANGED <<now, ready>> /\ reopened' = reopened \cup {j}
        /\ jobs' = [jobs EXCEPT ![j].status = "queued", ![j].code = "none"]
    BY <1>4 DEF RetryJob
  <2>2. jobs' \in [Requests -> JobRow \cup {None}] /\ Quiet
    <3>1. "queued" \in Live \cup {"completed", "failed", "cancelled"}
      BY DEF Live
    <3> QED BY <1>1, <2>1, <3>1, StatusChange
  <2> QED BY <1>1, <2>1, <2>2 DEF TypeOK
<1>5. CASE Tick
  <2>1. now' = now + 1 /\ now < MaxTime /\ UNCHANGED <<jobs, ready, reopened>>
    BY <1>5 DEF Tick
  <2>2. now' \in 0..MaxTime /\ now <= now'
    BY <2>1, CreateAssumption DEF TypeOK
  <2>3. TypeOK'
    BY <1>1, <2>1, <2>2 DEF TypeOK
  <2>4. LiveJobs' \ reopened' \subseteq LiveJobs \ reopened
    BY <2>1 DEF LiveJobs
  <2>5. \A j \in Requests : Kept(j)
    BY <2>1 DEF Kept, SameOrigin
  <2>6. Quiet
    BY <1>1, <2>2, <2>4, <2>5 DEF Quiet
  <2> QED BY <1>2, <2>3, <2>6
<1> QED BY <1>2, <1>3, <1>4, <1>5

-----------------------------------------------------------------------------
(* The commit *)

\* What Commit does: the row becomes a job, and the key's row when it has one.
Commits(r) ==
    LET row == pending[r] IN
    /\ pc[r] = "commit" /\ row \in JobRow /\ jobs[r] = None
    /\ jobs' \in [Requests -> JobRow \cup {None}] /\ jobs'[r] = row
    /\ \A j \in Requests : j # r => jobs'[j] = jobs[j]
    /\ keyRow' \in [Keys -> KeyRow \cup {None}]
    /\ \A k \in Keys : k # req[r].key => keyRow'[k] = keyRow[k]
    /\ req[r].key # None =>
          /\ req[r].key \in Keys /\ keyRow'[req[r].key] # None
          /\ keyRow'[req[r].key].job = r
          /\ keyRow'[req[r].key].body = row.body
          /\ keyRow'[req[r].key].endpoint = row.endpoint
          /\ keyRow'[req[r].key].expires = row.expires
    /\ OfRequest(row, r) /\ row.born = ts[r]
    /\ UNCHANGED <<req, ts, now, ready, reopened>>
    /\ EndTx(r) /\ Stands(r)
    /\ \/ row.status = "queued" /\ pc'[r] = "enqueue" /\ resp'[r] = None
       \/ pc'[r] = "done" /\ resp'[r] # None /\ resp'[r].job = r
          /\ resp'[r].kind # "cap"

\* Commit does this, and touches no other request.
LEMMA CommitEffect ==
  ASSUME TypeOK, NEW r \in Requests, Mine(r), Commit(r)
  PROVE  Commits(r) /\ TypeOK' /\ \A q \in Requests : q # r => Untouched(q)
<1> DEFINE row == pending[r]
           k == req[r].key
           new == [job |-> r, endpoint |-> row.endpoint, body |-> row.body,
                   expires |-> row.expires]
<1>1. pc[r] = "commit" /\ jobs' = [jobs EXCEPT ![r] = row] /\ EndTx(r)
      /\ UNCHANGED <<req, ts, now, ready, reopened>>
  BY DEF Commit, envvars
<1>2. row # None /\ jobs[r] = None /\ req[r] # None /\ resp[r] = None
  BY <1>1 DEF Mine, Placed
<1>3. row \in JobRow
  BY <1>2 DEF TypeOK
<1>4. OfRequest(row, r) /\ row.born = ts[r]
  BY <1>2 DEF Mine, Fresh
<1>5. row.key = k /\ k \in Keys \cup {None}
  BY <1>2, <1>4, RequestRead DEF OfRequest
<1>6. /\ jobs' \in [Requests -> JobRow \cup {None}] /\ jobs'[r] = row
      /\ \A j \in Requests : j # r => jobs'[j] = jobs[j]
  BY <1>1, <1>3 DEF TypeOK
<1>7. new \in KeyRow /\ new.job = r /\ new.body = row.body
      /\ new.endpoint = row.endpoint /\ new.expires = row.expires
  BY <1>3 DEF JobRow, KeyRow
<1>8. new # None
  BY <1>7, NoneAssumption
<1>9. keyRow' = IF row.key = None THEN keyRow ELSE [keyRow EXCEPT ![row.key] = new]
  BY DEF Commit
<1> HIDE DEF new
<1>10. /\ keyRow' \in [Keys -> KeyRow \cup {None}]
       /\ \A l \in Keys : l # k => keyRow'[l] = keyRow[l]
       /\ k # None => k \in Keys /\ keyRow'[k] = new
  BY <1>5, <1>7, <1>9 DEF TypeOK
<1>11. /\ Stands(r)
       /\ \/ row.status = "queued" /\ pc'[r] = "enqueue" /\ resp'[r] = None
          \/ pc'[r] = "done" /\ resp'[r] # None /\ resp'[r].job = r
             /\ resp'[r].kind # "cap"
  <2>1. CASE row.status = "queued"
    <3>1. Goto(r, "enqueue") /\ UNCHANGED resp
      BY <2>1 DEF Commit
    <3> QED BY <1>2, <2>1, <3>1, GotoEffect DEF Stands, Steps, TypeOK
  <2>2. CASE row.status # "queued"
    <3>1. Reply(r, "denied", r) \/ Reply(r, "job", r)
      BY <2>2 DEF Commit
    <3> QED BY <3>1, ReplyEffect DEF Stands
  <2> QED BY <2>1, <2>2
<1>12. Commits(r)
  BY <1>1, <1>2, <1>3, <1>4, <1>6, <1>7, <1>8, <1>10, <1>11 DEF Commits
<1>13. TypeOK'
  BY <1>1, <1>6, <1>10, <1>11, EndTxEffect DEF TypeOK, Stands
<1>14. \A q \in Requests : q # r => Untouched(q)
  BY <1>1, <1>11, EndTxEffect DEF Untouched, Stands
<1> QED BY <1>12, <1>13, <1>14

\* The committing request has only its job and its answer left.
LEMMA CommitMine ==
  ASSUME TypeOK, TypeOK', NEW r \in Requests, Mine(r), Commits(r)
  PROVE  Mine(r)'
<1> DEFINE row == pending[r]
<1>1. /\ pc[r] = "commit" /\ jobs'[r] = row /\ OfRequest(row, r)
      /\ UNCHANGED <<req, ts, now>> /\ EndTx(r)
      /\ \/ pc'[r] = "enqueue" /\ resp'[r] = None
         \/ pc'[r] = "done" /\ resp'[r] # None /\ resp'[r].job = r
  BY DEF Commits
<1>2. row # None /\ req[r] # None
  BY <1>1 DEF Mine, Placed
<1>3. pending'[r] = None /\ lock' # r /\ \A k \in Keys : keyLock'[k] # r
  BY <1>1, EndTxEffect
<1> HIDE DEF row
<1>4. Placed(r)'
  BY <1>1, <1>2, <1>3 DEF Placed
<1>5. Made(r)'
  BY <1>1 DEF Made, OfRequest
<1>6. Past(r)'
  BY <1>1 DEF Mine, Past
<1>7. Answered(r)'
  BY <1>1, <1>2 DEF Answered, OfRequest
<1> QED BY <1>1, <1>3, <1>4, <1>5, <1>6, <1>7, OutsideTx

\* Who holds the advisory lock has a slot; without it a commit adds no live job.
LEMMA CommitCount ==
  ASSUME TypeOK, NEW r \in Requests, Mine(r), CapHeld, Commits(r)
  PROVE  /\ CapHeld'
         /\ lock # r => LiveJobs' = LiveJobs
<1>1. /\ pending[r] # None /\ r \notin LiveJobs
  BY DEF Commits, Mine, Placed, LiveJobs
<1>2. pending[r].status \in Live => lock = r
  BY <1>1 DEF Mine, Fresh
<1>3. LiveJobs' = IF pending[r].status \in Live THEN LiveJobs \cup {r} ELSE LiveJobs
  BY <1>1 DEF Commits, LiveJobs
<1>4. reopened' = reopened
  BY DEF Commits
<1>5. CASE pending[r].status \notin Live
  BY <1>3, <1>4, <1>5 DEF CapHeld
<1>6. CASE pending[r].status \in Live
  <2>1. SUFFICES ASSUME MaxConcurrentJobs > 0
                 PROVE  Cardinality(LiveJobs' \ reopened') <= MaxConcurrentJobs
    BY <1>2, <1>6 DEF CapHeld
  <2>2. Cardinality(LiveJobs \ reopened) < MaxConcurrentJobs
    BY <1>2, <1>6, <2>1 DEF Mine, Slot, Commits
  <2>3. ASSUME NEW S, S = LiveJobs \ reopened, NEW T, T = LiveJobs' \ reopened'
        PROVE  Cardinality(T) <= Cardinality(S) + 1 /\ Cardinality(T) \in Nat
               /\ Cardinality(S) \in Nat
    <3>1. IsFiniteSet(S) /\ Cardinality(S) \in Nat
      BY <2>3, LiveFinite
    <3>2. T = S \/ T = S \cup {r}
      BY <1>3, <1>4, <2>3
    <3>3. r \notin S => Cardinality(S \cup {r}) = Cardinality(S) + 1
      BY <3>1, FS_AddElement
    <3>4. r \in S => S \cup {r} = S
      OBVIOUS
    <3> HIDE <2>3
    <3>5. CASE T = S
      BY <3>1, <3>5
    <3>6. CASE T = S \cup {r}
      BY <3>1, <3>3, <3>4, <3>6
    <3> QED BY <3>1, <3>2, <3>5, <3>6
  <2> QED BY <2>2, <2>3, CreateAssumption
<1> QED BY <1>5, <1>6

\* The other requests keep what they have: nobody else is about to commit this
\* key, and who is counting holds the lock, so that the row is a reused one's.
LEMMA CommitOthers ==
  ASSUME TypeOK, TypeOK', NEW r \in Requests, Mine(r), CapHeld, Commits(r),
         \A k \in Keys : KeyRowRight(k),
         NEW q \in Requests, q # r, Mine(q), Untouched(q)
  PROVE  Mine(q)'
<1>0. jobs'[q] = jobs[q]
  BY DEF Commits
<1>1. Placed(q)'
  BY <1>0 DEF Mine, Placed, Untouched
<1>2. Fresh(q)'
  BY DEF Mine, Fresh, Untouched, OfRequest
<1>3. Made(q)'
  BY <1>0, MadeKept DEF Mine, Untouched
<1>4. LockKept(q)' /\ KeysKept(q)'
  BY DEF Mine, LockKept, KeysKept, Untouched
<1>5. Past(q)'
  BY DEF Mine, Past, Untouched, Commits
<1>6. Winner(q)'
  <2>1. SUFFICES ASSUME pc[q] = "commit", req[q].key # None
                 PROVE  keyRow'[req[q].key] = keyRow[req[q].key]
    BY DEF Mine, Winner, Untouched
  <2>2. req[q].key \in Keys
    BY <2>1, RequestRead DEF Mine, Placed
  <2>3. keyLock[req[q].key] = q
    BY <2>1, <2>2 DEF Mine, KeysKept
  <2>4. req[q].key = req[r].key => keyLock[req[q].key] = r
    BY <2>2 DEF Mine, KeysKept, Commits
  <2>5. req[q].key # req[r].key
    BY <2>3, <2>4
  <2> QED BY <2>2, <2>5 DEF Commits
<1>7. Answered(q)'
  <2>1. SUFFICES ASSUME resp'[q] # None, resp'[q].job # None
                 PROVE  jobs'[resp'[q].job] # None /\ OfRequest(jobs[resp[q].job], q)'
    BY DEF Answered
  <2>2. resp'[q] = resp[q] /\ req'[q] = req[q]
    BY DEF Untouched
  <2>3. resp[q].job \in Requests
    BY <2>1, <2>2 DEF TypeOK, Response
  <2>4. jobs[resp[q].job] # None /\ OfRequest(jobs[resp[q].job], q)
    BY <2>1, <2>2 DEF Mine, Answered
  <2>5. jobs'[resp[q].job] = jobs[resp[q].job]
    BY <2>3, <2>4 DEF Commits
  <2> QED BY <2>2, <2>4, <2>5 DEF OfRequest
<1>8. Slot(q)'
  <2>1. SUFFICES ASSUME lock' = q
                 PROVE  Slot(q)'
    BY DEF Slot
  <2>2. lock = q /\ reopened' = reopened
    BY <2>1 DEF Untouched, Commits
  <2>3. LiveJobs' = LiveJobs
    BY <2>2, CommitCount
  <2> QED BY <2>2, <2>3 DEF Mine, Slot, Untouched
<1>9. Counting(q)'
  <2>1. SUFFICES ASSUME pc'[q] = "count", req'[q].key # None,
                        HasLiveRow(req[q].key, ts[q])'
                 PROVE  jobs'[keyRow'[req'[q].key].job].reused
    BY DEF Counting
  <2>2. req'[q] = req[q] /\ ts'[q] = ts[q] /\ pc'[q] = pc[q]
    BY DEF Untouched
  <2>3. req[q].key \in Keys
    BY <2>1, <2>2, RequestRead DEF Mine, Placed
  <2>4. CASE req[q].key = req[r].key
    <3>1. lock = q
      BY <2>1, <2>2 DEF Mine, LockKept
    <3>2. pending[r].reused
      BY <3>1 DEF Mine, Placed, Fresh, Commits
    <3>3. keyRow'[req[q].key].job = r /\ jobs'[r] = pending[r]
      BY <2>1, <2>2, <2>4 DEF Commits
    <3> QED BY <2>2, <3>2, <3>3
  <2>5. CASE req[q].key # req[r].key
    <3>1. keyRow'[req[q].key] = keyRow[req[q].key]
      BY <2>3, <2>5 DEF Commits
    <3>2. HasLiveRow(req[q].key, ts[q])
      BY <2>1, <2>2, <3>1 DEF HasLiveRow
    <3> DEFINE j == keyRow[req[q].key].job
    <3>3. jobs[j].reused
      BY <2>1, <2>2, <3>2 DEF Mine, Counting
    <3>4. j \in Requests /\ jobs[j] # None
      BY <2>3, <3>2, RowRead DEF KeyRowRight, HasLiveRow
    <3>5. jobs'[j] = jobs[j]
      BY <3>4 DEF Commits
    <3> QED BY <2>2, <3>1, <3>3, <3>5
  <2> QED BY <2>4, <2>5
<1> QED BY <1>1, <1>2, <1>3, <1>4, <1>5, <1>6, <1>7, <1>8, <1>9 DEF Mine

\* The key rows: the new row is the latest of its key, because the old one had
\* expired when the transaction began.
LEMMA CommitRows ==
  ASSUME TypeOK, TypeOK', NEW r \in Requests, Mine(r), Commits(r),
         NEW k \in Keys, KeyRowRight(k), Latest(k)
  PROVE  KeyRowRight(k)' /\ Latest(k)'
<1> DEFINE row == pending[r]
<1>1. /\ jobs[r] = None /\ jobs'[r] = row /\ row # None /\ row.key = req[r].key
      /\ \A j \in Requests : j # r => jobs'[j] = jobs[j]
  BY DEF Commits, OfRequest, Mine, Placed
<1>2. CASE k # req[r].key
  <2>1. keyRow'[k] = keyRow[k]
    BY <1>2 DEF Commits
  <2>2. keyRow[k] # None => keyRow[k].job \in Requests /\ keyRow[k].job # r
    BY <1>1, RowRead DEF KeyRowRight
  <2>3. KeyRowRight(k)'
    BY <1>1, <2>1, <2>2 DEF KeyRowRight
  <2>4. Latest(k)'
    BY <1>1, <1>2, <2>1, <2>2 DEF Latest
  <2> QED BY <2>3, <2>4
<1>3. CASE k = req[r].key
  <2>1. /\ keyRow'[k] # None /\ keyRow'[k].job = r /\ keyRow'[k].body = row.body
        /\ keyRow'[k].endpoint = row.endpoint /\ keyRow'[k].expires = row.expires
    BY <1>3, CreateAssumption DEF Commits
  <2>2. /\ row.born <= row.expires
        /\ keyRow[k] # None => keyRow[k].expires <= row.born
    BY <1>3, CreateAssumption DEF Mine, Winner, Commits
  <2>3. KeyRowRight(k)'
    BY <1>1, <1>3, <2>1 DEF KeyRowRight
  <2>4. Latest(k)'
    <3>1. SUFFICES ASSUME NEW j \in Requests, jobs'[j] # None, jobs'[j].key = k, j # r
                   PROVE  jobs'[j].born <= jobs'[j].expires /\ jobs'[j].expires <= row.born
      BY <1>1, <2>1, <2>2 DEF Latest
    <3>2. jobs'[j] = jobs[j] /\ jobs[j] # None /\ jobs[j].key = k
      BY <1>1, <3>1
    <3>3. /\ keyRow[k] # None /\ jobs[j].born <= jobs[j].expires
          /\ j = keyRow[k].job \/ jobs[j].expires <= jobs[keyRow[k].job].born
      BY <3>2 DEF Latest
    <3> DEFINE o == keyRow[k].job
    <3>4. o \in Requests /\ jobs[o] # None /\ jobs[o].key = k
          /\ jobs[o].expires = keyRow[k].expires
      BY <3>3, RowRead DEF KeyRowRight
    <3>5. jobs[o].born <= jobs[o].expires
      BY <3>4 DEF Latest
    <3>6. /\ jobs[o].born \in Nat /\ jobs[o].expires \in Nat /\ row.born \in Nat
          /\ jobs[j].expires \in Nat
      BY <1>1, <3>2, <3>4 DEF TypeOK, JobRow, Commits
    <3>7. keyRow[k].expires <= row.born
      BY <2>2, <3>3
    <3> HIDE DEF o, row
    <3>8. CASE j = o
      BY <3>2, <3>3, <3>4, <3>7, <3>8
    <3>9. CASE jobs[j].expires <= jobs[o].born
      BY <3>2, <3>3, <3>4, <3>5, <3>6, <3>7, <3>9
    <3> QED BY <3>3, <3>8, <3>9 DEF o
  <2> QED BY <2>3, <2>4
<1> QED BY <1>2, <1>3

\* The new job is compared with every other of its key by the row it leaves.
LEMMA CommitKeys ==
  ASSUME TypeOK, TypeOK', NEW r \in Requests, Commits(r), OneJobPerLiveKey,
         \A k \in Keys : Latest(k)'
  PROVE  OneJobPerLiveKey'
<1>1. /\ jobs'[r] = pending[r] /\ pending[r].key = req[r].key
      /\ \A j \in Requests : j # r => jobs'[j] = jobs[j]
  BY DEF Commits, OfRequest
<1>2. SUFFICES ASSUME NEW i \in Requests, NEW j \in Requests, i # j,
                      jobs'[i] # None, jobs'[j] # None,
                      jobs'[i].key = jobs'[j].key, jobs'[i].key # None
               PROVE  \/ jobs'[i].expires <= jobs'[j].born
                      \/ jobs'[j].expires <= jobs'[i].born
  BY DEF OneJobPerLiveKey
<1>3. CASE i # r /\ j # r
  BY <1>1, <1>2, <1>3 DEF OneJobPerLiveKey
<1>4. CASE i = r \/ j = r
  <2>1. jobs'[i].key = req[r].key /\ jobs'[j].key = req[r].key /\ req[r].key # None
    BY <1>1, <1>2, <1>4
  <2>2. PICK k \in Keys : k = req[r].key
    BY <2>1 DEF Commits
  <2>3. Latest(k)' /\ keyRow'[k].job = r
    BY <2>1, <2>2 DEF Commits
  <2>4. /\ i = r \/ jobs'[i].expires <= jobs'[r].born
        /\ j = r \/ jobs'[j].expires <= jobs'[r].born
    BY <1>2, <2>1, <2>2, <2>3 DEF Latest
  <2> QED BY <1>2, <1>4, <2>4
<1> QED BY <1>3, <1>4

-----------------------------------------------------------------------------
(* The invariant, and what follows from it *)

\* A step of a request other than its commit is one of the moves above.
LEMMA RequestMoves ==
  ASSUME TypeOK, NEW r \in Requests, Mine(r), \A k \in Keys : KeyRowRight(k),
         Arrive(r) \/ RequestStep(r) \/ Abort(r)
  PROVE  Moves(r) \/ Commit(r)
<1>1. CASE Arrive(r)
  BY <1>1, ArriveMoves
<1>2. CASE Abort(r)
  BY <1>2, AbortMoves
<1>3. CASE LookupReplay(r)
  BY <1>3, LookupReplayMoves
<1>4. CASE Gate(r) \/ PlanReuse(r)
  BY <1>4, GateAndPlanMove
<1>5. CASE BeginCreate(r)
  BY <1>5, BeginCreateMoves
<1>6. CASE AcquireLock(r)
  BY <1>6, AcquireLockMoves
<1>7. CASE LookupUnderLock(r)
  BY <1>7, LookupUnderLockMoves
<1>8. CASE CountLive(r)
  BY <1>8, CountLiveMoves
<1>9. CASE InsertJob(r)
  BY <1>9, InsertJobMoves
<1>10. CASE CreateCompleted(r)
  BY <1>10, CreateCompletedMoves
<1>11. CASE InsertIdempotencyKey(r)
  BY <1>11, InsertIdempotencyKeyMoves
<1>12. CASE ReplayExisting(r)
  BY <1>12, ReplayExistingMoves
<1>13. CASE Enqueue(r)
  BY <1>13, EnqueueMoves
<1>14. CASE EnqueueFails(r)
  BY <1>14, EnqueueFailsMoves
<1> QED BY <1>1, <1>2, <1>3, <1>4, <1>5, <1>6, <1>7, <1>8, <1>9, <1>10, <1>11, <1>12,
           <1>13, <1>14 DEF RequestStep

\* The initial state has no rows and no locks.
LEMMA InitCreateInv == Init => CreateInv
<1> SUFFICES ASSUME Init PROVE CreateInv
  OBVIOUS
<1>1. TypeOK
  BY CreateAssumption DEF Init, TypeOK, Steps
<1>2. LiveJobs = {} /\ LiveJobs \ reopened = {}
  BY DEF Init, LiveJobs
<1>3. CapHeld
  BY <1>2, FS_EmptySet, CreateAssumption DEF CapHeld
<1>4. ASSUME NEW r \in Requests
      PROVE  Mine(r)
  <2>1. /\ pc[r] = "idle" /\ resp[r] = None /\ pending[r] = None /\ jobs[r] = None
        /\ ts[r] = 0 /\ now = 0 /\ lock = None /\ \A k \in Keys : keyLock[k] = None
    BY DEF Init
  <2>2. r # None
    BY CreateAssumption
  <2>3. Placed(r) /\ Fresh(r) /\ Made(r) /\ Past(r) /\ Winner(r) /\ Answered(r) /\ Counting(r)
    BY <2>1 DEF Placed, Fresh, Made, Past, Winner, Answered, Counting
  <2>4. LockKept(r) /\ KeysKept(r) /\ Slot(r)
    BY <2>1, <2>2 DEF LockKept, KeysKept, Slot
  <2> QED BY <2>3, <2>4 DEF Mine
<1>5. \A k \in Keys : KeyRowRight(k) /\ Latest(k)
  BY DEF Init, KeyRowRight, Latest
<1>6. OneJobPerLiveKey
  BY DEF Init, OneJobPerLiveKey
<1> QED BY <1>1, <1>3, <1>4, <1>5, <1>6 DEF CreateInv

\* Every step keeps the invariant.
LEMMA StepCreateInv == CreateInv /\ [Next]_vars => CreateInv'
<1> SUFFICES ASSUME CreateInv, [Next]_vars PROVE CreateInv'
  OBVIOUS
<1>0. /\ TypeOK /\ CapHeld /\ OneJobPerLiveKey /\ \A r \in Requests : Mine(r)
      /\ \A k \in Keys : KeyRowRight(k) /\ Latest(k)
  BY DEF CreateInv
<1>1. ASSUME TypeOK', Quiet, NEW r, \A q \in Requests : q # r => Untouched(q),
             r \in Requests => Mine(r)'
      PROVE  CreateInv'
  <2>1. CapHeld' /\ \A k \in Keys : KeyRowRight(k)' /\ Latest(k)'
    BY <1>0, <1>1, QuietRows
  <2>2. \A q \in Requests : Mine(q)'
    BY <1>0, <1>1, UntouchedKeeps
  <2>3. OneJobPerLiveKey'
    BY <1>0, <1>1, QuietKeys
  <2> QED BY <1>1, <2>1, <2>2, <2>3 DEF CreateInv
<1>2. ASSUME NEW r \in Requests, Arrive(r) \/ RequestStep(r) \/ Abort(r)
      PROVE  CreateInv'
  <2>1. CASE Moves(r)
    BY <1>1, <2>1 DEF Moves
  <2>2. CASE Commit(r)
    <3>1. Commits(r) /\ TypeOK' /\ \A q \in Requests : q # r => Untouched(q)
      BY <1>0, <2>2, CommitEffect
    <3>2. CapHeld'
      BY <1>0, <3>1, CommitCount
    <3>3. Mine(r)'
      BY <1>0, <3>1, CommitMine
    <3>4. \A q \in Requests : q # r => Mine(q)'
      BY <1>0, <3>1, CommitOthers
    <3>5. \A k \in Keys : KeyRowRight(k)' /\ Latest(k)'
      BY <1>0, <3>1, CommitRows
    <3>6. OneJobPerLiveKey'
      BY <1>0, <3>1, <3>5, CommitKeys
    <3> QED BY <3>1, <3>2, <3>3, <3>4, <3>5, <3>6 DEF CreateInv
  <2> QED BY <1>0, <1>2, <2>1, <2>2, RequestMoves
<1>3. CASE (\E j \in Requests : JobEnds(j) \/ RetryJob(j)) \/ Tick
  <2>1. TypeOK' /\ Quiet /\ \A q \in Requests : Untouched(q)
    BY <1>0, <1>3, AroundQuiet
  <2> QED BY <1>1, <2>1, CreateAssumption
<1>4. CASE UNCHANGED vars
  <2>1. UNCHANGED <<now, req, pc, ts, pending, jobs, keyRow, keyLock, lock, resp, ready,
                    reopened>>
    BY <1>4 DEF vars
  <2>2. TypeOK'
    BY <1>0, <2>1 DEF TypeOK
  <2>3. Quiet
    BY <1>0, <2>1, StillQuiet
  <2>4. \A q \in Requests : Untouched(q)
    BY <2>1 DEF Untouched
  <2> QED BY <1>1, <2>2, <2>3, <2>4, CreateAssumption
<1> QED BY <1>2, <1>3, <1>4 DEF Next

\* The invariant holds throughout.
THEOREM CreateInvariant == Spec => []CreateInv
BY InitCreateInv, StepCreateInv, PTL DEF Spec

\* The variables keep their types: the columns of every committed and every
\* uncommitted row, the holders of the locks and the handlers' places.
THEOREM TypeCorrect == Spec => []TypeOK
<1>1. CreateInv => TypeOK
  BY DEF CreateInv
<1> QED BY <1>1, CreateInvariant, PTL

\* Idempotency: one job per life of a key, and every answer that names a job
\* names a committed one of the request's own key, body and endpoint.
THEOREM IdempotentCreationHolds == Spec => []IdempotentCreation
<1>1. CreateInv => OneJobPerLiveKey
  BY DEF CreateInv
<1>2. CreateInv => AnswersOwnRequest
  BY DEF CreateInv, Mine, Answered, AnswersOwnRequest, OfRequest
<1> QED BY <1>1, <1>2, CreateInvariant, PTL DEF IdempotentCreation

\* The concurrent-job cap is never exceeded by the jobs that requests made,
\* under any interleaving of any number of requests.
THEOREM CapHeldHolds == Spec => []CapHeld
<1>1. CreateInv => CapHeld
  BY DEF CreateInv
<1> QED BY <1>1, CreateInvariant, PTL

\* What a step of ReplayWinsOverCap says.
CapStep ==
    \A r \in Requests :
        /\ resp[r] = None /\ resp'[r] # None /\ resp'[r].kind = "cap"
        /\ req[r].key # None /\ HasLiveRow(req[r].key, ts[r])
        => jobs[keyRow[req[r].key].job].reused

\* Only the count answers with the cap.
LEMMA OnlyCountCaps ==
  ASSUME CreateInv, NEW r \in Requests, Arrive(r) \/ RequestStep(r) \/ Abort(r),
         resp[r] = None, resp'[r] # None, resp'[r].kind = "cap"
  PROVE  CountLive(r)
<1>0. TypeOK /\ Mine(r) /\ \A k \in Keys : KeyRowRight(k)
  BY DEF CreateInv
<1>1. ASSUME NEW kind \in {"job", "denied", "conflict", "blocked", "unroutable", "error"},
             NEW j \in Requests \cup {None}, Reply(r, kind, j)
      PROVE  FALSE
  BY <1>0, <1>1, ReplyEffect
<1>2. ASSUME NEW row \in KeyRow, Replayed(r, row)
      PROVE  FALSE
  BY <1>0, <1>2, ReplayedEffect
<1>3. CASE LookupReplay(r) \/ ReplayExisting(r)
  <2>1. req[r] # None /\ req[r].key # None
    BY <1>0, <1>3 DEF LookupReplay, ReplayExisting, Mine, Placed
  <2>2. keyRow[req[r].key] # None => keyRow[req[r].key] \in KeyRow
    BY <1>0, <2>1, RequestRead, RowRead
  <2>3. \/ keyRow[req[r].key] # None /\ Replayed(r, keyRow[req[r].key])
        \/ Reply(r, "error", None) \/ UNCHANGED resp
    BY <1>3 DEF LookupReplay, ReplayExisting, HasLiveRow
  <2> QED BY <1>1, <1>2, <2>2, <2>3
<1>4. CASE Commit(r)
  <2>1. Commits(r)
    BY <1>0, <1>4, CommitEffect
  <2> QED BY <2>1 DEF Commits
<1>5. CASE Gate(r) \/ PlanReuse(r)
  <2>1. UNCHANGED resp \/ Reply(r, "blocked", None) \/ Reply(r, "unroutable", None)
    BY <1>5 DEF Gate, PlanReuse
  <2> QED BY <1>1, <2>1
<1>6. CASE Abort(r) \/ Enqueue(r) \/ EnqueueFails(r)
  <2>1. Reply(r, "error", None) \/ Reply(r, "job", r)
    BY <1>6 DEF Abort, Enqueue, EnqueueFails
  <2> QED BY <1>1, <2>1
<1>7. CASE \/ Arrive(r) \/ BeginCreate(r) \/ AcquireLock(r) \/ LookupUnderLock(r)
           \/ InsertJob(r) \/ CreateCompleted(r) \/ InsertIdempotencyKey(r)
  <2>1. UNCHANGED resp
    BY <1>7 DEF Arrive, BeginCreate, AcquireLock, LookupUnderLock, InsertJob,
                CreateCompleted, InsertIdempotencyKey
  <2> QED BY <2>1
<1> QED BY <1>3, <1>4, <1>5, <1>6, <1>7 DEF RequestStep

\* Replay wins over the cap: a request turned away at the cap has no live row
\* of an accepted or denied request under its key.
THEOREM ReplayWinsOverCapHolds == Spec => ReplayWinsOverCap
<1>1. CreateInv /\ [Next]_vars => [CapStep]_vars
  <2>1. SUFFICES ASSUME CreateInv, Next, NEW r \in Requests,
                        resp[r] = None, resp'[r] # None, resp'[r].kind = "cap",
                        req[r].key # None, HasLiveRow(req[r].key, ts[r])
                 PROVE  jobs[keyRow[req[r].key].job].reused
    BY DEF CapStep
  <2>2. TypeOK /\ \A q \in Requests : Mine(q) /\ \A k \in Keys : KeyRowRight(k)
    BY <2>1 DEF CreateInv
  <2>3. ASSUME \A q \in Requests : q # r => ~(Arrive(q) \/ RequestStep(q) \/ Abort(q)),
               ~(Arrive(r) \/ RequestStep(r) \/ Abort(r))
        PROVE  FALSE
    <3>1. (\E j \in Requests : JobEnds(j) \/ RetryJob(j)) \/ Tick
      BY <2>1, <2>3 DEF Next
    <3>2. UNCHANGED resp
      BY <3>1 DEF JobEnds, RetryJob, Tick
    <3> QED BY <2>1, <3>2
  <2>4. ASSUME NEW q \in Requests, q # r, Arrive(q) \/ RequestStep(q) \/ Abort(q)
        PROVE  FALSE
    <3>1. Moves(q) \/ Commit(q)
      BY <2>2, <2>4, RequestMoves
    <3>2. Untouched(r)
      BY <2>2, <2>4, <3>1, CommitEffect DEF Moves
    <3> QED BY <2>1, <3>2 DEF Untouched
  <2>5. CountLive(r)
    BY <2>1, <2>3, <2>4, OnlyCountCaps
  <2>6. pc[r] = "count"
    BY <2>5 DEF CountLive
  <2> QED BY <2>1, <2>2, <2>6 DEF Mine, Counting
<1> QED BY <1>1, CreateInvariant, PTL DEF Spec, ReplayWinsOverCap, CapStep

-----------------------------------------------------------------------------
(***************************************************************************)
(* The limiter in front of the handlers (module RateLimit), for the        *)
(* requests of the same token, any windows of which the hour is a multiple *)
(* of the minute, and any limits.  A request counted by a window holds a   *)
(* ticket: the count it was given and the life of the key that gave it.    *)
(* Tickets of one life of a key are distinct and no higher than the key's  *)
(* count; a ticket above one has another request behind it.                *)
(***************************************************************************)

Windows == {Minute, Hour}
TicketType == [count : Nat, created : Int]
Local == [now : Nat, minute : TicketType, hour : TicketType, retryAfter : Nat]

\* What a request holds of a window's counter, and the key it counted on.
Ticket(r, w) == IF w = Minute THEN seen[r].minute ELSE seen[r].hour
KeyOf(r, w) == Key(seen[r].now, w)
Touched(r, w) == stage[r] \notin (IF w = Minute THEN {"start", "minute"} ELSE {"start", "minute", "hour"})

LimiterTypes ==
    /\ wall \in Nat
    /\ DOMAIN counters \subseteq Windows \X Nat
    /\ counters \in [DOMAIN counters -> [count : Nat \ {0}, created : Nat, expires : Nat]]
    /\ stage \in [Calls -> {"start", "minute", "hour", "allowed", "denied", "failed_open"}]
    /\ seen \in [Calls -> Local]

\* A live key has not expired, and some request went to it.
KeysLive ==
    \A k \in DOMAIN counters :
        /\ counters[k].expires = counters[k].created + k[1] /\ counters[k].expires > wall
        /\ \E o \in Calls : Touched(o, k[1]) /\ KeyOf(o, k[1]) = k

\* Nothing is counted before its increment.
UncountedBlank ==
    \A r \in Calls : \A w \in Windows : ~Touched(r, w) => Ticket(r, w).count = 0

\* A counted request's key is still the one it counted on, whose count is no
\* smaller, or has expired.
TicketsCurrent(w) ==
    \A r \in Calls : Ticket(r, w).count # 0 =>
        \/ /\ KeyOf(r, w) \in DOMAIN counters
           /\ counters[KeyOf(r, w)].created = Ticket(r, w).created
           /\ Ticket(r, w).count <= counters[KeyOf(r, w)].count
        \/ Ticket(r, w).created + w <= wall

\* Two requests counted by the same life of a key have different counts.
TicketsDistinct(w) ==
    \A r, q \in Calls :
        /\ r # q /\ KeyOf(r, w) = KeyOf(q, w)
        /\ Ticket(r, w).count # 0 /\ Ticket(r, w).created = Ticket(q, w).created
        => Ticket(r, w).count # Ticket(q, w).count

\* A count above one is another request's doing.
TicketsShared(w) ==
    \A r \in Calls : Ticket(r, w).count > 1 =>
        \E o \in Calls \ {r} : Touched(o, w) /\ KeyOf(o, w) = KeyOf(r, w)

\* The answer follows from the two counts.
AnswersFollow ==
    \A r \in Calls :
        /\ stage[r] \in {"allowed", "denied"} => seen[r].minute.count # 0 /\ seen[r].hour.count # 0
        /\ stage[r] = "allowed" => /\ seen[r].minute.count <= RequestsPerMinute
                                   /\ seen[r].hour.count <= RequestsPerHour
        /\ stage[r] = "denied" =>
              IF seen[r].hour.count > RequestsPerHour
              THEN seen[r].now + seen[r].retryAfter = Reset(seen[r].now, Hour)
              ELSE /\ seen[r].minute.count > RequestsPerMinute
                   /\ seen[r].now + seen[r].retryAfter = Reset(seen[r].now, Minute)
        /\ stage[r] = "hour" => seen[r].minute.count # 0

WindowInv(w) == TicketsCurrent(w) /\ TicketsDistinct(w) /\ TicketsShared(w)

LimiterInv ==
    /\ LimiterTypes /\ KeysLive /\ UncountedBlank /\ AnswersFollow
    /\ WindowInv(Minute) /\ WindowInv(Hour)

-----------------------------------------------------------------------------
(* Windows and their keys *)

\* A time lies in the window its quotient names.
LEMMA InItsWindow ==
  ASSUME NEW n \in Nat, NEW w \in Nat \ {0}
  PROVE  n \div w \in Nat /\ (n \div w) * w <= n /\ n < (n \div w + 1) * w
OBVIOUS

\* Every time before a boundary is in an earlier window.
LEMMA BeforeBoundary ==
  ASSUME NEW a \in Nat, NEW m \in Nat, NEW w \in Nat \ {0}, a < m * w
  PROVE  a \div w < m
<1> DEFINE d == a \div w
<1>1. d \in Nat /\ d * w <= a BY InItsWindow
<1> HIDE DEF d
<1>2. SUFFICES ASSUME d >= m PROVE FALSE BY <1>1 DEF d
<1>3. PICK e \in Nat : d = m + e BY <1>1, <1>2
<1>4. d * w = m * w + e * w BY <1>3
<1>5. e * w >= 0 BY <1>3
<1> QED BY <1>1, <1>3, <1>4, <1>5

\* The end of an hour is the end of a minute.
LEMMA HourEndsMinute ==
  ASSUME NEW m \in Nat
  PROVE  \E n \in Nat : m * Hour = n * Minute
<1>1. PICK c \in Nat : Hour = c * Minute BY WindowAssumption
<1>2. m * (c * Minute) = (m * c) * Minute /\ m * c \in Nat BY <1>1, WindowAssumption
<1> QED BY <1>1, <1>2

\* A request that reads the time at a boundary shares its key with no earlier one.
LEMMA BoundaryIsFresh ==
  ASSUME NEW a \in Nat, NEW b \in Nat, NEW m \in Nat, NEW w \in Nat \ {0},
         b = m * w, a < b
  PROVE  Key(a, w) # Key(b, w)
<1>1. a \div w < m BY BeforeBoundary
<1>2. b \div w = m OBVIOUS
<1>3. a \div w \in Nat BY InItsWindow
<1> QED BY <1>1, <1>2, <1>3 DEF Key

\* A key names its window.
LEMMA KeyShape ==
  ASSUME NEW n \in Nat, NEW w \in Windows
  PROVE  Key(n, w) \in Windows \X Nat /\ Key(n, w)[1] = w
BY InItsWindow, WindowAssumption DEF Key, Windows

\* What the script leaves behind.
LEMMA AfterScript ==
  ASSUME LimiterTypes, NEW k \in Windows \X Nat
  PROVE  /\ DOMAIN Increment(k) = DOMAIN counters \cup {k}
         /\ \A j \in DOMAIN counters : j # k => Increment(k)[j] = counters[j]
         /\ k \in DOMAIN counters =>
               /\ Increment(k)[k].count = counters[k].count + 1
               /\ Increment(k)[k].created = counters[k].created
               /\ Increment(k)[k].expires = counters[k].expires
         /\ k \notin DOMAIN counters =>
               Increment(k)[k] = [count |-> 1, created |-> wall, expires |-> wall + k[1]]
         /\ Increment(k) \in [DOMAIN counters \cup {k} -> [count : Nat \ {0}, created : Nat, expires : Nat]]
         /\ CountAfter(k) \in TicketType /\ CountAfter(k).count # 0
         /\ CountAfter(k).count = Increment(k)[k].count
         /\ CountAfter(k).created = Increment(k)[k].created
<1> DEFINE Row == [count : Nat \ {0}, created : Nat, expires : Nat]
<1>1. counters \in [DOMAIN counters -> Row] /\ wall \in Nat /\ k[1] \in Nat
  BY WindowAssumption DEF LimiterTypes, Windows
<1>2. CASE k \in DOMAIN counters
  <2>1. Increment(k) = [counters EXCEPT ![k].count = @ + 1] BY <1>2 DEF Increment
  <2>2. counters[k] \in Row /\ [counters[k] EXCEPT !.count = @ + 1] \in Row BY <1>1, <1>2
  <2>3. Increment(k)[k] = [counters[k] EXCEPT !.count = @ + 1] BY <2>1, <1>2, <1>1
  <2>4. DOMAIN Increment(k) = DOMAIN counters /\ \A j \in DOMAIN counters : j # k => Increment(k)[j] = counters[j]
    BY <2>1, <1>1
  <2>5. Increment(k) \in [DOMAIN counters -> Row] BY <2>1, <2>2, <1>1
  <2>6. DOMAIN counters \cup {k} = DOMAIN counters BY <1>2
  <2>7. Increment(k)[k].count = counters[k].count + 1 /\ Increment(k)[k].count \in Nat \ {0}
        /\ Increment(k)[k].created = counters[k].created /\ Increment(k)[k].created \in Nat
        /\ Increment(k)[k].expires = counters[k].expires
    BY <2>2, <2>3
  <2>8. CountAfter(k) \in TicketType /\ CountAfter(k).count # 0
        /\ CountAfter(k).count = Increment(k)[k].count
        /\ CountAfter(k).created = Increment(k)[k].created
    BY <2>7 DEF CountAfter, TicketType
  <2> QED BY <2>4, <2>5, <2>6, <2>7, <2>8, <1>2
<1>3. CASE k \notin DOMAIN counters
  <2> DEFINE new == [count |-> 1, created |-> wall, expires |-> wall + k[1]]
  <2>1. Increment(k) = [j \in DOMAIN counters \cup {k} |-> IF j = k THEN new ELSE counters[j]]
    BY <1>3 DEF Increment
  <2>2. new \in Row /\ new.count = 1 /\ new.created = wall BY <1>1
  <2> HIDE DEF new
  <2>3. Increment(k)[k] = new /\ DOMAIN Increment(k) = DOMAIN counters \cup {k}
        /\ \A j \in DOMAIN counters : j # k => Increment(k)[j] = counters[j]
    BY <2>1
  <2>4. Increment(k) \in [DOMAIN counters \cup {k} -> Row] BY <2>1, <2>2, <1>1
  <2>5. CountAfter(k) \in TicketType /\ CountAfter(k).count # 0
        /\ CountAfter(k).count = Increment(k)[k].count
        /\ CountAfter(k).created = Increment(k)[k].created
    BY <2>2, <2>3, <1>1 DEF CountAfter, TicketType
  <2> QED BY <2>3, <2>4, <2>5, <1>3 DEF new
<1> QED BY <1>2, <1>3

-----------------------------------------------------------------------------
(* One request goes to one window's counter *)

\* An increment of window w by request r, counted, or lost to a store error
\* before or after the script ran.
Ticketing(r, w) ==
    /\ wall' = wall
    /\ \A q \in Calls : seen'[q].now = seen[q].now
    /\ \A q \in Calls, v \in Windows :
          /\ Touched(q, v) => Touched(q, v)'
          /\ (q # r \/ v # w) => Ticket(q, v)' = Ticket(q, v)
    /\ ~Touched(r, w) /\ Touched(r, w)'
    /\ \/ counters' = counters /\ Ticket(r, w)' = Ticket(r, w)
       \/ counters' = Increment(KeyOf(r, w)) /\ Ticket(r, w)' = Ticket(r, w)
       \/ counters' = Increment(KeyOf(r, w)) /\ Ticket(r, w)' = CountAfter(KeyOf(r, w))

\* Keys and times keep their place, whatever is counted.
LEMMA TicketingFrame ==
  ASSUME LimiterTypes, NEW r \in Calls, NEW w \in Windows, Ticketing(r, w)
  PROVE  /\ \A q \in Calls, v \in Windows :
               KeyOf(q, v)' = KeyOf(q, v) /\ KeyOf(q, v) \in Windows \X Nat /\ KeyOf(q, v)[1] = v
         /\ \A q \in Calls, v \in Windows : Ticket(q, v) \in TicketType
         /\ DOMAIN counters \subseteq DOMAIN counters'
         /\ \A k \in DOMAIN counters : k # KeyOf(r, w) => counters'[k] = counters[k]
         /\ DOMAIN counters' \subseteq DOMAIN counters \cup {KeyOf(r, w)}
         /\ \A k \in DOMAIN counters :
               /\ counters'[k].created = counters[k].created /\ counters'[k].expires = counters[k].expires
               /\ counters[k].count <= counters'[k].count /\ counters[k].count \in Nat /\ counters[k].created \in Nat
<1>1. \A q \in Calls : seen[q].now \in Nat /\ seen[q].minute \in TicketType /\ seen[q].hour \in TicketType
  BY DEF LimiterTypes, Local
<1>2. \A q \in Calls, v \in Windows :
         KeyOf(q, v)' = KeyOf(q, v) /\ KeyOf(q, v) \in Windows \X Nat /\ KeyOf(q, v)[1] = v
  BY <1>1, KeyShape DEF KeyOf, Key, Ticketing
<1>3. \A q \in Calls, v \in Windows : Ticket(q, v) \in TicketType
  BY <1>1 DEF Ticket
<1> DEFINE k0 == KeyOf(r, w)
<1>4. k0 \in Windows \X Nat BY <1>2
<1>5. \A k \in DOMAIN counters : counters[k].count \in Nat /\ counters[k].created \in Nat
  BY DEF LimiterTypes
<1>6. counters' = counters \/ counters' = Increment(k0) BY DEF Ticketing
<1> HIDE DEF k0
<1>7. CASE counters' = counters
  BY <1>2, <1>3, <1>5, <1>7 DEF k0
<1>8. CASE counters' = Increment(k0)
  <2>1. DOMAIN counters' = DOMAIN counters \cup {k0} BY <1>8, <1>4, AfterScript
  <2>2. \A k \in DOMAIN counters : k # k0 => counters'[k] = counters[k] BY <1>8, <1>4, AfterScript
  <2>3. k0 \in DOMAIN counters => /\ counters'[k0].count = counters[k0].count + 1
                                  /\ counters'[k0].created = counters[k0].created
                                  /\ counters'[k0].expires = counters[k0].expires
    BY <1>8, <1>4, AfterScript
  <2>4. ASSUME NEW k \in DOMAIN counters
        PROVE  /\ counters'[k].created = counters[k].created /\ counters'[k].expires = counters[k].expires
               /\ counters[k].count <= counters'[k].count
    BY <2>2, <2>3, <1>5
  <2> QED BY <2>1, <2>2, <2>4, <1>2, <1>3, <1>5 DEF k0
<1> QED BY <1>6, <1>7, <1>8

\* A live key stays live and visited; a new one is visited by its creator.
LEMMA TicketingKeepsKeys ==
  ASSUME LimiterTypes, KeysLive, NEW r \in Calls, NEW w \in Windows, Ticketing(r, w)
  PROVE  KeysLive'
<1>1. SUFFICES ASSUME NEW k \in DOMAIN counters'
      PROVE  /\ counters'[k].expires = counters'[k].created + k[1] /\ counters'[k].expires > wall'
             /\ \E o \in Calls : Touched(o, k[1])' /\ KeyOf(o, k[1])' = k
  BY DEF KeysLive
<1>2. CASE k \in DOMAIN counters
  <2>1. k[1] \in Windows BY <1>2 DEF LimiterTypes
  <2>2. PICK o \in Calls : Touched(o, k[1]) /\ KeyOf(o, k[1]) = k BY <1>2 DEF KeysLive
  <2>3. Touched(o, k[1])' /\ KeyOf(o, k[1])' = k BY <2>1, <2>2, TicketingFrame DEF Ticketing
  <2>4. counters'[k].expires = counters'[k].created + k[1] /\ counters'[k].expires > wall'
    BY <1>2, TicketingFrame DEF KeysLive, Ticketing
  <2> QED BY <2>3, <2>4
<1>3. CASE k \notin DOMAIN counters
  <2>1. k = KeyOf(r, w) /\ counters' = Increment(k) BY <1>1, <1>3, TicketingFrame DEF Ticketing
  <2>2. k \in Windows \X Nat /\ k[1] = w /\ KeyOf(r, w)' = k BY <2>1, TicketingFrame
  <2>3. counters'[k] = [count |-> 1, created |-> wall, expires |-> wall + k[1]]
    BY <2>1, <2>2, <1>3, AfterScript
  <2>4. counters'[k].expires = counters'[k].created + k[1] /\ counters'[k].expires > wall'
    BY <2>2, <2>3, WindowAssumption DEF Ticketing, LimiterTypes, Windows
  <2>5. Touched(r, k[1])' /\ KeyOf(r, k[1])' = k BY <2>2 DEF Ticketing
  <2> QED BY <2>4, <2>5
<1> QED BY <1>2, <1>3

\* An uncounted request stays blank.
LEMMA TicketingKeepsBlank ==
  ASSUME UncountedBlank, NEW r \in Calls, NEW w \in Windows, Ticketing(r, w)
  PROVE  UncountedBlank'
<1>1. SUFFICES ASSUME NEW q \in Calls, NEW v \in Windows, ~Touched(q, v)'
      PROVE  Ticket(q, v)'.count = 0
  BY DEF UncountedBlank, Windows
<1>2. ~Touched(q, v) /\ (q # r \/ v # w) BY <1>1 DEF Ticketing
<1> QED BY <1>2 DEF UncountedBlank, Ticketing

\* The request that was counted stands last on a live key: no ticket of the
\* same life of the key is as high.
LEMMA CountedLast ==
  ASSUME LimiterTypes, KeysLive,
         NEW r \in Calls, NEW w \in Windows, TicketsCurrent(w), Ticketing(r, w),
         Ticket(r, w)' = CountAfter(KeyOf(r, w)), counters' = Increment(KeyOf(r, w)),
         NEW q \in Calls \ {r}, Ticket(q, w).count # 0, KeyOf(q, w) = KeyOf(r, w),
         Ticket(q, w).created = Ticket(r, w)'.created
  PROVE  Ticket(q, w).count < Ticket(r, w)'.count
<1> DEFINE k == KeyOf(r, w)
<1>1. k \in Windows \X Nat BY TicketingFrame
<1>2. Ticket(r, w)'.count = Increment(k)[k].count /\ Ticket(r, w)'.created = Increment(k)[k].created
  BY <1>1, AfterScript
<1>3. Ticket(q, w) \in TicketType BY TicketingFrame
<1> HIDE DEF k
<1>4. CASE k \in DOMAIN counters
  <2>1. Ticket(r, w)'.count = counters[k].count + 1 /\ Ticket(r, w)'.created = counters[k].created
    BY <1>1, <1>2, <1>4, AfterScript
  <2>2. counters[k].created + w > wall BY <1>4, TicketingFrame DEF KeysLive, k
  <2>3. Ticket(q, w).count <= counters[k].count
    <3>1. KeyOf(q, w) = k /\ Ticket(q, w).created = counters[k].created BY <2>1 DEF k
    <3>2. \/ Ticket(q, w).count <= counters[k].count
          \/ Ticket(q, w).created + w <= wall
      BY <3>1 DEF TicketsCurrent
    <3>3. counters[k].created \in Nat /\ wall \in Nat /\ w \in Nat
      BY <1>4, WindowAssumption DEF LimiterTypes, Windows
    <3> QED BY <3>1, <3>2, <3>3, <2>2
  <2>4. counters[k].count \in Nat BY <1>4 DEF LimiterTypes
  <2>5. Ticket(q, w).count \in Nat BY <1>3 DEF TicketType
  <2> QED BY <2>1, <2>3, <2>4, <2>5
<1>5. CASE k \notin DOMAIN counters
  <2>1. Ticket(r, w)'.created = wall
    <3>1. Increment(k)[k] = [count |-> 1, created |-> wall, expires |-> wall + k[1]]
      BY <1>1, <1>5, AfterScript
    <3>2. Increment(k)[k].created = wall BY <3>1
    <3> QED BY <3>2, <1>2
  <2>2. wall + w <= wall BY <2>1, <1>5 DEF TicketsCurrent, k
  <2> QED BY <2>2, WindowAssumption DEF LimiterTypes, Windows
<1> QED BY <1>4, <1>5

\* Every other ticket is what it was.
LEMMA OldTicket ==
  ASSUME NEW r \in Calls, NEW w \in Windows, Ticketing(r, w),
         NEW q \in Calls, NEW v \in Windows,
         ~(q = r /\ v = w /\ Ticket(r, w)' = CountAfter(KeyOf(r, w)) /\ counters' = Increment(KeyOf(r, w)))
  PROVE  Ticket(q, v)' = Ticket(q, v)
BY DEF Ticketing

\* Tickets stay current, distinct and explained when one more is handed out.
LEMMA TicketingKeepsWindow ==
  ASSUME LimiterTypes, KeysLive,
         NEW r \in Calls, NEW w \in Windows, Ticketing(r, w),
         NEW v \in Windows, WindowInv(v)
  PROVE  WindowInv(v)'
<1> DEFINE k == KeyOf(r, w)
           Handed(q) == q = r /\ v = w /\ Ticket(r, w)' = CountAfter(k) /\ counters' = Increment(k)
<1>1. k \in Windows \X Nat BY TicketingFrame
<1>2. \A q \in Calls : ~Handed(q) => Ticket(q, v)' = Ticket(q, v) BY OldTicket
<1>3. \A q \in Calls : KeyOf(q, v)' = KeyOf(q, v) BY TicketingFrame
<1>4. TicketsCurrent(v)'
  <2>1. SUFFICES ASSUME NEW q \in Calls, Ticket(q, v)'.count # 0
        PROVE  \/ /\ KeyOf(q, v)' \in DOMAIN counters'
                  /\ counters'[KeyOf(q, v)'].created = Ticket(q, v)'.created
                  /\ Ticket(q, v)'.count <= counters'[KeyOf(q, v)'].count
               \/ Ticket(q, v)'.created + v <= wall'
    BY DEF TicketsCurrent
  <2>2. CASE Handed(q)
    <3>1. Ticket(q, v)'.count = counters'[k].count /\ Ticket(q, v)'.created = counters'[k].created
      BY <2>2, <1>1, AfterScript
    <3>2. KeyOf(q, v)' = k /\ k \in DOMAIN counters' BY <2>2, <1>1, <1>3, AfterScript
    <3>3. Ticket(q, v)'.count \in Nat
      BY <2>2, <1>1, AfterScript DEF TicketType
    <3> QED BY <3>1, <3>2, <3>3
  <2>3. CASE ~Handed(q)
    <3>1. Ticket(q, v)' = Ticket(q, v) /\ KeyOf(q, v)' = KeyOf(q, v) BY <2>3, <1>2, <1>3
    <3>2. CASE Ticket(q, v).created + v <= wall BY <3>1, <3>2 DEF Ticketing
    <3>3. CASE /\ KeyOf(q, v) \in DOMAIN counters
               /\ counters[KeyOf(q, v)].created = Ticket(q, v).created
               /\ Ticket(q, v).count <= counters[KeyOf(q, v)].count
      <4> DEFINE j == KeyOf(q, v)
      <4>1. /\ j \in DOMAIN counters' /\ counters'[j].created = counters[j].created
            /\ counters[j].count <= counters'[j].count
        BY <3>3, TicketingFrame
      <4>2. Ticket(q, v).count \in Nat BY TicketingFrame DEF TicketType
      <4>3. counters[j].count \in Nat /\ counters'[j].count \in Nat
        <5>1. counters[j].count \in Nat BY <3>3, TicketingFrame
        <5>2. counters' = counters \/ counters' = Increment(k) BY DEF Ticketing
        <5>3. Increment(k) \in [DOMAIN counters \cup {k} -> [count : Nat \ {0}, created : Nat, expires : Nat]]
          BY <1>1, AfterScript
        <5>4. counters'[j].count \in Nat
          <6>1. CASE counters' = counters BY <6>1, <5>1
          <6>2. CASE counters' = Increment(k) BY <6>2, <5>3, <3>3
          <6> QED BY <6>1, <6>2, <5>2
        <5> QED BY <5>1, <5>4
      <4> HIDE DEF j
      <4>4. Ticket(q, v).count <= counters'[j].count BY <4>1, <4>2, <4>3, <3>3 DEF j
      <4> QED BY <4>1, <4>4, <3>1, <3>3 DEF j
    <3> QED BY <2>1, <3>1, <3>2, <3>3 DEF WindowInv, TicketsCurrent
  <2> QED BY <2>2, <2>3
<1>5. TicketsDistinct(v)'
  <2>1. SUFFICES ASSUME NEW p \in Calls, NEW q \in Calls,
                        p # q, KeyOf(p, v)' = KeyOf(q, v)', Ticket(p, v)'.count # 0,
                        Ticket(p, v)'.created = Ticket(q, v)'.created,
                        Ticket(p, v)'.count = Ticket(q, v)'.count
        PROVE  FALSE
    BY DEF TicketsDistinct
  <2>2. KeyOf(p, v) = KeyOf(q, v) BY <2>1, <1>3
  <2>3. \A o \in Calls : Ticket(o, v) \in TicketType BY TicketingFrame
  <2>4. CASE Handed(p)
    <3>1. q # r /\ Ticket(q, v)' = Ticket(q, v) BY <2>1, <2>4, <1>2
    <3>2. Ticket(q, w).count < Ticket(r, w)'.count
      BY <2>1, <2>2, <2>4, <3>1, CountedLast DEF WindowInv
    <3>3. Ticket(r, w)'.count = Ticket(q, w).count /\ Ticket(q, w).count \in Nat
      BY <2>1, <2>3, <2>4, <3>1 DEF TicketType
    <3> QED BY <3>2, <3>3
  <2>5. CASE Handed(q)
    <3>1. p # r /\ Ticket(p, v)' = Ticket(p, v) BY <2>1, <2>5, <1>2
    <3>2. Ticket(p, w).count < Ticket(r, w)'.count
      BY <2>1, <2>2, <2>5, <3>1, CountedLast DEF WindowInv
    <3>3. Ticket(r, w)'.count = Ticket(p, w).count /\ Ticket(p, w).count \in Nat
      BY <2>1, <2>3, <2>5, <3>1 DEF TicketType
    <3> QED BY <3>2, <3>3
  <2>6. CASE ~Handed(p) /\ ~Handed(q)
    BY <2>1, <2>2, <2>6, <1>2 DEF WindowInv, TicketsDistinct
  <2> QED BY <2>4, <2>5, <2>6
<1>6. TicketsShared(v)'
  <2>1. SUFFICES ASSUME NEW q \in Calls, Ticket(q, v)'.count > 1
        PROVE  \E o \in Calls \ {q} : Touched(o, v)' /\ KeyOf(o, v)' = KeyOf(q, v)'
    BY DEF TicketsShared
  <2>2. \A o \in Calls : Touched(o, v) => Touched(o, v)' BY DEF Ticketing
  <2>3. CASE Handed(q)
    <3>1. k \in DOMAIN counters
      <4>1. SUFFICES ASSUME k \notin DOMAIN counters PROVE FALSE OBVIOUS
      <4>2. Increment(k)[k] = [count |-> 1, created |-> wall, expires |-> wall + k[1]]
        BY <4>1, <1>1, AfterScript
      <4>3. Increment(k)[k].count = 1 BY <4>2
      <4>4. CountAfter(k).count = 1 BY <4>3, <1>1, AfterScript
      <4> QED BY <4>4, <2>1, <2>3
    <3>2. k[1] = v BY <2>3, TicketingFrame
    <3>3. PICK o \in Calls : Touched(o, v) /\ KeyOf(o, v) = k
      BY <3>1, <3>2 DEF KeysLive
    <3>4. o # q BY <3>3, <2>3 DEF Ticketing
    <3> QED BY <2>2, <2>3, <3>3, <3>4, <1>3
  <2>4. CASE ~Handed(q)
    <3>1. PICK o \in Calls \ {q} : Touched(o, v) /\ KeyOf(o, v) = KeyOf(q, v)
      BY <2>1, <2>4, <1>2 DEF WindowInv, TicketsShared
    <3> QED BY <2>2, <3>1, <1>3
  <2> QED BY <2>3, <2>4
<1> QED BY <1>4, <1>5, <1>6 DEF WindowInv

-----------------------------------------------------------------------------
(* The steps *)

\* Initially nothing is counted and no key is live.
LEMMA LimiterInit == ASSUME LimitInit PROVE LimiterInv
<1>1. \A r \in Calls :
         /\ stage[r] = "start" /\ seen[r].now = 0 /\ seen[r].retryAfter = 0
         /\ seen[r].minute = NoCount /\ seen[r].hour = NoCount
  BY DEF LimitInit, NoTickets
<1>2. NoCount \in TicketType /\ NoCount.count = 0 BY DEF NoCount, TicketType
<1>3. \A r \in Calls, w \in Windows : Ticket(r, w).count = 0 BY <1>1, <1>2 DEF Ticket
<1>4. DOMAIN counters = {} BY DEF LimitInit
<1>5. LimiterTypes
  <2>1. NoTickets \in Local
    BY <1>2 DEF NoTickets, Local
  <2>2. seen \in [Calls -> Local]
    BY <2>1 DEF LimitInit
  <2>3. counters = [k \in {} |-> 0] BY DEF LimitInit
  <2>4. counters \in [DOMAIN counters -> [count : Nat \ {0}, created : Nat, expires : Nat]] BY <2>3, <1>4
  <2> QED BY <2>2, <2>4, <1>4 DEF LimiterTypes, LimitInit
<1>6. KeysLive BY <1>4 DEF KeysLive
<1>7. UncountedBlank BY <1>3 DEF UncountedBlank
<1>8. AnswersFollow BY <1>1 DEF AnswersFollow
<1>9. ASSUME NEW w \in Windows PROVE WindowInv(w)
  BY <1>3 DEF WindowInv, TicketsCurrent, TicketsDistinct, TicketsShared
<1> QED BY <1>5, <1>6, <1>7, <1>8, <1>9 DEF LimiterInv, Windows

\* Time passes: a key that is dropped has reached its age.
LEMMA LimiterTick == ASSUME LimiterInv, LimitTick PROVE LimiterInv'
<1>1. wall \in Nat /\ wall' = wall + 1 /\ stage' = stage /\ seen' = seen BY DEF LimiterInv, LimiterTypes, LimitTick
<1>2. /\ DOMAIN counters' = {j \in DOMAIN counters : counters[j].expires > wall + 1}
      /\ \A k \in DOMAIN counters' : counters'[k] = counters[k]
      /\ counters' = [k \in {j \in DOMAIN counters : counters[j].expires > wall + 1} |-> counters[k]]
  BY DEF LimitTick
<1>3. \A q \in Calls, v \in Windows :
         /\ Ticket(q, v)' = Ticket(q, v) /\ KeyOf(q, v)' = KeyOf(q, v)
         /\ Touched(q, v)' <=> Touched(q, v)
  BY <1>1 DEF Ticket, KeyOf, Key, Touched
<1>4. LimiterTypes'
  <2>1. counters' \in [DOMAIN counters' -> [count : Nat \ {0}, created : Nat, expires : Nat]]
    BY <1>2 DEF LimiterInv, LimiterTypes
  <2> QED BY <2>1, <1>1, <1>2 DEF LimiterInv, LimiterTypes
<1>5. KeysLive'
  <2>1. SUFFICES ASSUME NEW k \in DOMAIN counters'
        PROVE  /\ counters'[k].expires = counters'[k].created + k[1] /\ counters'[k].expires > wall'
               /\ \E o \in Calls : Touched(o, k[1])' /\ KeyOf(o, k[1])' = k
    BY DEF KeysLive
  <2>2. k \in DOMAIN counters /\ counters'[k] = counters[k] /\ counters[k].expires > wall + 1 BY <1>2
  <2>3. k[1] \in Windows BY <2>2 DEF LimiterInv, LimiterTypes
  <2>4. PICK o \in Calls : Touched(o, k[1]) /\ KeyOf(o, k[1]) = k BY <2>2 DEF LimiterInv, KeysLive
  <2>5. Touched(o, k[1])' /\ KeyOf(o, k[1])' = k BY <2>3, <2>4, <1>3
  <2>6. counters[k].expires = counters[k].created + k[1] BY <2>2 DEF LimiterInv, KeysLive
  <2> QED BY <2>2, <2>5, <2>6, <1>1
<1>6. UncountedBlank' BY <1>3 DEF LimiterInv, UncountedBlank
<1>7. AnswersFollow' BY <1>1 DEF LimiterInv, AnswersFollow
<1>8. ASSUME NEW w \in Windows, WindowInv(w) PROVE WindowInv(w)'
  <2>1. TicketsCurrent(w)'
    <3>1. SUFFICES ASSUME NEW r \in Calls, Ticket(r, w)'.count # 0
          PROVE  \/ /\ KeyOf(r, w)' \in DOMAIN counters'
                    /\ counters'[KeyOf(r, w)'].created = Ticket(r, w)'.created
                    /\ Ticket(r, w)'.count <= counters'[KeyOf(r, w)'].count
                 \/ Ticket(r, w)'.created + w <= wall'
      BY DEF TicketsCurrent
    <3> DEFINE k == KeyOf(r, w)
    <3>2. Ticket(r, w).created \in Int
      <4>1. seen[r].minute.created \in Int /\ seen[r].hour.created \in Int
        BY DEF LimiterInv, LimiterTypes, TicketType, Local
      <4> QED BY <4>1 DEF Ticket
    <3>3. w \in Nat BY WindowAssumption DEF Windows
    <3>4. Ticket(r, w)' = Ticket(r, w) /\ KeyOf(r, w)' = k BY <1>3
    <3>5. CASE Ticket(r, w).created + w <= wall BY <3>2, <3>3, <3>4, <3>5, <1>1
    <3>6. CASE /\ k \in DOMAIN counters /\ counters[k].created = Ticket(r, w).created
               /\ Ticket(r, w).count <= counters[k].count
      <4>1. CASE counters[k].expires > wall + 1 BY <4>1, <3>4, <3>6, <1>2
      <4>2. CASE ~(counters[k].expires > wall + 1)
        <5>1. seen[r].now \in Nat BY DEF LimiterInv, LimiterTypes, Local
        <5>2. k[1] = w BY <5>1, KeyShape DEF KeyOf
        <5>3. counters[k].expires = Ticket(r, w).created + w BY <5>2, <3>6 DEF LimiterInv, KeysLive
        <5> QED BY <5>3, <4>2, <3>2, <3>3, <3>4, <1>1
      <4> QED BY <4>1, <4>2
    <3> QED BY <3>1, <3>4, <3>5, <3>6, <1>8 DEF WindowInv, TicketsCurrent
  <2>2. TicketsDistinct(w)' BY <1>3, <1>8 DEF WindowInv, TicketsDistinct
  <2>3. TicketsShared(w)' BY <1>3, <1>8 DEF WindowInv, TicketsShared
  <2> QED BY <2>1, <2>2, <2>3 DEF WindowInv
<1> QED BY <1>4, <1>5, <1>6, <1>7, <1>8 DEF LimiterInv, Windows

\* A request reads the time: it has touched no key yet.
LEMMA LimiterAllow ==
  ASSUME LimiterInv, NEW r \in Calls, Allow(r) PROVE LimiterInv'
<1>0. LimiterTypes BY DEF LimiterInv
<1>1. /\ wall' = wall /\ counters' = counters /\ wall \in Nat
      /\ stage \in [Calls -> {"start", "minute", "hour", "allowed", "denied", "failed_open"}]
      /\ stage[r] = "start" /\ stage' = [stage EXCEPT ![r] = "minute"]
      /\ seen \in [Calls -> Local] /\ seen' = [seen EXCEPT ![r].now = wall]
  BY <1>0 DEF LimiterTypes, Allow, Advance
<1>2. /\ seen[r] \in Local /\ [seen[r] EXCEPT !.now = wall] \in Local
      /\ [seen[r] EXCEPT !.now = wall].minute = seen[r].minute
      /\ [seen[r] EXCEPT !.now = wall].hour = seen[r].hour
  BY <1>1 DEF Local
<1>3. seen'[r] = [seen[r] EXCEPT !.now = wall] BY <1>1
<1>4. \A q \in Calls \ {r} : stage'[q] = stage[q] /\ seen'[q] = seen[q] BY <1>1
<1>5. stage'[r] = "minute" BY <1>1
<1>6. LimiterTypes' BY <1>0, <1>1, <1>2 DEF LimiterTypes
<1>7. \A q \in Calls, v \in Windows :
         /\ Ticket(q, v)' = Ticket(q, v) /\ (Touched(q, v)' <=> Touched(q, v))
         /\ q # r => KeyOf(q, v)' = KeyOf(q, v)
  <2>1. ASSUME NEW v \in Windows
        PROVE  Ticket(r, v)' = Ticket(r, v) /\ ~Touched(r, v) /\ ~Touched(r, v)'
    BY <1>1, <1>2, <1>3, <1>5 DEF Ticket, Touched
  <2>2. ASSUME NEW q \in Calls \ {r}, NEW v \in Windows
        PROVE  /\ Ticket(q, v)' = Ticket(q, v) /\ (Touched(q, v)' <=> Touched(q, v))
               /\ KeyOf(q, v)' = KeyOf(q, v)
    BY <1>4 DEF Ticket, Touched, KeyOf, Key
  <2> QED BY <2>1, <2>2
<1>8. \A v \in Windows : ~Touched(r, v) /\ Ticket(r, v).count = 0
  BY <1>1 DEF LimiterInv, UncountedBlank, Touched
<1>9. KeysLive'
  <2>1. SUFFICES ASSUME NEW k \in DOMAIN counters'
        PROVE  /\ counters'[k].expires = counters'[k].created + k[1] /\ counters'[k].expires > wall'
               /\ \E o \in Calls : Touched(o, k[1])' /\ KeyOf(o, k[1])' = k
    BY DEF KeysLive
  <2>2. k[1] \in Windows BY <1>0, <1>1 DEF LimiterTypes
  <2>3. PICK o \in Calls : Touched(o, k[1]) /\ KeyOf(o, k[1]) = k BY <1>1 DEF LimiterInv, KeysLive
  <2>4. Touched(o, k[1])' /\ KeyOf(o, k[1])' = k BY <2>2, <2>3, <1>7, <1>8
  <2> QED BY <2>4, <1>1 DEF LimiterInv, KeysLive
<1>10. UncountedBlank' BY <1>7 DEF LimiterInv, UncountedBlank
<1>11. AnswersFollow' BY <1>4, <1>5 DEF LimiterInv, AnswersFollow
<1>12. ASSUME NEW w \in Windows, WindowInv(w) PROVE WindowInv(w)'
  <2>1. TicketsCurrent(w)'
    BY <1>1, <1>7, <1>8, <1>12 DEF WindowInv, TicketsCurrent
  <2>2. TicketsDistinct(w)'
    <3>1. SUFFICES ASSUME NEW p \in Calls, NEW q \in Calls,
                          p # q, KeyOf(p, w)' = KeyOf(q, w)', Ticket(p, w)'.count # 0,
                          Ticket(p, w)'.created = Ticket(q, w)'.created,
                          Ticket(p, w)'.count = Ticket(q, w)'.count
          PROVE  FALSE
      BY DEF TicketsDistinct
    <3>2. p # r /\ q # r BY <3>1, <1>7, <1>8
    <3> QED BY <3>1, <3>2, <1>7, <1>12 DEF WindowInv, TicketsDistinct
  <2>3. TicketsShared(w)'
    <3>1. SUFFICES ASSUME NEW q \in Calls, Ticket(q, w)'.count > 1
          PROVE  \E o \in Calls \ {q} : Touched(o, w)' /\ KeyOf(o, w)' = KeyOf(q, w)'
      BY DEF TicketsShared
    <3>2. q # r /\ Ticket(q, w).count > 1 BY <3>1, <1>7, <1>8
    <3>3. PICK o \in Calls \ {q} : Touched(o, w) /\ KeyOf(o, w) = KeyOf(q, w)
      BY <3>2, <1>12 DEF WindowInv, TicketsShared
    <3> QED BY <3>2, <3>3, <1>7, <1>8
  <2> QED BY <2>1, <2>2, <2>3 DEF WindowInv
<1> QED BY <1>6, <1>9, <1>10, <1>11, <1>12 DEF LimiterInv, Windows

\* Going to a counter keeps everything but the answer's own invariant.
LEMMA LimiterTicketing ==
  ASSUME LimiterInv, NEW r \in Calls, NEW w \in Windows, Ticketing(r, w),
         LimiterTypes', AnswersFollow'
  PROVE  LimiterInv'
<1>1. KeysLive' BY TicketingKeepsKeys DEF LimiterInv
<1>2. UncountedBlank' BY TicketingKeepsBlank DEF LimiterInv
<1>3. ASSUME NEW v \in Windows, WindowInv(v) PROVE WindowInv(v)'
  BY <1>3, TicketingKeepsWindow DEF LimiterInv
<1> QED BY <1>1, <1>2, <1>3 DEF LimiterInv, Windows

\* A step of one request that leaves the time read alone: what Ticketing needs of
\* the others, and the types.
LEMMA OneMoves ==
  ASSUME LimiterTypes, NEW r \in Calls,
         NEW s \in {"hour", "allowed", "denied", "failed_open"}, NEW l \in Local,
         wall' = wall, stage' = [stage EXCEPT ![r] = s], seen' = [seen EXCEPT ![r] = l],
         counters' \in {counters, Increment(Key(seen[r].now, Minute)), Increment(Key(seen[r].now, Hour))}
  PROVE  /\ LimiterTypes'
         /\ stage'[r] = s /\ seen'[r] = l
         /\ \A q \in Calls \ {r} : stage'[q] = stage[q] /\ seen'[q] = seen[q]
<1>1. seen[r].now \in Nat BY DEF LimiterTypes, Local
<1>2. /\ stage' \in [Calls -> {"start", "minute", "hour", "allowed", "denied", "failed_open"}]
      /\ seen' \in [Calls -> Local]
      /\ stage'[r] = s /\ seen'[r] = l
      /\ \A q \in Calls \ {r} : stage'[q] = stage[q] /\ seen'[q] = seen[q]
  BY DEF LimiterTypes
<1>3. ASSUME NEW k \in Windows \X Nat, counters' = Increment(k)
      PROVE  /\ DOMAIN counters' \subseteq Windows \X Nat
             /\ counters' \in [DOMAIN counters' -> [count : Nat \ {0}, created : Nat, expires : Nat]]
  <2>1. DOMAIN counters' = DOMAIN counters \cup {k} BY <1>3, AfterScript
  <2>2. counters' \in [DOMAIN counters \cup {k} -> [count : Nat \ {0}, created : Nat, expires : Nat]]
    BY <1>3, AfterScript
  <2>3. DOMAIN counters \subseteq Windows \X Nat BY DEF LimiterTypes
  <2> QED BY <2>1, <2>2, <2>3
<1>4. /\ DOMAIN counters' \subseteq Windows \X Nat
      /\ counters' \in [DOMAIN counters' -> [count : Nat \ {0}, created : Nat, expires : Nat]]
  <2>1. Key(seen[r].now, Minute) \in Windows \X Nat /\ Key(seen[r].now, Hour) \in Windows \X Nat
    BY <1>1, KeyShape DEF Windows
  <2>2. CASE counters' = counters BY <2>2 DEF LimiterTypes
  <2>3. CASE counters' # counters BY <2>3, <2>1, <1>3
  <2> QED BY <2>2, <2>3
<1> QED BY <1>2, <1>4 DEF LimiterTypes

\* The minute's counter.
LEMMA LimiterMinute ==
  ASSUME LimiterInv, NEW r \in Calls, IncrementMinute(r) PROVE LimiterInv'
<1> DEFINE k == Key(seen[r].now, Minute)
<1>1. LimiterTypes /\ stage[r] = "minute" /\ wall' = wall BY DEF LimiterInv, IncrementMinute
<1>2. /\ seen \in [Calls -> Local] /\ seen[r] \in Local /\ seen[r].now \in Nat
      /\ stage \in [Calls -> {"start", "minute", "hour", "allowed", "denied", "failed_open"}]
  BY <1>1 DEF LimiterTypes, Local
<1>3. Minute \in Windows /\ Hour \in Windows /\ Minute # Hour BY WindowAssumption DEF Windows
<1>4. k = KeyOf(r, Minute) /\ k \in Windows \X Nat BY <1>2, <1>3, KeyShape DEF KeyOf
<1>5. ASSUME NEW s \in {"hour", "failed_open"}, NEW l \in Local,
             stage' = [stage EXCEPT ![r] = s], seen' = [seen EXCEPT ![r] = l],
             l.now = seen[r].now, l.hour = seen[r].hour, s = "hour" => l.minute.count # 0,
             \/ counters' = counters /\ l.minute = seen[r].minute
             \/ counters' = Increment(k) /\ l.minute = seen[r].minute
             \/ counters' = Increment(k) /\ l.minute = CountAfter(k)
      PROVE  LimiterInv'
  <2>1. /\ LimiterTypes' /\ stage'[r] = s /\ seen'[r] = l
        /\ \A q \in Calls \ {r} : stage'[q] = stage[q] /\ seen'[q] = seen[q]
    <3>1. counters' \in {counters, Increment(Key(seen[r].now, Minute)), Increment(Key(seen[r].now, Hour))}
      BY <1>5
    <3>2. s \in {"hour", "allowed", "denied", "failed_open"} BY <1>5
    <3>3. stage' = [stage EXCEPT ![r] = s] /\ seen' = [seen EXCEPT ![r] = l] BY <1>5
    <3> QED BY <1>1, <3>1, <3>2, <3>3, OneMoves, Zenon
  <2>2. AnswersFollow'
    <3>1. ASSUME NEW q \in Calls \ {r} PROVE stage'[q] = stage[q] /\ seen'[q] = seen[q] BY <2>1
    <3>2. AnswersFollow BY DEF LimiterInv
    <3> QED BY <2>1, <3>1, <3>2, <1>5 DEF AnswersFollow
  <2>3. Ticketing(r, Minute)
    <3>1. \A q \in Calls : seen'[q].now = seen[q].now BY <2>1, <1>5
    <3>2. ASSUME NEW q \in Calls, NEW v \in Windows
          PROVE  /\ Touched(q, v) => Touched(q, v)'
                 /\ (q # r \/ v # Minute) => Ticket(q, v)' = Ticket(q, v)
      <4>1. CASE q # r BY <4>1, <2>1 DEF Touched, Ticket
      <4>2. CASE q = r BY <4>2, <2>1, <1>1, <1>5 DEF Touched, Ticket
      <4> QED BY <4>1, <4>2
    <3>3. ~Touched(r, Minute) /\ Touched(r, Minute)' BY <1>1, <2>1 DEF Touched
    <3>4. Ticket(r, Minute) = seen[r].minute /\ Ticket(r, Minute)' = l.minute BY <2>1 DEF Ticket
    <3> QED BY <3>1, <3>2, <3>3, <3>4, <1>1, <1>4, <1>5 DEF Ticketing
  <2> QED BY <2>1, <2>2, <2>3, <1>3, LimiterTicketing
<1>6. CASE StoreError(r, k)
  <2>1. seen' = [seen EXCEPT ![r] = seen[r]] BY <1>2, <1>6 DEF StoreError
  <2>2. stage' = [stage EXCEPT ![r] = "failed_open"] /\ counters' \in {counters, Increment(k)}
    BY <1>6 DEF StoreError, Advance
  <2> HIDE DEF k
  <2> QED BY <2>1, <2>2, <1>2, <1>5
<1>7. CASE /\ counters' = Increment(k) /\ seen' = [seen EXCEPT ![r].minute = CountAfter(k)]
           /\ Advance(r, "hour")
  <2> DEFINE l == [seen[r] EXCEPT !.minute = CountAfter(k)]
  <2>1. CountAfter(k) \in TicketType /\ CountAfter(k).count # 0 BY <1>1, <1>4, AfterScript
  <2>2. \A t \in TicketType : LET x == [seen[r] EXCEPT !.minute = t] IN
           x \in Local /\ x.now = seen[r].now /\ x.hour = seen[r].hour /\ x.minute = t
    BY <1>2 DEF Local
  <2>3. l \in Local /\ l.now = seen[r].now /\ l.hour = seen[r].hour /\ l.minute = CountAfter(k)
    BY <2>1, <2>2
  <2>4. seen' = [seen EXCEPT ![r] = l] /\ stage' = [stage EXCEPT ![r] = "hour"] BY <1>7 DEF Advance
  <2> HIDE DEF k, l
  <2> QED BY <2>1, <2>3, <2>4, <1>5, <1>7
<1> QED BY <1>6, <1>7 DEF IncrementMinute

\* Retry-After is never rounded up to one: the reset lies ahead.
LEMMA ResetAhead ==
  ASSUME NEW n \in Nat, NEW w \in Nat \ {0}
  PROVE  /\ Max({1, Reset(n, w) - n}) \in Nat
         /\ n + Max({1, Reset(n, w) - n}) = Reset(n, w)
<1> DEFINE d == Reset(n, w) - n
<1>1. n \div w \in Nat /\ n < (n \div w + 1) * w BY InItsWindow
<1>2. Reset(n, w) \in Nat /\ n < Reset(n, w) BY <1>1 DEF Reset
<1>3. d \in Nat /\ d >= 1 /\ n + d = Reset(n, w) BY <1>2
<1> HIDE DEF d
<1>4. Max({1, d}) = d BY <1>3 DEF Max
<1> QED BY <1>3, <1>4 DEF d

\* The hour's counter and the answer.
LEMMA LimiterHour ==
  ASSUME LimiterInv, NEW r \in Calls, IncrementHour(r) PROVE LimiterInv'
<1> DEFINE k == Key(seen[r].now, Hour)
           c == CountAfter(k)
           overMinute == seen[r].minute.count > RequestsPerMinute
           overHour == c.count > RequestsPerHour
           wait == IF overMinute \/ overHour
                   THEN Max({1, Reset(seen[r].now, IF overHour THEN Hour ELSE Minute) - seen[r].now}) ELSE 0
<1>1. LimiterTypes /\ stage[r] = "hour" /\ wall' = wall BY DEF LimiterInv, IncrementHour
<1>2. /\ seen \in [Calls -> Local] /\ seen[r] \in Local /\ seen[r].now \in Nat
      /\ stage \in [Calls -> {"start", "minute", "hour", "allowed", "denied", "failed_open"}]
      /\ seen[r].minute.count \in Nat
  BY <1>1 DEF LimiterTypes, TicketType, Local
<1>3. /\ Minute \in Windows /\ Hour \in Windows /\ Minute # Hour
      /\ Minute \in Nat \ {0} /\ Hour \in Nat \ {0}
  BY WindowAssumption DEF Windows
<1>4. k = KeyOf(r, Hour) /\ k \in Windows \X Nat BY <1>2, <1>3, KeyShape DEF KeyOf
<1>5. ASSUME NEW s \in {"allowed", "denied", "failed_open"}, NEW l \in Local,
             stage' = [stage EXCEPT ![r] = s], seen' = [seen EXCEPT ![r] = l],
             l.now = seen[r].now, l.minute = seen[r].minute,
             s \in {"allowed", "denied"} => l.hour.count # 0,
             s = "allowed" => l.minute.count <= RequestsPerMinute /\ l.hour.count <= RequestsPerHour,
             s = "denied" =>
                IF l.hour.count > RequestsPerHour
                THEN l.now + l.retryAfter = Reset(l.now, Hour)
                ELSE l.minute.count > RequestsPerMinute /\ l.now + l.retryAfter = Reset(l.now, Minute),
             \/ counters' = counters /\ l.hour = seen[r].hour
             \/ counters' = Increment(k) /\ l.hour = seen[r].hour
             \/ counters' = Increment(k) /\ l.hour = CountAfter(k)
      PROVE  LimiterInv'
  <2>1. /\ LimiterTypes' /\ stage'[r] = s /\ seen'[r] = l
        /\ \A q \in Calls \ {r} : stage'[q] = stage[q] /\ seen'[q] = seen[q]
    <3>1. counters' \in {counters, Increment(Key(seen[r].now, Minute)), Increment(Key(seen[r].now, Hour))}
      BY <1>5
    <3>2. s \in {"hour", "allowed", "denied", "failed_open"} BY <1>5
    <3>3. stage' = [stage EXCEPT ![r] = s] /\ seen' = [seen EXCEPT ![r] = l] BY <1>5
    <3> QED BY <1>1, <3>1, <3>2, <3>3, OneMoves, Zenon
  <2>2. AnswersFollow'
    <3>1. ASSUME NEW q \in Calls \ {r} PROVE stage'[q] = stage[q] /\ seen'[q] = seen[q] BY <2>1
    <3>2. AnswersFollow BY DEF LimiterInv
    <3>3. l.minute.count # 0 BY <3>2, <1>1, <1>5 DEF AnswersFollow
    <3> QED BY <2>1, <3>1, <3>2, <3>3, <1>5 DEF AnswersFollow
  <2>3. Ticketing(r, Hour)
    <3>1. \A q \in Calls : seen'[q].now = seen[q].now BY <2>1, <1>5
    <3>2. ASSUME NEW q \in Calls, NEW v \in Windows
          PROVE  /\ Touched(q, v) => Touched(q, v)'
                 /\ (q # r \/ v # Hour) => Ticket(q, v)' = Ticket(q, v)
      <4>1. CASE q # r BY <4>1, <2>1 DEF Touched, Ticket
      <4>2. CASE q = r BY <4>2, <2>1, <1>1, <1>5 DEF Touched, Ticket, Windows
      <4> QED BY <4>1, <4>2
    <3>3. ~Touched(r, Hour) /\ Touched(r, Hour)' BY <1>1, <1>3, <2>1 DEF Touched
    <3>4. Ticket(r, Hour) = seen[r].hour /\ Ticket(r, Hour)' = l.hour BY <1>3, <2>1 DEF Ticket
    <3> QED BY <3>1, <3>2, <3>3, <3>4, <1>1, <1>4, <1>5 DEF Ticketing
  <2> QED BY <2>1, <2>2, <2>3, <1>3, LimiterTicketing
<1>6. CASE StoreError(r, k)
  <2>1. seen' = [seen EXCEPT ![r] = seen[r]] BY <1>2, <1>6 DEF StoreError
  <2>2. stage' = [stage EXCEPT ![r] = "failed_open"] /\ counters' \in {counters, Increment(k)}
    BY <1>6 DEF StoreError, Advance
  <2> HIDE DEF k
  <2> QED BY <2>1, <2>2, <1>2, <1>5
<1>7. CASE /\ counters' = Increment(k)
           /\ seen' = [seen EXCEPT ![r].hour = c, ![r].retryAfter = wait]
           /\ Advance(r, IF overMinute \/ overHour THEN "denied" ELSE "allowed")
  <2> DEFINE l == [seen[r] EXCEPT !.hour = c, !.retryAfter = wait]
             s == IF overMinute \/ overHour THEN "denied" ELSE "allowed"
  <2>1. c \in TicketType /\ c.count # 0 /\ c.count \in Nat BY <1>1, <1>4, AfterScript DEF TicketType
  <2>2. seen[r] \in Local BY <1>2
  <2>3. /\ wait \in Nat
        /\ overHour => seen[r].now + wait = Reset(seen[r].now, Hour)
        /\ ~overHour /\ overMinute => seen[r].now + wait = Reset(seen[r].now, Minute)
    <3>1. \A w \in {Minute, Hour} : /\ Max({1, Reset(seen[r].now, w) - seen[r].now}) \in Nat
                                    /\ seen[r].now + Max({1, Reset(seen[r].now, w) - seen[r].now})
                                          = Reset(seen[r].now, w)
      BY <1>2, <1>3, ResetAhead
    <3> QED BY <3>1
  <2>4. l \in Local /\ l.now = seen[r].now /\ l.minute = seen[r].minute /\ l.hour = c /\ l.retryAfter = wait
    <3> HIDE DEF c, wait
    <3>1. c \in TicketType /\ wait \in Nat BY <2>1, <2>3
    <3> QED BY <2>2, <3>1 DEF Local
  <2>5. seen' = [seen EXCEPT ![r] = l] /\ stage' = [stage EXCEPT ![r] = s]
    <3> HIDE DEF c, wait
    <3>1. seen'[r] = l /\ \A q \in Calls \ {r} : seen'[q] = seen[q] BY <1>7, <1>2
    <3>2. seen' = [seen EXCEPT ![r] = l] BY <1>7, <1>2
    <3> QED BY <3>2, <1>7 DEF Advance
  <2>6. s \in {"allowed", "denied"}
        /\ (s = "allowed" <=> ~overMinute /\ ~overHour)
    OBVIOUS
  <2>7. s = "allowed" => l.minute.count <= RequestsPerMinute /\ l.hour.count <= RequestsPerHour
    <3>1. RequestsPerMinute \in Nat /\ RequestsPerHour \in Nat BY WindowAssumption
    <3> HIDE DEF c, l, s
    <3> QED BY <2>1, <2>4, <2>6, <1>2, <3>1
  <2>8. s = "denied" =>
            IF l.hour.count > RequestsPerHour
            THEN l.now + l.retryAfter = Reset(l.now, Hour)
            ELSE l.minute.count > RequestsPerMinute /\ l.now + l.retryAfter = Reset(l.now, Minute)
    <3> HIDE DEF c, l, s, wait
    <3> QED BY <2>3, <2>4, <2>6
  <2>9. l.hour = CountAfter(k) /\ l.hour.count # 0 BY <2>1, <2>4
  <2> HIDE DEF c, k, l, s, wait, overMinute, overHour
  <2> QED BY <2>4, <2>5, <2>6, <2>7, <2>8, <2>9, <1>5, <1>7
<1> QED BY <1>6, <1>7 DEF IncrementHour

\* The invariant is inductive.
LEMMA LimiterStep ==
  ASSUME LimiterInv, [LimitNext]_limitVars PROVE LimiterInv'
<1>1. CASE UNCHANGED limitVars
  <2>1. wall' = wall /\ counters' = counters /\ stage' = stage /\ seen' = seen BY <1>1 DEF limitVars
  <2>2. \A r, w : /\ Ticket(r, w)' = Ticket(r, w) /\ KeyOf(r, w)' = KeyOf(r, w)
                  /\ Touched(r, w)' <=> Touched(r, w)
    BY <2>1 DEF Ticket, KeyOf, Key, Touched
  <2>3. LimiterTypes' BY <2>1 DEF LimiterInv, LimiterTypes
  <2>4. KeysLive' BY <2>1, <2>2 DEF LimiterInv, KeysLive
  <2>5. UncountedBlank' BY <2>2 DEF LimiterInv, UncountedBlank
  <2>6. AnswersFollow' BY <2>1 DEF LimiterInv, AnswersFollow
  <2>7. ASSUME NEW w, WindowInv(w) PROVE WindowInv(w)'
    BY <2>1, <2>2, <2>7 DEF WindowInv, TicketsCurrent, TicketsDistinct, TicketsShared
  <2> QED BY <2>3, <2>4, <2>5, <2>6, <2>7 DEF LimiterInv
<1>2. CASE LimitTick BY <1>2, LimiterTick
<1>3. ASSUME NEW r \in Calls, Allow(r) PROVE LimiterInv' BY <1>3, LimiterAllow
<1>4. ASSUME NEW r \in Calls, IncrementMinute(r) PROVE LimiterInv' BY <1>4, LimiterMinute
<1>5. ASSUME NEW r \in Calls, IncrementHour(r) PROVE LimiterInv' BY <1>5, LimiterHour
<1> QED BY <1>1, <1>2, <1>3, <1>4, <1>5 DEF LimitNext

\* A set of requests with different counts between one and a limit is no larger
\* than the limit.
LEMMA NoMoreThanTheLimit ==
  ASSUME NEW n \in Nat, NEW S, NEW f \in [S -> 1..n], \A x, y \in S : x # y => f[x] # f[y]
  PROVE  Cardinality(S) <= n
<1>1. IsFiniteSet(1..n) /\ Cardinality(1..n) = n BY FS_Interval
<1>2. f \in Injection(S, 1..n) BY DEF Injection, IsInjective
<1>3. Cardinality(S) <= Cardinality(1..n) BY <1>1, <1>2, FS_Injection DEF ExistsInjection
<1> QED BY <1>1, <1>3

\* The tickets of the requests one life of a key lets through are distinct
\* numbers up to the limit.
LEMMA HeldByInvariant == ASSUME LimiterInv PROVE WindowHeld
<1>1. SUFFICES ASSUME NEW r \in Calls, stage[r] = "allowed"
      PROVE  /\ Cardinality({q \in Calls : /\ stage[q] = "allowed"
                                           /\ Key(seen[q].now, Minute) = Key(seen[r].now, Minute)
                                           /\ seen[q].minute.created = seen[r].minute.created})
                    <= RequestsPerMinute
             /\ Cardinality({q \in Calls : /\ stage[q] = "allowed"
                                           /\ Key(seen[q].now, Hour) = Key(seen[r].now, Hour)
                                           /\ seen[q].hour.created = seen[r].hour.created})
                    <= RequestsPerHour
  BY DEF WindowHeld
<1> DEFINE M == {q \in Calls : /\ stage[q] = "allowed"
                               /\ Key(seen[q].now, Minute) = Key(seen[r].now, Minute)
                               /\ seen[q].minute.created = seen[r].minute.created}
           H == {q \in Calls : /\ stage[q] = "allowed"
                               /\ Key(seen[q].now, Hour) = Key(seen[r].now, Hour)
                               /\ seen[q].hour.created = seen[r].hour.created}
           m == [q \in M |-> seen[q].minute.count]
           h == [q \in H |-> seen[q].hour.count]
<1>2. /\ RequestsPerMinute \in Nat /\ RequestsPerHour \in Nat
      /\ Minute \in Windows /\ Hour \in Windows /\ Minute # Hour
  BY WindowAssumption DEF Windows
<1>3. \A q \in Calls : /\ Ticket(q, Minute) = seen[q].minute /\ Ticket(q, Hour) = seen[q].hour
                       /\ seen[q].minute.count \in Nat /\ seen[q].hour.count \in Nat
  BY <1>2 DEF Ticket, LimiterInv, LimiterTypes, Local, TicketType
<1>4. \A q \in M : seen[q].minute.count \in 1..RequestsPerMinute
  BY <1>2, <1>3 DEF LimiterInv, AnswersFollow
<1>5. \A q \in H : seen[q].hour.count \in 1..RequestsPerHour
  BY <1>2, <1>3 DEF LimiterInv, AnswersFollow
<1>6. \A p, q \in M : p # q => seen[p].minute.count # seen[q].minute.count
  BY <1>3, <1>4 DEF LimiterInv, WindowInv, TicketsDistinct, KeyOf
<1>7. \A p, q \in H : p # q => seen[p].hour.count # seen[q].hour.count
  BY <1>3, <1>5 DEF LimiterInv, WindowInv, TicketsDistinct, KeyOf
<1>8. m \in [M -> 1..RequestsPerMinute] /\ \A p, q \in M : p # q => m[p] # m[q]
  <2> HIDE DEF M
  <2> QED BY <1>4, <1>6
<1>9. h \in [H -> 1..RequestsPerHour] /\ \A p, q \in H : p # q => h[p] # h[q]
  <2> HIDE DEF H
  <2> QED BY <1>5, <1>7
<1> HIDE DEF M, H, m, h
<1>10. Cardinality(M) <= RequestsPerMinute BY <1>2, <1>8, NoMoreThanTheLimit
<1>11. Cardinality(H) <= RequestsPerHour BY <1>2, <1>9, NoMoreThanTheLimit
<1> QED BY <1>10, <1>11 DEF M, H

\* Retry-After ends on a boundary of the window that denied: nobody who read the
\* time before it shares the key, so the ticket is one.
LEMMA ClearsByInvariant == ASSUME LimiterInv PROVE RetryAfterClears
<1>1. SUFFICES ASSUME NEW r \in Calls, NEW q \in Calls,
                      stage[r] = "denied", stage[q] = "denied",
                      seen[q].now = seen[r].now + seen[r].retryAfter,
                      \A o \in Calls \ {q} :
                          stage[o] \in {"start", "allowed", "denied"} /\ seen[o].now <= seen[r].now
      PROVE  seen[r].hour.count <= RequestsPerHour /\ seen[q].hour.count > RequestsPerHour
  BY DEF RetryAfterClears
<1>2. /\ Minute \in Windows /\ Hour \in Windows /\ Minute # Hour
      /\ Minute \in Nat \ {0} /\ Hour \in Nat \ {0}
      /\ RequestsPerMinute \in Nat \ {0} /\ RequestsPerHour \in Nat \ {0}
  BY WindowAssumption DEF Windows
<1>3. \A o \in Calls : /\ Ticket(o, Minute) = seen[o].minute /\ Ticket(o, Hour) = seen[o].hour
                       /\ seen[o].minute.count \in Nat /\ seen[o].hour.count \in Nat
                       /\ seen[o].now \in Nat
  BY <1>2 DEF Ticket, LimiterInv, LimiterTypes, Local, TicketType
\* At a boundary the request is alone on its key.
<1>4. ASSUME NEW w \in Windows, NEW n \in Nat, seen[q].now = n * w, seen[r].now < n * w
      PROVE  Ticket(q, w).count <= 1
  <2>1. SUFFICES ASSUME Ticket(q, w).count > 1 PROVE FALSE BY <1>2, <1>3 DEF Windows
  <2>2. PICK o \in Calls \ {q} : KeyOf(o, w) = KeyOf(q, w)
    BY <2>1 DEF LimiterInv, WindowInv, TicketsShared, Windows
  <2>3. seen[o].now <= seen[r].now BY <1>1
  <2>4. seen[o].now < n * w
    <3> DEFINE b == n * w
    <3>1. b \in Nat /\ seen[r].now < b BY <1>2, <1>4 DEF Windows
    <3> HIDE DEF b
    <3>2. seen[o].now < b BY <3>1, <2>3, <1>3
    <3> QED BY <3>2 DEF b
  <2>5. w \in Nat \ {0} BY <1>2 DEF Windows
  <2>6. Key(seen[o].now, w) # Key(seen[q].now, w)
    BY <2>4, <2>5, <1>3, <1>4, BoundaryIsFresh
  <2> QED BY <2>2, <2>6 DEF KeyOf
<1>5. \A w \in Windows : \E n \in Nat : Reset(seen[r].now, w) = n * w /\ seen[r].now < n * w
  <2>1. ASSUME NEW w \in Windows PROVE \E n \in Nat : Reset(seen[r].now, w) = n * w /\ seen[r].now < n * w
    <3> DEFINE d == seen[r].now \div w
               n == d + 1
    <3>1. w \in Nat \ {0} /\ seen[r].now \in Nat BY <1>2, <1>3 DEF Windows
    <3>2. d \in Nat /\ seen[r].now < n * w BY <3>1, InItsWindow, Zenon
    <3>3. Reset(seen[r].now, w) = n * w BY DEF Reset
    <3>4. n \in Nat
      <4> HIDE DEF d
      <4> QED BY <3>2
    <3> HIDE DEF n
    <3> QED BY <3>2, <3>3, <3>4
  <2> QED BY <2>1
<1>6. CASE seen[r].hour.count > RequestsPerHour
  <2>1. seen[q].now = Reset(seen[r].now, Hour) BY <1>1, <1>6 DEF LimiterInv, AnswersFollow
  <2>2. PICK n \in Nat : Reset(seen[r].now, Hour) = n * Hour /\ seen[r].now < n * Hour BY <1>2, <1>5
  <2>3. seen[q].hour.count <= 1 BY <2>1, <2>2, <1>2, <1>3, <1>4
  <2>4. PICK j \in Nat : n * Hour = j * Minute BY HourEndsMinute
  <2>5. seen[q].minute.count <= 1 BY <2>1, <2>2, <2>4, <1>2, <1>3, <1>4
  <2>6. seen[q].hour.count > RequestsPerHour \/ seen[q].minute.count > RequestsPerMinute
    BY <1>1 DEF LimiterInv, AnswersFollow
  <2> QED BY <2>3, <2>5, <2>6, <1>2, <1>3
<1>7. CASE ~(seen[r].hour.count > RequestsPerHour)
  <2>1. seen[q].now = Reset(seen[r].now, Minute) BY <1>1, <1>7 DEF LimiterInv, AnswersFollow
  <2>2. PICK n \in Nat : Reset(seen[r].now, Minute) = n * Minute /\ seen[r].now < n * Minute
    BY <1>2, <1>5
  <2>3. seen[q].minute.count <= 1 BY <2>1, <2>2, <1>2, <1>3, <1>4
  <2>4. seen[q].hour.count > RequestsPerHour \/ seen[q].minute.count > RequestsPerMinute
    BY <1>1 DEF LimiterInv, AnswersFollow
  <2> QED BY <2>3, <2>4, <1>2, <1>3, <1>7
<1> QED BY <1>6, <1>7

\* No life of a window's key lets more requests through than the limit, whatever
\* the interleaving of the two increments, store errors and expiries.
THEOREM LimitHeld == LimitSpec => []WindowHeld
<1>1. LimitInit => LimiterInv BY LimiterInit
<1>2. LimiterInv /\ [LimitNext]_limitVars => LimiterInv' BY LimiterStep
<1>3. LimiterInv => WindowHeld BY HeldByInvariant
<1> QED BY <1>1, <1>2, <1>3, PTL DEF LimitSpec

\* A caller alone on its token that comes back when Retry-After says is let in,
\* unless its own denials filled the hour.
THEOREM RetryAfterHonest == LimitSpec => []RetryAfterClears
<1>1. LimitInit => LimiterInv BY LimiterInit
<1>2. LimiterInv /\ [LimitNext]_limitVars => LimiterInv' BY LimiterStep
<1>3. LimiterInv => RetryAfterClears BY ClearsByInvariant
<1> QED BY <1>1, <1>2, <1>3, PTL DEF LimitSpec
=============================================================================
