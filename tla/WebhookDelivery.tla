-------------------------- MODULE WebhookDelivery --------------------------
(***************************************************************************)
(* Outbound webhooks (internal/webhooks) of one tenant: the endpoint an    *)
(* admin configures, the delivery row an emitted event leaves, and the     *)
(* queue task whose handler re-reads both, posts and records the outcome.  *)
(* The handler never looks at the row's status, so deliveries of one task  *)
(* that overlap all post and all record.  The receiver and the queue are   *)
(* external.                                                               *)
(***************************************************************************)
EXTENDS Integers, FiniteSets

CONSTANTS
    Events,         \* lifecycle events, each emitted once
    Workers,        \* delivery handlers
    Admins,         \* concurrent PUT /v1/admin/webhook-endpoint requests
    MaxAttempts,    \* MaxDeliveryRetries + 1
    MaxFaults,      \* bound on failing statements and dying handlers
    MaxLost,        \* bound on leases lost while the handler runs on
    EnqueueMayFail  \* whether Redis can refuse the deliver task

ASSUME WebhookAssumption ==
    /\ MaxAttempts \in Nat \ {0} /\ MaxFaults \in Nat /\ MaxLost \in Nat
    /\ EnqueueMayFail \in BOOLEAN /\ IsFiniteSet(Workers)
    /\ "nobody" \notin Workers /\ "none" \notin Events /\ {"none", "error"} \cap Admins = {}

VARIABLES
    endpoint,   \* webhook_endpoints: the tenant's active row
    row,        \* webhook_deliveries, one per event
    task,       \* webhook:deliver, one per event
    emit,       \* where the Emit of each event is
    accepted,   \* how often the receiver answered 2xx to the event
    pc, loc,    \* the handlers
    put,        \* the PUT requests
    faults, lost

vars == <<endpoint, row, task, emit, accepted, pc, loc, put, faults, lost>>

None == [url |-> 0, secret |-> "none"]
NoRow == [status |-> "absent", attempts |-> 0]
NoOne == "nobody"
Secrets == Admins           \* generateSecret: a fresh secret per PUT
Version == Nat              \* how often the URL was set
NoLocals == [event |-> "none", endpoint |-> None, result |-> "none"]
NoPut == [at |-> "start", found |-> None, answer |-> "none"]

TypeOK ==
    /\ endpoint \in [url : Version, secret : Secrets \cup {"none"}]
    /\ row \in [Events -> [status : {"absent", "pending", "delivered", "failed"},
                           attempts : 0..MaxAttempts]]
    /\ task \in [Events -> [state : {"none", "pending", "active", "done", "archived"},
                            retry : 0..MaxAttempts - 1, owner : Workers \cup {NoOne}]]
    /\ emit \in [Events -> {"start", "insert", "enqueue", "sent", "dropped"}]
    /\ accepted \in [Events -> 0..MaxAttempts]
    /\ pc \in [Workers -> {"idle", "loadrow", "loadendpoint", "post", "mark", "ack", "nack"}]
    /\ loc \in [Workers -> [event : Events \cup {"none"},
                            endpoint : [url : Version, secret : Secrets \cup {"none"}],
                            result : {"none", "delivered", "failed"}]]
    /\ put \in [Admins -> [at : {"start", "write", "done"},
                           found : [url : Version, secret : Secrets \cup {"none"}],
                           answer : Secrets \cup {"none", "error"}]]
    /\ faults \in 0..MaxFaults /\ lost \in 0..MaxLost

Init ==
    /\ endpoint = None
    /\ row = [e \in Events |-> NoRow]
    /\ task = [e \in Events |-> [state |-> "none", retry |-> 0, owner |-> NoOne]]
    /\ emit = [e \in Events |-> "start"]
    /\ accepted = [e \in Events |-> 0]
    /\ pc = [w \in Workers |-> "idle"]
    /\ loc = [w \in Workers |-> NoLocals]
    /\ put = [a \in Admins |-> NoPut]
    /\ faults = 0 /\ lost = 0

Spend(counter, bound) == counter < bound /\ counter' = counter + 1

-----------------------------------------------------------------------------
(* UpsertEndpoint: a read, then an update or an insert *)

ReadEndpoint(a) ==
    /\ put[a].at = "start"
    /\ put' = [put EXCEPT ![a].at = "write", ![a].found = endpoint]
    /\ UNCHANGED <<endpoint, row, task, emit, accepted, pc, loc, faults, lost>>

\* The URL changes, the secret is kept and returned.
UpdateEndpointURL(a) ==
    /\ put[a].at = "write" /\ put[a].found # None
    /\ endpoint' = [endpoint EXCEPT !.url = @ + 1]
    /\ put' = [put EXCEPT ![a].at = "done", ![a].answer = endpoint.secret]
    /\ UNCHANGED <<row, task, emit, accepted, pc, loc, faults, lost>>

\* Mutation: without the unique index a second insert wins.
InsertEndpointAgain(a) ==
    /\ put[a].at = "write" /\ put[a].found = None
    /\ endpoint' = [url |-> endpoint.url + 1, secret |-> a]
    /\ put' = [put EXCEPT ![a].at = "done", ![a].answer = a]
    /\ UNCHANGED <<row, task, emit, accepted, pc, loc, faults, lost>>

\* A fresh secret; the partial unique index refuses a second active row.
InsertEndpoint(a) ==
    /\ put[a].at = "write" /\ put[a].found = None
    /\ IF endpoint = None
       THEN /\ endpoint' = [url |-> 1, secret |-> a]
            /\ put' = [put EXCEPT ![a].at = "done", ![a].answer = a]
       ELSE /\ put' = [put EXCEPT ![a].at = "done", ![a].answer = "error"]
            /\ UNCHANGED endpoint
    /\ UNCHANGED <<row, task, emit, accepted, pc, loc, faults, lost>>

-----------------------------------------------------------------------------
(* Emit *)

\* A tenant without an endpoint gets no event.
LookupEndpoint(e) ==
    /\ emit[e] = "start"
    /\ emit' = [emit EXCEPT ![e] = IF endpoint = None THEN "dropped" ELSE "insert"]
    /\ UNCHANGED <<endpoint, row, task, accepted, pc, loc, put, faults, lost>>

InsertDelivery(e) ==
    /\ emit[e] = "insert"
    /\ row' = [row EXCEPT ![e] = [status |-> "pending", attempts |-> 0]]
    /\ emit' = [emit EXCEPT ![e] = "enqueue"]
    /\ UNCHANGED <<endpoint, task, accepted, pc, loc, put, faults, lost>>

\* The row stays when the enqueue fails: the worker only logs the error.
EnqueueDeliver(e) ==
    /\ emit[e] = "enqueue"
    /\ \/ /\ task' = [task EXCEPT ![e].state = "pending"]
          /\ emit' = [emit EXCEPT ![e] = "sent"]
       \/ /\ EnqueueMayFail
          /\ emit' = [emit EXCEPT ![e] = "dropped"]
          /\ UNCHANGED task
    /\ UNCHANGED <<endpoint, row, accepted, pc, loc, put, faults, lost>>

-----------------------------------------------------------------------------
(* Handle *)

Goto(w, s) == pc' = [pc EXCEPT ![w] = s]

Dequeue(w) ==
    /\ pc[w] = "idle"
    /\ \E e \in Events :
          /\ task[e].state = "pending"
          /\ task' = [task EXCEPT ![e].state = "active", ![e].owner = w]
          /\ loc' = [loc EXCEPT ![w] = [NoLocals EXCEPT !.event = e]]
    /\ Goto(w, "loadrow")
    /\ UNCHANGED <<endpoint, row, emit, accepted, put, faults, lost>>

\* Only the payload and the endpoint's id are used of the row.
GetDeliveryByID(w) ==
    /\ pc[w] = "loadrow"
    /\ Goto(w, "loadendpoint")
    /\ UNCHANGED <<endpoint, row, task, emit, accepted, loc, put, faults, lost>>

GetEndpointByID(w) ==
    /\ pc[w] = "loadendpoint"
    /\ loc' = [loc EXCEPT ![w].endpoint = endpoint]
    /\ Goto(w, "post")
    /\ UNCHANGED <<endpoint, row, task, emit, accepted, put, faults, lost>>

\* The receiver accepts and the answer arrives, accepts and it does not, or
\* refuses; a malformed URL ends like a refusal.
Post(w) ==
    /\ pc[w] = "post"
    /\ \/ /\ accepted' = [accepted EXCEPT ![loc[w].event] = @ + 1]
          /\ \E r \in {"delivered", "failed"} : loc' = [loc EXCEPT ![w].result = r]
       \/ /\ loc' = [loc EXCEPT ![w].result = "failed"]
          /\ UNCHANGED accepted
    /\ Goto(w, "mark")
    /\ UNCHANGED <<endpoint, row, task, emit, put, faults, lost>>

\* Mutation: the outcome of a failed attempt is not recorded.
MarkDeliveredOnly(w) ==
    /\ pc[w] = "mark"
    /\ row' = IF loc[w].result = "failed" THEN row
              ELSE [row EXCEPT ![loc[w].event] =
                       [status |-> "delivered", attempts |-> @.attempts + 1]]
    /\ Goto(w, IF loc[w].result = "delivered" THEN "ack" ELSE "nack")
    /\ UNCHANGED <<endpoint, task, emit, accepted, loc, put, faults, lost>>

\* An unconditional update: the attempt that records last decides.
MarkDeliveryResult(w) ==
    /\ pc[w] = "mark"
    /\ row' = [row EXCEPT ![loc[w].event] =
                  [status |-> loc[w].result, attempts |-> @.attempts + 1]]
    /\ Goto(w, IF loc[w].result = "delivered" THEN "ack" ELSE "nack")
    /\ UNCHANGED <<endpoint, task, emit, accepted, loc, put, faults, lost>>

\* A task that was not acknowledged is delivered again, or archived.
Redelivered(t) ==
    IF t.retry + 1 < MaxAttempts
    THEN [state |-> "pending", retry |-> t.retry + 1, owner |-> NoOne]
    ELSE [state |-> "archived", retry |-> t.retry, owner |-> NoOne]

\* Only the owner of the lease moves its task.
Leave(w, acked) ==
    LET e == loc[w].event IN
    /\ task' = IF task[e].owner # w THEN task
               ELSE [task EXCEPT ![e] = IF acked THEN [@ EXCEPT !.state = "done", !.owner = NoOne]
                                        ELSE Redelivered(@)]
    /\ loc' = [loc EXCEPT ![w] = NoLocals]
    /\ Goto(w, "idle")

\* Mutation: the error of a failed attempt is logged and not returned.
HandlerSwallowsError(w) ==
    /\ pc[w] \in {"ack", "nack"}
    /\ Leave(w, TRUE)
    /\ UNCHANGED <<endpoint, row, emit, accepted, put, faults, lost>>

HandlerReturns(w) ==
    /\ pc[w] \in {"ack", "nack"}
    /\ Leave(w, pc[w] = "ack")
    /\ UNCHANGED <<endpoint, row, emit, accepted, put, faults, lost>>

\* A statement fails and its error is returned, or the process dies.
Fault(w) ==
    /\ Spend(faults, MaxFaults)
    /\ pc[w] \in {"loadrow", "loadendpoint", "post", "mark"}
    /\ Leave(w, FALSE)
    /\ UNCHANGED <<endpoint, row, emit, accepted, put, lost>>

LoseLease(w) ==
    /\ Spend(lost, MaxLost)
    /\ pc[w] # "idle" /\ task[loc[w].event].owner = w
    /\ task' = [task EXCEPT ![loc[w].event] = Redelivered(@)]
    /\ UNCHANGED <<endpoint, row, emit, accepted, pc, loc, put, faults>>

-----------------------------------------------------------------------------
PutStep(a) == ReadEndpoint(a) \/ UpdateEndpointURL(a) \/ InsertEndpoint(a)
EmitStep(e) == LookupEndpoint(e) \/ InsertDelivery(e) \/ EnqueueDeliver(e)
WorkerStep(w) ==
    \/ Dequeue(w) \/ GetDeliveryByID(w) \/ GetEndpointByID(w) \/ Post(w)
    \/ MarkDeliveryResult(w) \/ HandlerReturns(w)

Next ==
    \/ \E a \in Admins : PutStep(a)
    \/ \E e \in Events : EmitStep(e)
    \/ \E w \in Workers : WorkerStep(w) \/ Fault(w) \/ LoseLease(w)

Spec == Init /\ [][Next]_vars
FairSpec ==
    /\ Spec
    /\ \A e \in Events : WF_vars(EmitStep(e))
    /\ \A w \in Workers : WF_vars(WorkerStep(w))

-----------------------------------------------------------------------------
(* Properties *)

\* A delivery logged as delivered reached the receiver, whichever of several
\* overlapping attempts recorded last.
DeliveredWasAccepted ==
    \A e \in Events : row[e].status = "delivered" => accepted[e] > 0

\* No event is accepted, and no attempt logged, more often than the task was
\* taken from the queue, counting the attempts a lost lease duplicated.
AttemptsBounded ==
    \A e \in Events :
        /\ accepted[e] <= task[e].retry + 1
        /\ row[e].attempts <= task[e].retry + 1

\* Every PUT that answered with a secret returned the one deliveries are signed
\* with, however two first PUTs race on the unique index.
AnsweredSecretSigns ==
    \A a \in Admins : put[a].answer \in Secrets => put[a].answer = endpoint.secret

\* With fewer faults than attempts, the log of an enqueued event ends with the
\* outcome of an attempt and not as pending.
EventuallyRecorded ==
    \A e \in Events : emit[e] = "sent" ~> [](row[e].status \in {"delivered", "failed"})

\* "After this many retries the delivery stays status=failed": unless a lost
\* lease made two attempts overlap, a delivery logged as failed once its task is
\* gone has used its retries up.  (The result is written unconditionally, so an
\* overlapping attempt may record failed over delivered.)
FailedMeansExhausted ==
    \A e \in Events :
        /\ lost = 0 /\ row[e].status = "failed"
        /\ task[e].state \in {"done", "archived"}
        /\ \A w \in Workers : loc[w].event # e
        => task[e].state = "archived" /\ task[e].retry = MaxAttempts - 1

\* The delivery log a tenant reads is true: delivered was accepted, failed was
\* given up, and the attempts are no more than were made.
LogHonest == DeliveredWasAccepted /\ FailedMeansExhausted /\ AttemptsBounded
=============================================================================
