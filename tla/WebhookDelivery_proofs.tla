----------------------- MODULE WebhookDelivery_proofs -----------------------
(***************************************************************************)
(* Proofs about module WebhookDelivery, for any number of events, handlers *)
(* and concurrent PUTs, any retry bound and any number of faults and lost  *)
(* leases.  The inductive invariant has two independent parts: the         *)
(* endpoint with the PUT requests, and the delivery log with the queue and *)
(* the handlers.  The second counts: what the receiver accepted, together  *)
(* with the handlers that may still post, is no more than the task was     *)
(* taken from the queue.                                                   *)
(***************************************************************************)
EXTENDS WebhookDelivery, FiniteSetTheorems, TLAPS

-----------------------------------------------------------------------------
(* The inductive invariant *)

EndpointType == [url : Version, secret : Secrets \cup {"none"}]

\* The endpoint is absent or has a secret; what a PUT found is still there; a
\* secret that was answered is the endpoint's.
PutInv ==
    /\ endpoint \in EndpointType
    /\ put \in [Admins -> [at : {"start", "write", "done"}, found : EndpointType,
                           answer : Secrets \cup {"none", "error"}]]
    /\ endpoint = None \/ endpoint.secret \in Secrets
    /\ \A a \in Admins :
          /\ put[a].found # None => endpoint # None
          /\ put[a].answer \in Secrets => endpoint # None /\ put[a].answer = endpoint.secret

TaskType == [state : {"none", "pending", "active", "done", "archived"},
             retry : 0..MaxAttempts - 1, owner : Workers \cup {NoOne}]
RowType == [status : {"absent", "pending", "delivered", "failed"}, attempts : Nat]
LocType == [event : Events \cup {"none"}, endpoint : EndpointType,
            result : {"none", "delivered", "failed"}]
Places == {"idle", "loadrow", "loadendpoint", "post", "mark", "ack", "nack"}

LogShape ==
    /\ row \in [Events -> RowType] /\ task \in [Events -> TaskType]
    /\ emit \in [Events -> {"start", "insert", "enqueue", "sent", "dropped"}]
    /\ accepted \in [Events -> Nat]
    /\ pc \in [Workers -> Places] /\ loc \in [Workers -> LocType]
    /\ faults \in 0..MaxFaults /\ lost \in 0..MaxLost

\* A leased task is active, one that was never sent has no state, an archived
\* one has used its retries up, and without lost leases one that is done was
\* recorded as delivered.
Tasked(e) ==
    /\ task[e].owner # NoOne => task[e].state = "active"
    /\ emit[e] \in {"start", "insert", "enqueue"} => task[e].state = "none"
    /\ task[e].state = "archived" => task[e].retry = MaxAttempts - 1
    /\ task[e].state = "done" /\ lost = 0 => row[e].status = "delivered"

\* A handler has an event; without lost leases it holds the event's lease.  A
\* handler that goes to acknowledge recorded delivered, and nobody overwrote it.
Handling(w) ==
    /\ pc[w] = "idle" <=> loc[w].event = "none"
    /\ pc[w] = "mark" => loc[w].result # "none"
    /\ loc[w].result = "delivered" => loc[w].event \in Events /\ accepted[loc[w].event] > 0
    /\ lost = 0 /\ pc[w] # "idle" => task[loc[w].event].owner = w
    /\ lost = 0 /\ pc[w] = "ack" => row[loc[w].event].status = "delivered"

\* Handlers that may still post, or still record, an attempt of the event.
Busy(e, S) == {w \in Workers : loc[w].event = e /\ pc[w] \in S}
BeforePost == {"loadrow", "loadendpoint", "post"}
BeforeMark == BeforePost \cup {"mark"}

\* How often the task was taken from the queue.
Taken(e) == IF task[e].state \in {"none", "pending"} THEN task[e].retry ELSE task[e].retry + 1

Counted(e) ==
    /\ accepted[e] + Cardinality(Busy(e, BeforePost)) <= Taken(e)
    /\ row[e].attempts + Cardinality(Busy(e, BeforeMark)) <= Taken(e)

LogInv ==
    /\ LogShape /\ DeliveredWasAccepted
    /\ \A e \in Events : Tasked(e) /\ Counted(e)
    /\ \A w \in Workers : Handling(w)

-----------------------------------------------------------------------------
(* The endpoint *)

\* However PUTs interleave, the part about the endpoint is kept.
LEMMA PutKeeps ==
  ASSUME PutInv, NEW a \in Admins, PutStep(a)
  PROVE  PutInv'
<1> DEFINE PutType == [at : {"start", "write", "done"}, found : EndpointType,
                       answer : Secrets \cup {"none", "error"}]
<1>1. /\ endpoint \in EndpointType /\ put \in [Admins -> PutType] /\ put[a] \in PutType
      /\ None.secret = "none" /\ "none" \notin Secrets /\ "error" \notin Secrets
      /\ a \in Secrets
  BY WebhookAssumption DEF PutInv, None, Secrets
<1>2. CASE ReadEndpoint(a)
  <2>1. /\ put' = [put EXCEPT ![a] = [@ EXCEPT !.at = "write", !.found = endpoint]]
        /\ endpoint' = endpoint
    BY <1>2 DEF ReadEndpoint
  <2> DEFINE l == [put[a] EXCEPT !.at = "write", !.found = endpoint]
  <2>2. l \in PutType /\ l.found = endpoint /\ l.answer = put[a].answer
    BY <1>1
  <2>3. put' = [put EXCEPT ![a] = l]
    BY <2>1
  <2> HIDE DEF l
  <2>4. put' \in [Admins -> PutType]
    BY <1>1, <2>2, <2>3
  <2> HIDE DEF PutType
  <2>5. \A b \in Admins : put'[b] = IF b = a THEN l ELSE put[b]
    BY <1>1, <2>3
  <2> QED BY <2>1, <2>2, <2>4, <2>5 DEF PutInv, PutType
<1>3. CASE UpdateEndpointURL(a)
  <2> DEFINE l == [put[a] EXCEPT !.at = "done", !.answer = endpoint.secret]
  <2>1. /\ put' = [put EXCEPT ![a] = l] /\ put[a].found # None
        /\ endpoint' = [endpoint EXCEPT !.url = endpoint.url + 1]
    BY <1>1, <1>3 DEF UpdateEndpointURL
  <2>2. endpoint # None /\ endpoint.secret \in Secrets
    BY <2>1 DEF PutInv
  <2>3. endpoint' \in EndpointType /\ endpoint'.secret = endpoint.secret
    BY <1>1, <2>1 DEF EndpointType, Version
  <2>4. endpoint' # None
    BY <1>1, <2>2, <2>3
  <2>5. l \in PutType /\ l.answer = endpoint.secret
    BY <1>1, <2>2
  <2> HIDE DEF l
  <2>6. put' \in [Admins -> PutType]
    BY <1>1, <2>1, <2>5
  <2>7. \A b \in Admins : put'[b] = IF b = a THEN l ELSE put[b]
    BY <1>1, <2>1
  <2> QED BY <2>2, <2>3, <2>4, <2>5, <2>6, <2>7 DEF PutInv
<1>4. CASE InsertEndpoint(a)
  <2>1. CASE endpoint = None
    <3> DEFINE l == [put[a] EXCEPT !.at = "done", !.answer = a]
    <3>1. put' = [put EXCEPT ![a] = l] /\ endpoint' = [url |-> 1, secret |-> a]
      BY <1>1, <1>4, <2>1 DEF InsertEndpoint
    <3>2. l \in PutType /\ l.answer = a
      BY <1>1
    <3> HIDE DEF l
    <3>3. endpoint' \in EndpointType /\ endpoint'.secret = a /\ endpoint' # None
      BY <1>1, <3>1 DEF EndpointType, Version
    <3>4. put' \in [Admins -> PutType]
      BY <1>1, <3>1, <3>2
    <3>5. \A b \in Admins : put'[b] = IF b = a THEN l ELSE put[b]
      BY <1>1, <3>1
    <3>6. \A b \in Admins : put[b].answer \notin Secrets
      BY <2>1 DEF PutInv
    <3> QED BY <1>1, <3>2, <3>3, <3>4, <3>5, <3>6 DEF PutInv
  <2>2. CASE endpoint # None
    <3> DEFINE l == [put[a] EXCEPT !.at = "done", !.answer = "error"]
    <3>1. put' = [put EXCEPT ![a] = l] /\ endpoint' = endpoint
      BY <1>1, <1>4, <2>2 DEF InsertEndpoint
    <3>2. l \in PutType /\ l.answer = "error" /\ l.found = put[a].found
      BY <1>1
    <3> HIDE DEF l
    <3>3. put' \in [Admins -> PutType]
      BY <1>1, <3>1, <3>2
    <3>4. \A b \in Admins : put'[b] = IF b = a THEN l ELSE put[b]
      BY <1>1, <3>1
    <3> QED BY <1>1, <2>2, <3>1, <3>2, <3>3, <3>4 DEF PutInv
  <2> QED BY <2>1, <2>2
<1> QED BY <1>2, <1>3, <1>4 DEF PutStep

-----------------------------------------------------------------------------
(* Counting handlers *)

\* A step of handler w: its own place and locals, and nobody else's.
Acts(w, s, l) ==
    /\ pc' \in [Workers -> Places] /\ pc'[w] = s
    /\ loc' \in [Workers -> LocType] /\ loc'[w] = l
    /\ \A v \in Workers : v # w => pc'[v] = pc[v] /\ loc'[v] = loc[v]

\* Goto and an update of the locals make such a step.
LEMMA ActsHow ==
  ASSUME LogShape, NEW w \in Workers, NEW s \in Places, Goto(w, s), NEW l \in LocType,
         loc' = [loc EXCEPT ![w] = l]
  PROVE  Acts(w, s, l)
<1>1. pc \in [Workers -> Places] /\ loc \in [Workers -> LocType]
  BY DEF LogShape
<1> QED BY <1>1 DEF Acts, Goto

Bit(b) == IF b THEN 1 ELSE 0

\* One handler's step moves a count by what it was and is.
LEMMA BusyMoves ==
  ASSUME LogShape, NEW w \in Workers, NEW s, NEW l, Acts(w, s, l), NEW e, NEW S
  PROVE  /\ Cardinality(Busy(e, S)) \in Nat /\ Cardinality(Busy(e, S)') \in Nat
         /\ Cardinality(Busy(e, S)') = Cardinality(Busy(e, S))
               - Bit(loc[w].event = e /\ pc[w] \in S) + Bit(l.event = e /\ s \in S)
<1>1. ASSUME NEW B, B = Busy(e, S), NEW C, C = Busy(e, S)'
      PROVE  /\ Cardinality(B) \in Nat /\ Cardinality(C) \in Nat
             /\ Cardinality(C) = Cardinality(B)
                   - Bit(loc[w].event = e /\ pc[w] \in S) + Bit(l.event = e /\ s \in S)
  <2>1. /\ B \subseteq Workers /\ C \subseteq Workers
        /\ \A v \in Workers : v # w => (v \in B <=> v \in C)
        /\ w \in B <=> loc[w].event = e /\ pc[w] \in S
        /\ w \in C <=> l.event = e /\ s \in S
    BY <1>1 DEF Busy, Acts
  <2> HIDE <1>1
  <2>2. IsFiniteSet(B) /\ IsFiniteSet(C)
    BY <2>1, WebhookAssumption, FS_Subset
  <2>3. Cardinality(B) \in Nat /\ Cardinality(C) \in Nat
    BY <2>2, FS_CardinalityType
  <2>4. CASE w \in B /\ w \in C
    <3>1. B = C BY <2>1, <2>4
    <3> QED BY <2>1, <2>3, <2>4, <3>1 DEF Bit
  <2>5. CASE w \notin B /\ w \notin C
    <3>1. B = C BY <2>1, <2>5
    <3> QED BY <2>1, <2>3, <2>5, <3>1 DEF Bit
  <2>6. CASE w \in B /\ w \notin C
    <3>1. C = B \ {w} BY <2>1, <2>6
    <3>2. Cardinality(C) = Cardinality(B) - 1
      BY <2>2, <2>6, <3>1, FS_RemoveElement
    <3> QED BY <2>1, <2>3, <2>6, <3>2 DEF Bit
  <2>7. CASE w \notin B /\ w \in C
    <3>1. C = B \cup {w} BY <2>1, <2>7
    <3>2. Cardinality(C) = Cardinality(B) + 1
      BY <2>2, <2>7, <3>1, FS_AddElement
    <3> QED BY <2>1, <2>3, <2>7, <3>2 DEF Bit
  <2> QED BY <2>4, <2>5, <2>6, <2>7
<1> QED BY <1>1

\* Without a handler's step the counts stay.
LEMMA BusyStays ==
  ASSUME LogShape, UNCHANGED <<pc, loc>>, NEW e, NEW S
  PROVE  Busy(e, S)' = Busy(e, S) /\ Cardinality(Busy(e, S)) \in Nat
<1>1. Busy(e, S) \subseteq Workers
  BY DEF Busy
<1>2. Cardinality(Busy(e, S)) \in Nat
  BY <1>1, WebhookAssumption, FS_Subset, FS_CardinalityType
<1> QED BY <1>2 DEF Busy

-----------------------------------------------------------------------------
(* The log *)

\* Types of one handler and one event, for citing.
LEMMA Types ==
  ASSUME LogInv
  PROVE  /\ \A w \in Workers : /\ Handling(w) /\ pc[w] \in Places /\ loc[w] \in LocType
                               /\ pc[w] # "idle" => loc[w].event \in Events
         /\ \A e \in Events : /\ Tasked(e) /\ Counted(e) /\ task[e] \in TaskType
                              /\ row[e] \in RowType /\ accepted[e] \in Nat
                              /\ task[e].retry \in Nat /\ row[e].attempts \in Nat
                              /\ Taken(e) \in Nat
         /\ LogShape /\ NoOne \notin Workers /\ MaxAttempts \in Nat \ {0}
<1>1. LogShape /\ MaxAttempts \in Nat \ {0} /\ NoOne \notin Workers
  BY WebhookAssumption DEF LogInv, NoOne
<1>2. ASSUME NEW w \in Workers
      PROVE  /\ Handling(w) /\ pc[w] \in Places /\ loc[w] \in LocType
             /\ pc[w] # "idle" => loc[w].event \in Events
  <2>1. Handling(w) /\ pc[w] \in Places /\ loc[w] \in LocType
    BY <1>1 DEF LogInv, LogShape
  <2>2. loc[w].event \in Events \cup {"none"}
    BY <2>1 DEF LocType
  <2> QED BY <2>1, <2>2 DEF Handling
<1>3. ASSUME NEW e \in Events
      PROVE  /\ Tasked(e) /\ Counted(e) /\ task[e] \in TaskType
             /\ row[e] \in RowType /\ accepted[e] \in Nat
             /\ task[e].retry \in Nat /\ row[e].attempts \in Nat /\ Taken(e) \in Nat
  <2>1. /\ Tasked(e) /\ Counted(e) /\ task[e] \in TaskType
        /\ row[e] \in RowType /\ accepted[e] \in Nat
    BY <1>1 DEF LogInv, LogShape
  <2>2. task[e].retry \in Nat /\ row[e].attempts \in Nat
    BY <1>1, <2>1 DEF TaskType, RowType
  <2> QED BY <2>1, <2>2 DEF Taken
<1> QED BY <1>1, <1>2, <1>3

\* Without lost leases two handlers have different events.
LEMMA Exclusive ==
  ASSUME LogInv, lost = 0, NEW w \in Workers, NEW v \in Workers, v # w,
         pc[w] # "idle", pc[v] # "idle"
  PROVE  loc[v].event # loc[w].event
BY Types DEF Handling

\* The other handlers do not notice a step on an event that is not theirs.
LEMMA OthersHandle ==
  ASSUME LogInv, NEW w \in Workers, NEW s, NEW l, Acts(w, s, l), lost' = lost,
         \A e \in Events : accepted'[e] \in Nat /\ accepted'[e] >= accepted[e],
         NEW x, \A e \in Events : e # x => task'[e] = task[e] /\ row'[e] = row[e],
         \A v \in Workers : lost = 0 /\ v # w /\ pc[v] # "idle" => loc[v].event # x
  PROVE  \A v \in Workers : v # w => Handling(v)'
<1>1. SUFFICES ASSUME NEW v \in Workers, v # w PROVE Handling(v)'
  OBVIOUS
<1>2. pc'[v] = pc[v] /\ loc'[v] = loc[v]
  BY <1>1 DEF Acts
<1>3. Handling(v) /\ (pc[v] # "idle" => loc[v].event \in Events)
  BY Types
<1>4. /\ pc'[v] = "idle" <=> loc'[v].event = "none"
      /\ pc'[v] = "mark" => loc'[v].result # "none"
  BY <1>2, <1>3 DEF Handling
<1>5. loc'[v].result = "delivered" =>
          loc'[v].event \in Events /\ accepted'[loc'[v].event] > 0
  <2>1. SUFFICES ASSUME loc[v].result = "delivered"
                 PROVE  loc[v].event \in Events /\ accepted'[loc[v].event] > 0
    BY <1>2
  <2>2. loc[v].event \in Events /\ accepted[loc[v].event] > 0
    BY <1>3, <2>1 DEF Handling
  <2>3. accepted[loc[v].event] \in Nat
    BY <2>2, Types
  <2> QED BY <2>2, <2>3
<1>6. /\ lost' = 0 /\ pc'[v] # "idle" => task'[loc'[v].event].owner = v
      /\ lost' = 0 /\ pc'[v] = "ack" => row'[loc'[v].event].status = "delivered"
  BY <1>1, <1>2, <1>3 DEF Handling
<1> QED BY <1>4, <1>5, <1>6 DEF Handling

\* A task that is still the same, with the same row, is as it was.
LEMMA SameTask ==
  ASSUME LogInv, NEW e \in Events, task'[e] = task[e], row'[e] = row[e], emit'[e] = emit[e],
         lost' = lost
  PROVE  Tasked(e)' /\ Taken(e)' = Taken(e)
BY Types DEF Tasked, Taken

\* The steps of a handler between the queue and its record: the task and the
\* row stay, the receiver accepts one more at most, and only after a post.
LEMMA WorkKeeps ==
  ASSUME LogInv, NEW w \in Workers, pc[w] \in BeforePost, NEW s \in Places \ {"idle", "ack"},
         NEW l \in LocType, Acts(w, s, l), l.event = loc[w].event,
         s \in BeforePost \cup {"mark"}, s = "mark" => pc[w] = "post" /\ l.result # "none",
         UNCHANGED <<row, task, emit, faults, lost>>, LogShape',
         \A e \in Events : e # loc[w].event => accepted'[e] = accepted[e],
         \/ UNCHANGED accepted
         \/ s = "mark" /\ accepted'[loc[w].event] = accepted[loc[w].event] + 1,
         l.result = "delivered" =>
            accepted'[loc[w].event] > 0
  PROVE  LogInv'
<1> DEFINE x == loc[w].event
<1>1. /\ Handling(w) /\ pc[w] # "idle" /\ x \in Events /\ x # "none"
      /\ accepted[x] \in Nat
  BY Types, WebhookAssumption DEF BeforePost
<1>2. \A e \in Events : accepted'[e] \in Nat /\ accepted'[e] >= accepted[e]
  <2>1. \A e \in Events : accepted[e] \in Nat
    BY Types
  <2> QED BY <1>1, <2>1
<1>3. \A v \in Workers : v # w => Handling(v)'
  <2>1. \A v \in Workers : lost = 0 /\ v # w /\ pc[v] # "idle" => loc[v].event # x
    BY <1>1, Exclusive
  <2> QED BY <1>2, <2>1, OthersHandle
<1>4. Handling(w)'
  BY <1>1 DEF Handling, Acts, BeforePost
<1>5. DeliveredWasAccepted'
  <2>1. ASSUME NEW e \in Events, row'[e].status = "delivered" PROVE accepted'[e] > 0
    BY <1>2, <2>1, Types DEF LogInv, DeliveredWasAccepted
  <2> QED BY <2>1 DEF DeliveredWasAccepted
<1>6. ASSUME NEW e \in Events PROVE Tasked(e)' /\ Counted(e)'
  <2>1. Tasked(e)' /\ Taken(e)' = Taken(e)
    BY SameTask
  <2>2. /\ Counted(e) /\ accepted[e] \in Nat /\ row[e].attempts \in Nat /\ Taken(e) \in Nat
        /\ LogShape
    BY Types
  <2>3. /\ Cardinality(Busy(e, BeforePost)) \in Nat /\ Cardinality(Busy(e, BeforePost)') \in Nat
        /\ Cardinality(Busy(e, BeforePost)') = Cardinality(Busy(e, BeforePost))
              - Bit(x = e /\ pc[w] \in BeforePost) + Bit(l.event = e /\ s \in BeforePost)
    BY <2>2, BusyMoves
  <2>4. /\ Cardinality(Busy(e, BeforeMark)) \in Nat /\ Cardinality(Busy(e, BeforeMark)') \in Nat
        /\ Cardinality(Busy(e, BeforeMark)') = Cardinality(Busy(e, BeforeMark))
              - Bit(x = e /\ pc[w] \in BeforeMark) + Bit(l.event = e /\ s \in BeforeMark)
    BY <2>2, BusyMoves
  <2>5. Bit(x = e /\ pc[w] \in BeforeMark) = Bit(l.event = e /\ s \in BeforeMark)
    BY DEF Bit, BeforeMark
  <2>6. row'[e].attempts + Cardinality(Busy(e, BeforeMark)') <= Taken(e)'
    <3>1. row'[e].attempts = row[e].attempts
      OBVIOUS
    <3>2. Bit(x = e /\ pc[w] \in BeforeMark) \in Nat
      BY DEF Bit
    <3> QED BY <2>1, <2>2, <2>4, <2>5, <3>1, <3>2 DEF Counted
  <2>7. accepted'[e] + Cardinality(Busy(e, BeforePost)') <= Taken(e)'
    <3>1. CASE UNCHANGED accepted
      <4>1. Cardinality(Busy(e, BeforePost)') <= Cardinality(Busy(e, BeforePost))
        BY <2>3 DEF Bit
      <4> QED BY <2>1, <2>2, <2>3, <3>1, <4>1 DEF Counted
    <3>2. CASE s = "mark" /\ accepted'[x] = accepted[x] + 1
      <4>1. CASE e = x
        <5>1. Cardinality(Busy(e, BeforePost)') = Cardinality(Busy(e, BeforePost)) - 1
          BY <2>3, <3>2, <4>1 DEF Bit, BeforePost
        <5> QED BY <2>1, <2>2, <2>3, <3>2, <4>1, <5>1 DEF Counted
      <4>2. CASE e # x
        <5>1. Cardinality(Busy(e, BeforePost)') = Cardinality(Busy(e, BeforePost))
          BY <2>3, <4>2 DEF Bit
        <5> QED BY <2>1, <2>2, <2>3, <4>2, <5>1 DEF Counted
      <4> QED BY <4>1, <4>2
    <3> QED BY <3>1, <3>2
  <2> QED BY <2>1, <2>6, <2>7 DEF Counted
<1> QED BY <1>3, <1>4, <1>5, <1>6 DEF LogInv

\* The two reads.
LEMMA ReadsKeep ==
  ASSUME LogInv, endpoint \in EndpointType, NEW w \in Workers,
         GetDeliveryByID(w) \/ GetEndpointByID(w)
  PROVE  LogInv'
<1>1. /\ LogShape /\ loc[w] \in LocType
      /\ UNCHANGED <<row, task, emit, accepted, faults, lost>>
  BY Types DEF GetDeliveryByID, GetEndpointByID
<1>2. CASE GetDeliveryByID(w)
  <2>1. pc[w] = "loadrow" /\ Goto(w, "loadendpoint") /\ loc' = [loc EXCEPT ![w] = loc[w]]
    BY <1>1, <1>2 DEF GetDeliveryByID, LogShape
  <2>2. Acts(w, "loadendpoint", loc[w])
    BY <1>1, <2>1, ActsHow DEF Places
  <2>3. LogShape'
    BY <1>1, <2>2 DEF LogShape, Acts
  <2>4. loc[w].result = "delivered" => accepted'[loc[w].event] > 0
    BY <1>1, Types DEF Handling
  <2>5. "loadendpoint" \in Places \ {"idle", "ack"} /\ "loadendpoint" \in BeforePost
    BY DEF Places, BeforePost
  <2>6. pc[w] \in BeforePost
    BY <2>1 DEF BeforePost
  <2> QED BY <1>1, <2>2, <2>3, <2>4, <2>5, <2>6, WorkKeeps
<1>3. CASE GetEndpointByID(w)
  <2> DEFINE l == [loc[w] EXCEPT !.endpoint = endpoint]
  <2>1. pc[w] = "loadendpoint" /\ Goto(w, "post") /\ loc' = [loc EXCEPT ![w] = l]
    BY <1>1, <1>3 DEF GetEndpointByID, LogShape
  <2>2. l \in LocType /\ l.event = loc[w].event /\ l.result = loc[w].result
    BY <1>1 DEF LocType
  <2> HIDE DEF l
  <2>3. Acts(w, "post", l)
    BY <1>1, <2>1, <2>2, ActsHow DEF Places
  <2>4. LogShape'
    BY <1>1, <2>3 DEF LogShape, Acts
  <2>5. l.result = "delivered" => accepted'[loc[w].event] > 0
    BY <1>1, <2>2, Types DEF Handling
  <2>6. "post" \in Places \ {"idle", "ack"} /\ "post" \in BeforePost
    BY DEF Places, BeforePost
  <2>7. pc[w] \in BeforePost
    BY <2>1 DEF BeforePost
  <2> QED BY <1>1, <2>2, <2>3, <2>4, <2>5, <2>6, <2>7, WorkKeeps
<1> QED BY <1>2, <1>3

\* The post.
LEMMA PostKeeps ==
  ASSUME LogInv, NEW w \in Workers, Post(w)
  PROVE  LogInv'
<1>1. /\ pc[w] = "post" /\ Goto(w, "mark") /\ UNCHANGED <<row, task, emit, faults, lost>>
      /\ LogShape /\ loc[w] \in LocType /\ pc[w] \in BeforePost /\ pc[w] # "idle"
  BY Types DEF Post, BeforePost
<1>2. loc[w].event \in Events /\ accepted \in [Events -> Nat]
  BY <1>1, Types DEF LogShape
<1>3. "mark" \in Places \ {"idle", "ack"}
  BY DEF Places
<1>4. ASSUME NEW r \in {"delivered", "failed"}, loc' = [loc EXCEPT ![w].result = r],
             \/ accepted' = [accepted EXCEPT ![loc[w].event] = @ + 1]
             \/ r = "failed" /\ UNCHANGED accepted
      PROVE  LogInv'
  <2> DEFINE l == [loc[w] EXCEPT !.result = r]
  <2>1. l \in LocType /\ l.event = loc[w].event /\ l.result = r
    BY <1>1 DEF LocType
  <2>2. loc' = [loc EXCEPT ![w] = l]
    BY <1>1, <1>4 DEF LogShape
  <2> HIDE DEF l
  <2>3. Acts(w, "mark", l)
    BY <1>1, <2>1, <2>2, ActsHow DEF Places
  <2>4. /\ accepted' \in [Events -> Nat]
        /\ \A e \in Events : e # loc[w].event => accepted'[e] = accepted[e]
        /\ \/ UNCHANGED accepted
           \/ accepted'[loc[w].event] = accepted[loc[w].event] + 1
        /\ r = "delivered" => accepted'[loc[w].event] > 0
    BY <1>2, <1>4
  <2>5. LogShape'
    BY <1>1, <2>3, <2>4 DEF LogShape, Acts
  <2> QED BY <1>1, <1>3, <2>1, <2>3, <2>4, <2>5, WorkKeeps
<1> QED BY <1>4 DEF Post

\* A task is taken from the queue.
LEMMA DequeueKeeps ==
  ASSUME LogInv, NEW w \in Workers, Dequeue(w)
  PROVE  LogInv'
<1>1. /\ pc[w] = "idle" /\ Goto(w, "loadrow")
      /\ UNCHANGED <<row, emit, accepted, faults, lost>>
      /\ LogShape /\ loc[w].event = "none"
  BY Types DEF Dequeue, Handling
<1>2. PICK x \in Events :
        /\ task[x].state = "pending"
        /\ task' = [task EXCEPT ![x].state = "active", ![x].owner = w]
        /\ loc' = [loc EXCEPT ![w] = [NoLocals EXCEPT !.event = x]]
  BY DEF Dequeue
<1> DEFINE l == [NoLocals EXCEPT !.event = x]
           t == [task[x] EXCEPT !.state = "active", !.owner = w]
<1>3. l \in LocType /\ l.event = x /\ l.result = "none"
  BY DEF NoLocals, LocType, EndpointType, None, Version
<1>4. /\ task[x] \in TaskType /\ t \in TaskType /\ t.state = "active" /\ t.owner = w
      /\ t.retry = task[x].retry
  BY Types DEF TaskType
<1>5. task' = [task EXCEPT ![x] = t] /\ loc' = [loc EXCEPT ![w] = l]
  BY <1>1, <1>2 DEF LogShape
<1> HIDE DEF l, t
<1>6. Acts(w, "loadrow", l)
  BY <1>1, <1>3, <1>5, ActsHow DEF Places
<1>7. /\ task' \in [Events -> TaskType] /\ task'[x] = t
      /\ \A e \in Events : e # x => task'[e] = task[e]
  BY <1>1, <1>4, <1>5 DEF LogShape
<1>8. LogShape'
  BY <1>1, <1>6, <1>7 DEF LogShape, Acts
<1>9. x # "none" /\ task[x].owner = NoOne
  BY <1>2, <1>4, Types, WebhookAssumption DEF Tasked
<1>10. \A v \in Workers : v # w => Handling(v)'
  <2>1. \A v \in Workers : lost = 0 /\ v # w /\ pc[v] # "idle" => loc[v].event # x
    BY <1>9, Types DEF Handling
  <2>2. \A e \in Events : accepted'[e] \in Nat /\ accepted'[e] >= accepted[e]
    BY <1>1, Types
  <2>3. \A e \in Events : e # x => task'[e] = task[e] /\ row'[e] = row[e]
    BY <1>1, <1>7
  <2> QED BY <1>1, <1>6, <2>1, <2>2, <2>3, OthersHandle
<1>11. Handling(w)'
  BY <1>3, <1>4, <1>6, <1>7, <1>9 DEF Handling, Acts
<1>12. DeliveredWasAccepted'
  BY <1>1 DEF LogInv, DeliveredWasAccepted
<1>13. ASSUME NEW e \in Events PROVE Tasked(e)' /\ Counted(e)'
  <2>1. /\ Counted(e) /\ accepted[e] \in Nat /\ row[e].attempts \in Nat /\ Taken(e) \in Nat
        /\ Tasked(e) /\ task[e].retry \in Nat
    BY Types
  <2>2. ASSUME NEW S, "loadrow" \in S
        PROVE  /\ Cardinality(Busy(e, S)) \in Nat /\ Cardinality(Busy(e, S)') \in Nat
               /\ Cardinality(Busy(e, S)') = Cardinality(Busy(e, S)) + Bit(e = x)
    <3>1. /\ Cardinality(Busy(e, S)) \in Nat /\ Cardinality(Busy(e, S)') \in Nat
          /\ Cardinality(Busy(e, S)') = Cardinality(Busy(e, S))
                - Bit(loc[w].event = e /\ pc[w] \in S) + Bit(l.event = e /\ "loadrow" \in S)
      BY <1>1, <1>6, BusyMoves
    <3>2. loc[w].event # e
      BY <1>1, WebhookAssumption
    <3>3. Bit(loc[w].event = e /\ pc[w] \in S) = 0
          /\ Bit(l.event = e /\ "loadrow" \in S) = Bit(e = x)
      BY <1>3, <2>2, <3>2 DEF Bit
    <3>4. Bit(e = x) \in Nat
      BY DEF Bit
    <3> QED BY <3>1, <3>3, <3>4
  <2>3. Taken(e)' = Taken(e) + Bit(e = x)
    <3>1. CASE e = x
      BY <1>2, <1>4, <1>7, <2>1, <3>1 DEF Taken, Bit
    <3>2. CASE e # x
      <4>1. Taken(e)' = Taken(e)
        BY <1>7, <3>2 DEF Taken
      <4> QED BY <2>1, <3>2, <4>1 DEF Bit
    <3> QED BY <3>1, <3>2
  <2>4. Tasked(e)'
    <3>1. CASE e = x
      BY <1>1, <1>2, <1>4, <1>7, <2>1, <3>1 DEF Tasked
    <3>2. CASE e # x
      BY <1>1, <1>7, <2>1, <3>2 DEF Tasked
    <3> QED BY <3>1, <3>2
  <2>5. Bit(e = x) \in Nat
    BY DEF Bit
  <2>6. "loadrow" \in BeforePost /\ "loadrow" \in BeforeMark
    BY DEF BeforePost, BeforeMark
  <2>7. accepted'[e] + Cardinality(Busy(e, BeforePost)') <= Taken(e)'
    <3>1. /\ Cardinality(Busy(e, BeforePost)) \in Nat
          /\ Cardinality(Busy(e, BeforePost)') = Cardinality(Busy(e, BeforePost)) + Bit(e = x)
      BY <2>2, <2>6
    <3> QED BY <1>1, <2>1, <2>3, <2>5, <3>1 DEF Counted
  <2>8. row'[e].attempts + Cardinality(Busy(e, BeforeMark)') <= Taken(e)'
    <3>1. /\ Cardinality(Busy(e, BeforeMark)) \in Nat
          /\ Cardinality(Busy(e, BeforeMark)') = Cardinality(Busy(e, BeforeMark)) + Bit(e = x)
      BY <2>2, <2>6
    <3> QED BY <1>1, <2>1, <2>3, <2>5, <3>1 DEF Counted
  <2> QED BY <2>4, <2>7, <2>8 DEF Counted
<1> QED BY <1>8, <1>10, <1>11, <1>12, <1>13 DEF LogInv

\* The outcome is recorded.
LEMMA MarkKeeps ==
  ASSUME LogInv, NEW w \in Workers, MarkDeliveryResult(w)
  PROVE  LogInv'
<1> DEFINE x == loc[w].event
           n == row[x].attempts + 1
           r == [status |-> loc[w].result, attempts |-> n]
           s == IF loc[w].result = "delivered" THEN "ack" ELSE "nack"
<1>1. /\ pc[w] = "mark" /\ Goto(w, s) /\ row' = [row EXCEPT ![x] = r]
      /\ UNCHANGED <<task, emit, accepted, loc, faults, lost>>
  <2>1. MarkDeliveryResult(w)
    OBVIOUS
  <2> QED BY <2>1 DEF MarkDeliveryResult
<1>2. /\ Handling(w) /\ LogShape /\ loc[w] \in LocType /\ x \in Events /\ pc[w] # "idle"
      /\ row[x] \in RowType /\ row[x].attempts \in Nat /\ x # "none"
  BY <1>1, Types, WebhookAssumption
<1>3. loc[w].result \in {"delivered", "failed"}
  BY <1>1, <1>2 DEF Handling, LocType
<1>4. r \in RowType /\ r.status = loc[w].result /\ r.attempts = row[x].attempts + 1
  BY <1>2, <1>3 DEF RowType
<1>5. s \in Places /\ s \notin BeforeMark /\ s \notin BeforePost /\ s # "idle" /\ s # "mark"
      /\ (s = "ack" <=> loc[w].result = "delivered")
  BY DEF Places, BeforeMark, BeforePost
<1> HIDE DEF n, r, s
<1>6. loc' = [loc EXCEPT ![w] = loc[w]]
  BY <1>1, <1>2 DEF LogShape
<1>7. Acts(w, s, loc[w])
  BY <1>1, <1>2, <1>5, <1>6, ActsHow
<1>8. /\ row' \in [Events -> RowType] /\ row'[x] = r
      /\ \A e \in Events : e # x => row'[e] = row[e]
  BY <1>1, <1>2, <1>4 DEF LogShape
<1>9. LogShape'
  BY <1>1, <1>2, <1>7, <1>8 DEF LogShape, Acts
<1>10. \A v \in Workers : v # w => Handling(v)'
  <2>1. \A v \in Workers : lost = 0 /\ v # w /\ pc[v] # "idle" => loc[v].event # x
    BY <1>2, Exclusive
  <2>2. \A e \in Events : accepted'[e] \in Nat /\ accepted'[e] >= accepted[e]
    BY <1>1, Types
  <2>3. \A e \in Events : e # x => task'[e] = task[e] /\ row'[e] = row[e]
    BY <1>1, <1>8
  <2> QED BY <1>1, <1>7, <2>1, <2>2, <2>3, OthersHandle
<1>11. Handling(w)'
  BY <1>1, <1>2, <1>4, <1>5, <1>7, <1>8 DEF Handling, Acts
<1>12. DeliveredWasAccepted'
  <2>1. ASSUME NEW e \in Events, row'[e].status = "delivered" PROVE accepted'[e] > 0
    <3>1. CASE e = x
      BY <1>1, <1>2, <1>4, <1>8, <2>1, <3>1 DEF Handling
    <3>2. CASE e # x
      BY <1>1, <1>8, <2>1, <3>2 DEF LogInv, DeliveredWasAccepted
    <3> QED BY <3>1, <3>2
  <2> QED BY <2>1 DEF DeliveredWasAccepted
<1>13. ASSUME NEW e \in Events PROVE Tasked(e)' /\ Counted(e)'
  <2>1. /\ Counted(e) /\ accepted[e] \in Nat /\ row[e].attempts \in Nat /\ Taken(e) \in Nat
        /\ Tasked(e)
    BY Types
  <2>2. Tasked(e)'
    <3>1. CASE e = x
      <4>1. lost = 0 => task[e].owner = w
        BY <1>2, <3>1 DEF Handling
      <4>2. lost = 0 => task[e].state = "active"
        BY <2>1, <4>1, Types DEF Tasked
      <4> QED BY <1>1, <2>1, <4>2 DEF Tasked
    <3>2. CASE e # x
      BY <1>1, <1>8, <2>1, <3>2 DEF Tasked
    <3> QED BY <3>1, <3>2
  <2>3. Taken(e)' = Taken(e)
    BY <1>1 DEF Taken
  <2>4. /\ Cardinality(Busy(e, BeforePost)) \in Nat /\ Cardinality(Busy(e, BeforePost)') \in Nat
        /\ Cardinality(Busy(e, BeforePost)') = Cardinality(Busy(e, BeforePost))
              - Bit(loc[w].event = e /\ pc[w] \in BeforePost)
              + Bit(loc[w].event = e /\ s \in BeforePost)
    BY <1>2, <1>7, BusyMoves
  <2>5. /\ Cardinality(Busy(e, BeforeMark)) \in Nat /\ Cardinality(Busy(e, BeforeMark)') \in Nat
        /\ Cardinality(Busy(e, BeforeMark)') = Cardinality(Busy(e, BeforeMark))
              - Bit(loc[w].event = e /\ pc[w] \in BeforeMark)
              + Bit(loc[w].event = e /\ s \in BeforeMark)
    BY <1>2, <1>7, BusyMoves
  <2>6. /\ Bit(loc[w].event = e /\ pc[w] \in BeforePost) = 0
        /\ Bit(loc[w].event = e /\ s \in BeforePost) = 0
        /\ Bit(loc[w].event = e /\ pc[w] \in BeforeMark) = Bit(e = x)
        /\ Bit(loc[w].event = e /\ s \in BeforeMark) = 0
    BY <1>1, <1>5 DEF Bit, BeforePost, BeforeMark
  <2>7. row'[e].attempts = row[e].attempts + Bit(e = x)
    <3>1. CASE e = x
      BY <1>4, <1>8, <3>1 DEF Bit
    <3>2. CASE e # x
      BY <1>8, <2>1, <3>2 DEF Bit
    <3> QED BY <3>1, <3>2
  <2>8. Bit(e = x) \in Nat
    BY DEF Bit
  <2>9. accepted'[e] + Cardinality(Busy(e, BeforePost)') <= Taken(e)'
    BY <1>1, <2>1, <2>3, <2>4, <2>6 DEF Counted
  <2>10. row'[e].attempts + Cardinality(Busy(e, BeforeMark)') <= Taken(e)'
    BY <2>1, <2>3, <2>5, <2>6, <2>7, <2>8 DEF Counted
  <2> QED BY <2>2, <2>9, <2>10 DEF Counted
<1> QED BY <1>9, <1>10, <1>11, <1>12, <1>13 DEF LogInv

\* A task that is given up by its handler was taken as often as before.
LEMMA RedeliveredTask ==
  ASSUME MaxAttempts \in Nat \ {0}, NEW t \in TaskType
  PROVE  /\ Redelivered(t) \in TaskType /\ Redelivered(t).owner = NoOne
         /\ Redelivered(t).state \in {"pending", "archived"}
         /\ Redelivered(t).state = "pending" => Redelivered(t).retry = t.retry + 1
         /\ Redelivered(t).state = "archived" =>
               Redelivered(t).retry = t.retry /\ t.retry = MaxAttempts - 1
<1>1. t.retry \in 0..MaxAttempts - 1 /\ NoOne \in Workers \cup {NoOne}
  BY DEF TaskType
<1>2. CASE t.retry + 1 < MaxAttempts
  <2>1. Redelivered(t) = [state |-> "pending", retry |-> t.retry + 1, owner |-> NoOne]
    BY <1>2 DEF Redelivered
  <2>2. t.retry + 1 \in 0..MaxAttempts - 1
    BY <1>1, <1>2
  <2> QED BY <1>1, <2>1, <2>2 DEF TaskType
<1>3. CASE ~(t.retry + 1 < MaxAttempts)
  <2>1. Redelivered(t) = [state |-> "archived", retry |-> t.retry, owner |-> NoOne]
    BY <1>3 DEF Redelivered
  <2>2. t.retry = MaxAttempts - 1
    BY <1>1, <1>3
  <2> QED BY <1>1, <2>1, <2>2 DEF TaskType
<1> QED BY <1>2, <1>3

\* What the end of a lease makes of a task: nobody's, taken as often.
Ended(t, u) ==
    /\ u \in TaskType /\ u.owner = NoOne
    /\ u.state \in {"pending", "archived", "done"}
    /\ u.state = "pending" => u.retry = t.retry + 1
    /\ u.state # "pending" => u.retry = t.retry
    /\ u.state = "archived" => u.retry = MaxAttempts - 1

\* The parts of the invariant about an event whose lease ends.
LEMMA EndedTask ==
  ASSUME LogInv, NEW x \in Events, task[x].owner # NoOne, Ended(task[x], task'[x]),
         emit' = emit, row' = row, lost' = 0 => lost = 0,
         task'[x].state = "done" /\ lost' = 0 => row[x].status = "delivered"
  PROVE  Tasked(x)' /\ Taken(x)' = Taken(x)
<1>1. Tasked(x) /\ task[x].retry \in Nat /\ task[x].state = "active"
  BY Types DEF Tasked
<1>2. Tasked(x)'
  BY <1>1 DEF Tasked, Ended
<1>3. Taken(x)' = Taken(x)
  BY <1>1 DEF Taken, Ended
<1> QED BY <1>2, <1>3

\* A handler that leaves, for whatever reason, keeps the log.
LEMMA LeaveKeeps ==
  ASSUME LogInv, NEW w \in Workers, pc[w] # "idle", NEW acked \in BOOLEAN,
         acked => pc[w] = "ack", Leave(w, acked),
         UNCHANGED <<row, emit, accepted, lost>>, faults' \in 0..MaxFaults
  PROVE  LogInv'
<1>0. PICK x : x = loc[w].event
  OBVIOUS
<1>1. /\ Handling(w) /\ LogShape /\ x \in Events /\ task[x] \in TaskType /\ x # "none"
      /\ MaxAttempts \in Nat \ {0} /\ NoOne \notin Workers
  BY <1>0, Types, WebhookAssumption
<1>2. /\ task' = IF task[x].owner # w THEN task
                 ELSE [task EXCEPT ![x] = IF acked THEN [@ EXCEPT !.state = "done", !.owner = NoOne]
                                          ELSE Redelivered(@)]
      /\ loc' = [loc EXCEPT ![w] = NoLocals] /\ Goto(w, "idle")
  BY <1>0 DEF Leave
<1>3. NoLocals \in LocType /\ NoLocals.event = "none" /\ NoLocals.result = "none"
  BY DEF NoLocals, LocType, EndpointType, None, Version
<1>4. Acts(w, "idle", NoLocals)
  BY <1>1, <1>2, <1>3, ActsHow DEF Places
<1>5. /\ task' \in [Events -> TaskType] /\ \A e \in Events : e # x => task'[e] = task[e]
      /\ task[x].owner # w => task'[x] = task[x]
      /\ task[x].owner = w => Ended(task[x], task'[x]) /\ (task'[x].state = "done" => acked)
  <2>1. CASE task[x].owner # w
    BY <1>1, <1>2, <2>1 DEF LogShape
  <2>2. CASE task[x].owner = w /\ acked
    <3> DEFINE u == [task[x] EXCEPT !.state = "done", !.owner = NoOne]
    <3>1. task' = [task EXCEPT ![x] = u]
      BY <1>1, <1>2, <2>2 DEF LogShape
    <3>2. u \in TaskType /\ u.state = "done" /\ u.owner = NoOne /\ u.retry = task[x].retry
      BY <1>1 DEF TaskType
    <3> HIDE DEF u
    <3> QED BY <1>1, <2>2, <3>1, <3>2 DEF Ended, LogShape
  <2>3. CASE task[x].owner = w /\ ~acked
    <3>1. task' = [task EXCEPT ![x] = Redelivered(task[x])]
      BY <1>1, <1>2, <2>3 DEF LogShape
    <3>2. /\ Redelivered(task[x]) \in TaskType /\ Redelivered(task[x]).owner = NoOne
          /\ Redelivered(task[x]).state \in {"pending", "archived"}
          /\ Redelivered(task[x]).state = "pending" =>
                Redelivered(task[x]).retry = task[x].retry + 1
          /\ Redelivered(task[x]).state = "archived" =>
                Redelivered(task[x]).retry = task[x].retry /\ task[x].retry = MaxAttempts - 1
      BY <1>1, RedeliveredTask
    <3>3. Ended(task[x], Redelivered(task[x])) /\ Redelivered(task[x]).state # "done"
      BY <3>2 DEF Ended
    <3> QED BY <1>1, <2>3, <3>1, <3>2, <3>3 DEF LogShape
  <2> QED BY <2>1, <2>2, <2>3
<1>6. LogShape'
  BY <1>1, <1>4, <1>5 DEF LogShape, Acts
<1>7. \A v \in Workers : v # w => Handling(v)'
  <2>1. \A v \in Workers : lost = 0 /\ v # w /\ pc[v] # "idle" => loc[v].event # x
    BY <1>0, Exclusive
  <2>2. \A e \in Events : accepted'[e] \in Nat /\ accepted'[e] >= accepted[e]
    BY Types
  <2>3. \A e \in Events : e # x => task'[e] = task[e] /\ row'[e] = row[e]
    BY <1>5
  <2> QED BY <1>4, <2>1, <2>2, <2>3, OthersHandle
<1>8. Handling(w)'
  BY <1>3, <1>4 DEF Handling, Acts
<1>9. DeliveredWasAccepted'
  BY DEF LogInv, DeliveredWasAccepted
<1>10. ASSUME NEW e \in Events PROVE Tasked(e)' /\ Counted(e)'
  <2>1. /\ Counted(e) /\ accepted[e] \in Nat /\ row[e].attempts \in Nat /\ Taken(e) \in Nat
        /\ Tasked(e)
    BY Types
  <2>2. Tasked(e)' /\ Taken(e)' = Taken(e)
    <3>1. CASE e = x /\ task[x].owner = w
      <4>1. task'[x].state = "done" /\ lost' = 0 => row[x].status = "delivered"
        BY <1>0, <1>1, <1>5, <3>1 DEF Handling
      <4> QED BY <1>1, <1>5, <3>1, <4>1, EndedTask
    <3>2. CASE ~(e = x /\ task[x].owner = w)
      <4>1. task'[e] = task[e]
        BY <1>5, <3>2
      <4> QED BY <4>1, SameTask
    <3> QED BY <3>1, <3>2
  <2>3. ASSUME NEW S, "idle" \notin S
        PROVE  /\ Cardinality(Busy(e, S)) \in Nat /\ Cardinality(Busy(e, S)') \in Nat
               /\ Cardinality(Busy(e, S)') <= Cardinality(Busy(e, S))
    <3>1. /\ Cardinality(Busy(e, S)) \in Nat /\ Cardinality(Busy(e, S)') \in Nat
          /\ Cardinality(Busy(e, S)') = Cardinality(Busy(e, S))
                - Bit(loc[w].event = e /\ pc[w] \in S) + Bit(NoLocals.event = e /\ "idle" \in S)
      BY <1>1, <1>4, BusyMoves
    <3>2. Bit(NoLocals.event = e /\ "idle" \in S) = 0
          /\ Bit(loc[w].event = e /\ pc[w] \in S) \in Nat
      BY <2>3 DEF Bit
    <3> QED BY <3>1, <3>2
  <2>4. "idle" \notin BeforePost /\ "idle" \notin BeforeMark
    BY DEF BeforePost, BeforeMark
  <2>5. accepted'[e] + Cardinality(Busy(e, BeforePost)') <= Taken(e)'
    <3>1. /\ Cardinality(Busy(e, BeforePost)) \in Nat /\ Cardinality(Busy(e, BeforePost)') \in Nat
          /\ Cardinality(Busy(e, BeforePost)') <= Cardinality(Busy(e, BeforePost))
      BY <2>3, <2>4
    <3> QED BY <2>1, <2>2, <3>1 DEF Counted
  <2>6. row'[e].attempts + Cardinality(Busy(e, BeforeMark)') <= Taken(e)'
    <3>1. /\ Cardinality(Busy(e, BeforeMark)) \in Nat /\ Cardinality(Busy(e, BeforeMark)') \in Nat
          /\ Cardinality(Busy(e, BeforeMark)') <= Cardinality(Busy(e, BeforeMark))
      BY <2>3, <2>4
    <3> QED BY <2>1, <2>2, <3>1 DEF Counted
  <2> QED BY <2>2, <2>5, <2>6 DEF Counted
<1> QED BY <1>6, <1>7, <1>8, <1>9, <1>10 DEF LogInv

\* A lost lease: the handler runs on, the task is delivered again.
LEMMA LoseLeaseKeeps ==
  ASSUME LogInv, NEW w \in Workers, LoseLease(w)
  PROVE  LogInv'
<1>0. PICK x : x = loc[w].event
  OBVIOUS
<1>1. /\ lost < MaxLost /\ lost' = lost + 1 /\ pc[w] # "idle" /\ task[x].owner = w
      /\ task' = [task EXCEPT ![x] = Redelivered(@)]
      /\ UNCHANGED <<row, emit, accepted, pc, loc, faults>>
  BY <1>0 DEF LoseLease, Spend
<1>2. /\ LogShape /\ x \in Events /\ task[x] \in TaskType /\ MaxAttempts \in Nat \ {0}
      /\ NoOne \notin Workers
  BY <1>0, <1>1, Types
<1>3. lost' \in 0..MaxLost /\ lost' # 0
  BY <1>1, <1>2, WebhookAssumption DEF LogShape
<1>4. /\ Redelivered(task[x]) \in TaskType /\ Redelivered(task[x]).owner = NoOne
      /\ Redelivered(task[x]).state \in {"pending", "archived"}
      /\ Redelivered(task[x]).state = "pending" =>
            Redelivered(task[x]).retry = task[x].retry + 1
      /\ Redelivered(task[x]).state = "archived" =>
            Redelivered(task[x]).retry = task[x].retry /\ task[x].retry = MaxAttempts - 1
  BY <1>2, RedeliveredTask
<1>5. /\ task' \in [Events -> TaskType] /\ \A e \in Events : e # x => task'[e] = task[e]
      /\ task'[x] = Redelivered(task[x])
  BY <1>1, <1>2, <1>4 DEF LogShape
<1>6. Ended(task[x], task'[x]) /\ task'[x].state # "done"
  BY <1>4, <1>5 DEF Ended
<1>7. LogShape'
  BY <1>1, <1>2, <1>3, <1>5 DEF LogShape
<1>8. DeliveredWasAccepted' /\ \A v \in Workers : Handling(v)'
  BY <1>1, <1>3, Types DEF LogInv, DeliveredWasAccepted, Handling
<1>9. ASSUME NEW e \in Events PROVE Tasked(e)' /\ Counted(e)'
  <2>1. Tasked(e) /\ Counted(e)
    BY Types
  <2>2. Tasked(e)' /\ Taken(e)' = Taken(e)
    <3>1. CASE e = x
      BY <1>1, <1>2, <1>3, <1>6, <3>1, EndedTask
    <3>2. CASE e # x
      BY <1>1, <1>3, <1>5, <2>1, <3>2 DEF Tasked, Taken
    <3> QED BY <3>1, <3>2
  <2>3. Busy(e, BeforePost)' = Busy(e, BeforePost) /\ Busy(e, BeforeMark)' = Busy(e, BeforeMark)
    BY <1>1, <1>2, BusyStays
  <2> QED BY <1>1, <2>1, <2>2, <2>3 DEF Counted
<1> QED BY <1>7, <1>8, <1>9 DEF LogInv

\* The emitter's steps.
LEMMA EmitKeeps ==
  ASSUME LogInv, NEW x \in Events, EmitStep(x)
  PROVE  LogInv'
<1>1. /\ UNCHANGED <<accepted, pc, loc, faults, lost>> /\ LogShape
      /\ emit[x] \in {"start", "insert", "enqueue"}
  BY Types DEF EmitStep, LookupEndpoint, InsertDelivery, EnqueueDeliver
<1>2. task[x].state = "none" /\ task[x].owner = NoOne
  BY <1>1, Types DEF Tasked
<1>3. \A e \in Events : /\ Busy(e, BeforePost)' = Busy(e, BeforePost)
                        /\ Busy(e, BeforeMark)' = Busy(e, BeforeMark)
                        /\ Cardinality(Busy(e, BeforePost)) \in Nat
                        /\ Cardinality(Busy(e, BeforeMark)) \in Nat
  BY <1>1, BusyStays
<1>4. ASSUME LogShape', DeliveredWasAccepted',
             \A e \in Events : e # x => task'[e] = task[e] /\ row'[e] = row[e] /\ emit'[e] = emit[e],
             task'[x].owner = NoOne, task'[x].retry = task[x].retry,
             task'[x].state \in {"none", "pending"},
             emit'[x] \in {"start", "insert", "enqueue"} => task'[x].state = "none",
             row'[x].attempts \in Nat, row'[x].attempts <= row[x].attempts
      PROVE  LogInv'
  <2>1. \A v \in Workers : lost = 0 /\ pc[v] # "idle" => loc[v].event # x
    BY <1>2, Types DEF Handling
  <2>2. ASSUME NEW v \in Workers PROVE Handling(v)'
    <3>1. Handling(v) /\ (pc[v] # "idle" => loc[v].event \in Events)
      BY Types
    <3> QED BY <1>1, <1>4, <2>1, <3>1 DEF Handling
  <2>3. ASSUME NEW e \in Events PROVE Tasked(e)' /\ Counted(e)'
    <3>1. /\ Tasked(e) /\ Counted(e) /\ row[e].attempts \in Nat /\ accepted[e] \in Nat
          /\ Taken(e) \in Nat
      BY Types
    <3>2. CASE e = x
      <4>1. Tasked(e)' /\ Taken(e)' = Taken(e)
        BY <1>2, <1>4, <3>2 DEF Tasked, Taken
      <4>2. Counted(e)'
        BY <1>1, <1>3, <1>4, <3>1, <3>2, <4>1 DEF Counted
      <4> QED BY <4>1, <4>2
    <3>3. CASE e # x
      <4>1. Tasked(e)' /\ Taken(e)' = Taken(e)
        BY <1>1, <1>4, <3>3, SameTask
      <4>2. Counted(e)'
        BY <1>1, <1>3, <1>4, <3>1, <3>3, <4>1 DEF Counted
      <4> QED BY <4>1, <4>2
    <3> QED BY <3>2, <3>3
  <2> QED BY <1>4, <2>2, <2>3 DEF LogInv
<1>5. CASE LookupEndpoint(x)
  <2>1. UNCHANGED <<row, task>> /\ emit' \in [Events -> {"start", "insert", "enqueue", "sent", "dropped"}]
        /\ \A e \in Events : e # x => emit'[e] = emit[e]
    BY <1>1, <1>5 DEF LookupEndpoint, LogShape
  <2>2. LogShape' /\ DeliveredWasAccepted'
    BY <1>1, <2>1 DEF LogInv, LogShape, DeliveredWasAccepted
  <2>3. row[x].attempts \in Nat /\ row[x].attempts <= row[x].attempts
    BY Types
  <2> QED BY <1>2, <1>4, <2>1, <2>2, <2>3
<1>6. CASE InsertDelivery(x)
  <2> DEFINE r == [status |-> "pending", attempts |-> 0]
  <2>1. /\ row' = [row EXCEPT ![x] = r] /\ emit' = [emit EXCEPT ![x] = "enqueue"]
        /\ UNCHANGED task
    BY <1>6 DEF InsertDelivery
  <2>2. r \in RowType /\ r.attempts = 0 /\ r.status = "pending"
    BY DEF RowType
  <2> HIDE DEF r
  <2>3. /\ row' \in [Events -> RowType] /\ row'[x] = r
        /\ \A e \in Events : e # x => row'[e] = row[e] /\ emit'[e] = emit[e]
        /\ emit' \in [Events -> {"start", "insert", "enqueue", "sent", "dropped"}]
    BY <1>1, <2>1, <2>2 DEF LogShape
  <2>4. LogShape'
    BY <1>1, <2>1, <2>3 DEF LogShape
  <2>5. DeliveredWasAccepted'
    BY <1>1, <2>2, <2>3 DEF LogInv, DeliveredWasAccepted
  <2>6. row'[x].attempts \in Nat /\ row'[x].attempts <= row[x].attempts
    BY <2>2, <2>3, Types
  <2> QED BY <1>2, <1>4, <2>1, <2>3, <2>4, <2>5, <2>6
<1>7. CASE EnqueueDeliver(x)
  <2>1. UNCHANGED row
    BY <1>7 DEF EnqueueDeliver
  <2>2. row[x].attempts \in Nat /\ row[x].attempts <= row[x].attempts /\ task[x] \in TaskType
    BY Types
  <2>3. DeliveredWasAccepted'
    BY <1>1, <2>1 DEF LogInv, DeliveredWasAccepted
  <2>4. CASE task' = [task EXCEPT ![x].state = "pending"] /\ emit' = [emit EXCEPT ![x] = "sent"]
    <3> DEFINE t == [task[x] EXCEPT !.state = "pending"]
    <3>1. task' = [task EXCEPT ![x] = t]
      BY <1>1, <2>4 DEF LogShape
    <3>2. t \in TaskType /\ t.owner = task[x].owner /\ t.retry = task[x].retry /\ t.state = "pending"
      BY <2>2 DEF TaskType
    <3> HIDE DEF t
    <3>3. /\ task' \in [Events -> TaskType] /\ task'[x] = t /\ emit'[x] = "sent"
          /\ \A e \in Events : e # x => task'[e] = task[e] /\ emit'[e] = emit[e]
          /\ emit' \in [Events -> {"start", "insert", "enqueue", "sent", "dropped"}]
      BY <1>1, <2>4, <3>1, <3>2 DEF LogShape
    <3>4. LogShape'
      BY <1>1, <2>1, <3>3 DEF LogShape
    <3> QED BY <1>2, <1>4, <2>1, <2>2, <2>3, <3>2, <3>3, <3>4
  <2>5. CASE UNCHANGED task /\ emit' = [emit EXCEPT ![x] = "dropped"]
    <3>1. /\ \A e \in Events : e # x => emit'[e] = emit[e]
          /\ emit' \in [Events -> {"start", "insert", "enqueue", "sent", "dropped"}]
      BY <1>1, <2>5 DEF LogShape
    <3>2. LogShape'
      BY <1>1, <2>1, <2>5, <3>1 DEF LogShape
    <3> QED BY <1>2, <1>4, <2>1, <2>2, <2>3, <2>5, <3>1, <3>2
  <2> QED BY <1>7, <2>4, <2>5 DEF EnqueueDeliver
<1> QED BY <1>5, <1>6, <1>7 DEF EmitStep

-----------------------------------------------------------------------------
(* The invariant of the specification *)

HookInv == PutInv /\ LogInv

\* Nothing is configured, emitted or delivered at first.
LEMMA HookInit ==
  ASSUME Init
  PROVE  HookInv
<1>1. PutInv
  <2>1. None \in EndpointType
    BY DEF None, EndpointType, Version
  <2>2. /\ NoPut \in [at : {"start", "write", "done"}, found : EndpointType,
                      answer : Secrets \cup {"none", "error"}]
        /\ NoPut.found = None /\ NoPut.answer = "none"
    BY <2>1 DEF NoPut
  <2> QED BY <2>1, <2>2, WebhookAssumption DEF Init, PutInv, Secrets
<1>2. LogInv
  <2> DEFINE t == [state |-> "none", retry |-> 0, owner |-> NoOne]
  <2>1. /\ NoLocals \in LocType /\ NoLocals.event = "none" /\ NoLocals.result = "none"
        /\ NoRow \in RowType /\ NoRow.attempts = 0 /\ NoRow.status = "absent"
    BY DEF NoLocals, LocType, EndpointType, None, Version, NoRow, RowType
  <2>2. t \in TaskType /\ t.state = "none" /\ t.retry = 0 /\ t.owner = NoOne
    BY WebhookAssumption DEF TaskType
  <2>3. task = [e \in Events |-> t]
    BY DEF Init
  <2> HIDE DEF t
  <2>4. LogShape
    BY <2>1, <2>2, <2>3, WebhookAssumption DEF Init, LogShape, Places
  <2>5. DeliveredWasAccepted /\ \A w \in Workers : Handling(w)
    BY <2>1 DEF Init, DeliveredWasAccepted, Handling
  <2>6. ASSUME NEW e \in Events PROVE Tasked(e) /\ Counted(e)
    <3>1. task[e] = t /\ row[e] = NoRow /\ accepted[e] = 0
      BY <2>3 DEF Init
    <3>2. Busy(e, BeforePost) = {} /\ Busy(e, BeforeMark) = {}
      BY DEF Init, Busy, BeforePost, BeforeMark
    <3>3. Cardinality(Busy(e, BeforePost)) = 0 /\ Cardinality(Busy(e, BeforeMark)) = 0
      BY <3>2, FS_EmptySet
    <3>4. Tasked(e)
      BY <2>2, <3>1 DEF Tasked
    <3> QED BY <2>1, <2>2, <3>1, <3>3, <3>4 DEF Counted, Taken
  <2> QED BY <2>4, <2>5, <2>6 DEF LogInv
<1> QED BY <1>1, <1>2 DEF HookInv

\* Every action keeps both parts.
LEMMA HookStep ==
  ASSUME HookInv, [Next]_vars
  PROVE  HookInv'
<1>1. PutInv /\ LogInv /\ endpoint \in EndpointType
  BY DEF HookInv, PutInv
<1>2. ASSUME UNCHANGED <<endpoint, put>> PROVE PutInv'
  BY <1>1, <1>2 DEF PutInv
<1>3. ASSUME UNCHANGED <<row, task, emit, accepted, pc, loc, faults, lost>> PROVE LogInv'
  BY <1>1, <1>3 DEF LogInv, LogShape, DeliveredWasAccepted, Tasked, Counted, Handling, Busy, Taken
<1>4. CASE UNCHANGED vars
  BY <1>2, <1>3, <1>4 DEF vars, HookInv
<1>5. CASE \E a \in Admins : PutStep(a)
  <2>1. PutInv'
    BY <1>1, <1>5, PutKeeps
  <2>2. UNCHANGED <<row, task, emit, accepted, pc, loc, faults, lost>>
    BY <1>5 DEF PutStep, ReadEndpoint, UpdateEndpointURL, InsertEndpoint
  <2> QED BY <1>3, <2>1, <2>2 DEF HookInv
<1>6. CASE \E e \in Events : EmitStep(e)
  <2>1. LogInv'
    BY <1>1, <1>6, EmitKeeps
  <2>2. UNCHANGED <<endpoint, put>>
    BY <1>6 DEF EmitStep, LookupEndpoint, InsertDelivery, EnqueueDeliver
  <2> QED BY <1>2, <2>1, <2>2 DEF HookInv
<1>7. ASSUME NEW w \in Workers, WorkerStep(w) \/ Fault(w) \/ LoseLease(w)
      PROVE  HookInv'
  <2>1. UNCHANGED <<endpoint, put>>
    BY <1>7 DEF WorkerStep, Dequeue, GetDeliveryByID, GetEndpointByID, Post, MarkDeliveryResult,
       HandlerReturns, Fault, LoseLease
  <2>2. CASE Dequeue(w)
    BY <1>1, <1>2, <2>1, <2>2, DequeueKeeps DEF HookInv
  <2>3. CASE GetDeliveryByID(w) \/ GetEndpointByID(w)
    BY <1>1, <1>2, <2>1, <2>3, ReadsKeep DEF HookInv
  <2>4. CASE Post(w)
    BY <1>1, <1>2, <2>1, <2>4, PostKeeps DEF HookInv
  <2>5. CASE MarkDeliveryResult(w)
    BY <1>1, <1>2, <2>1, <2>5, MarkKeeps DEF HookInv
  <2>6. CASE HandlerReturns(w)
    <3>1. PICK acked \in BOOLEAN : acked = (pc[w] = "ack")
      OBVIOUS
    <3>2. /\ pc[w] # "idle" /\ Leave(w, acked) /\ UNCHANGED <<row, emit, accepted, lost, faults>>
      BY <2>6, <3>1 DEF HandlerReturns
    <3>3. faults' \in 0..MaxFaults
      BY <1>1, <3>2 DEF LogInv, LogShape
    <3>4. LogInv'
      BY <1>1, <3>1, <3>2, <3>3, LeaveKeeps
    <3> QED BY <1>2, <2>1, <3>4 DEF HookInv
  <2>7. CASE Fault(w)
    <3>1. /\ pc[w] # "idle" /\ Leave(w, FALSE) /\ UNCHANGED <<row, emit, accepted, lost>>
          /\ faults < MaxFaults /\ faults' = faults + 1
      BY <2>7 DEF Fault, Spend
    <3>2. faults' \in 0..MaxFaults
      BY <1>1, <3>1, WebhookAssumption DEF LogInv, LogShape
    <3>3. LogInv'
      BY <1>1, <3>1, <3>2, LeaveKeeps
    <3> QED BY <1>2, <2>1, <3>3 DEF HookInv
  <2>8. CASE LoseLease(w)
    BY <1>1, <1>2, <2>1, <2>8, LoseLeaseKeeps DEF HookInv
  <2> QED BY <1>7, <2>2, <2>3, <2>4, <2>5, <2>6, <2>7, <2>8 DEF WorkerStep
<1> QED BY <1>4, <1>5, <1>6, <1>7 DEF Next

\* The inductive invariant holds in every reachable state.
THEOREM HookInvariant == Spec => []HookInv
<1>1. Init => HookInv
  BY HookInit
<1>2. HookInv /\ [Next]_vars => HookInv'
  BY HookStep
<1> QED BY <1>1, <1>2, PTL DEF Spec

\* No event is accepted or logged more often than its task was taken: the
\* counts of the invariant leave the handlers that still run out.
LEMMA AttemptsHeld ==
  ASSUME LogInv
  PROVE  AttemptsBounded
<1>1. ASSUME NEW e \in Events
      PROVE  accepted[e] <= task[e].retry + 1 /\ row[e].attempts <= task[e].retry + 1
  <2>1. /\ Counted(e) /\ accepted[e] \in Nat /\ row[e].attempts \in Nat /\ task[e].retry \in Nat
        /\ Taken(e) \in Nat
    BY Types
  <2>2. Taken(e) <= task[e].retry + 1
    BY <2>1 DEF Taken
  <2>3. ASSUME NEW S PROVE Cardinality(Busy(e, S)) \in Nat
    <3>1. Busy(e, S) \subseteq Workers
      BY DEF Busy
    <3> QED BY <3>1, WebhookAssumption, FS_Subset, FS_CardinalityType
  <2>4. Cardinality(Busy(e, BeforePost)) \in Nat /\ Cardinality(Busy(e, BeforeMark)) \in Nat
    BY <2>3
  <2> QED BY <2>1, <2>2, <2>4 DEF Counted
<1> QED BY <1>1 DEF AttemptsBounded

\* Endpoint, log, queue and handlers keep their types; in particular no event
\* is accepted more often than MaxAttempts.
THEOREM TypeCorrect == Spec => []TypeOK
<1>1. ASSUME HookInv
      PROVE  TypeOK
  <2>1. PutInv /\ LogInv /\ LogShape /\ MaxAttempts \in Nat \ {0}
    BY <1>1, Types DEF HookInv
  <2>2. AttemptsBounded
    BY <2>1, AttemptsHeld
  <2>3. ASSUME NEW e \in Events
        PROVE  /\ accepted[e] \in 0..MaxAttempts
               /\ row[e] \in [status : {"absent", "pending", "delivered", "failed"},
                              attempts : 0..MaxAttempts]
    <3>1. /\ accepted[e] <= task[e].retry + 1 /\ row[e].attempts <= task[e].retry + 1
          /\ accepted[e] \in Nat /\ row[e].attempts \in Nat /\ row[e] \in RowType
          /\ task[e] \in TaskType
      BY <2>1, <2>2, Types DEF AttemptsBounded
    <3>2. task[e].retry \in 0..MaxAttempts - 1
      BY <3>1 DEF TaskType
    <3>3. accepted[e] \in 0..MaxAttempts /\ row[e].attempts \in 0..MaxAttempts
      BY <2>1, <3>1, <3>2
    <3> QED BY <3>1, <3>3 DEF RowType
  <2>4. /\ row \in [Events -> [status : {"absent", "pending", "delivered", "failed"},
                               attempts : 0..MaxAttempts]]
        /\ accepted \in [Events -> 0..MaxAttempts]
    BY <2>1, <2>3 DEF LogShape
  <2> QED BY <2>1, <2>4 DEF TypeOK, PutInv, LogShape, EndpointType, TaskType, LocType, Places
<1> QED BY <1>1, HookInvariant, PTL

\* The delivery log is honest (MarkDeliveryResult, Handle): delivered was
\* accepted, attempts are no more than were made, and without a lost lease
\* failed is given up.
THEOREM LogHonestHolds == Spec => []LogHonest
<1>1. ASSUME HookInv
      PROVE  LogHonest
  <2>1. LogInv
    BY <1>1 DEF HookInv
  <2>2. FailedMeansExhausted
    <3>1. ASSUME NEW e \in Events, lost = 0, row[e].status = "failed",
                 task[e].state \in {"done", "archived"}
          PROVE  task[e].state = "archived" /\ task[e].retry = MaxAttempts - 1
      BY <2>1, <3>1, Types DEF Tasked
    <3> QED BY <3>1 DEF FailedMeansExhausted
  <2> QED BY <2>1, <2>2, AttemptsHeld DEF LogHonest, LogInv
<1> QED BY <1>1, HookInvariant, PTL

\* Every PUT that answered a secret answered the one deliveries are signed with
\* (UpsertEndpoint with the unique index), for any number of concurrent PUTs.
THEOREM AnsweredSecretSignsHolds == Spec => []AnsweredSecretSigns
<1>1. HookInv => AnsweredSecretSigns
  BY DEF HookInv, PutInv, AnsweredSecretSigns
<1> QED BY <1>1, HookInvariant, PTL
=============================================================================
