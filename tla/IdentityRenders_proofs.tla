----------------------- MODULE IdentityRenders_proofs -----------------------
(***************************************************************************)
(* Proofs about module IdentityRenders, for any number of upserts, anchor  *)
(* requests, bootstraps and generations.  The inductive invariant says     *)
(* what each kind of request may rely on between its transactions: an      *)
(* upsert that compares holds the row and has read its present traits; a   *)
(* job's output is published once; what a render's row says about the      *)
(* render agrees with the hash it is found by.                             *)
(***************************************************************************)
EXTENDS IdentityRenders, SequenceTheorems, TLAPS

-----------------------------------------------------------------------------
(* The inductive invariant *)

AnyLook == Looks \cup {"none"}
AnyIntent == Intents \cup {"none"}
Asked == [look : Looks, name : Names]
IdentityType == [look : AnyLook, name : Names \cup {NoText}, version : Nat, anchors : AnchorSets]
Hashes ==
    {<<"upload">>} \cup {ArtifactRenderHash(x) : x \in Picture}
    \cup {GenerationRenderHash(x, s, i) : x \in Picture, s \in AnchorSets, i \in AnyIntent}
Places == {"start", "insert", "update", "set", "lookup", "lookup_commit", "queued", "render",
           "attach", "completed", "served", "done", "failed"}
LocType == [asked : Asked \cup {Unread}, seen : AnyLook, picture : Picture, anchors : AnchorSets, intent : AnyIntent,
            conditioned : BOOLEAN, refs : AnchorSets, asset : AssetIds \cup {NoAsset}]
RowType == [hash : Hashes, picture : Picture, refs : AnchorSets, intent : AnyIntent,
            conditioned : BOOLEAN, status : {"ready", "archived"}]

Shape ==
    /\ identity \in IdentityType
    /\ identity.version = Len(history) /\ history \in Seq(Looks)
    /\ rowLock \in Upserts \cup {Free}
    /\ Uploads \subseteq DOMAIN assets /\ DOMAIN assets \subseteq AssetIds
    /\ \A a \in DOMAIN assets : assets[a] \in RowType
    /\ pc \in [Requests -> Places] /\ loc \in [Requests -> LocType]
    /\ redelivered \in 0..MaxRedeliveries

\* An upsert that found a row holds it, and compares with its present traits.
Holding(u) ==
    /\ pc[u] \in {"insert", "update"} => loc[u].asked \in Asked
    /\ pc[u] = "update" => rowLock = u /\ Exists /\ loc[u].seen = identity.look

\* A bootstrap's render is published once, and never conditioned.
Booting(b) ==
    /\ ~loc[b].conditioned
    /\ b \in DOMAIN assets => pc[b] \in {"attach", "completed"}
    /\ pc[b] = "set" => loc[b].asset \in AssetIds

\* A generation's render too; a conditioned one has its references.
Serving(g) ==
    /\ g \in DOMAIN assets => pc[g] = "served"
    /\ pc[g] = "render" /\ loc[g].conditioned => loc[g].refs # <<>>
    /\ pc[g] = "served" =>
          /\ loc[g].asset \in DOMAIN assets
          /\ assets[loc[g].asset].picture = loc[g].picture
          /\ loc[g].intent = "commit" => assets[loc[g].asset].intent = "commit"

\* A row found by a generation's hash is a render of that hash's picture and
\* intent.
Honest(a) ==
    /\ \A x, s, i : assets[a].hash = GenerationRenderHash(x, s, i) =>
          assets[a].picture = x /\ assets[a].intent = i
    /\ assets[a].conditioned => assets[a].refs # <<>>

RendersInv ==
    /\ Shape /\ VersionsRecordChanges
    /\ \A u \in Upserts : Holding(u)
    /\ \A b \in Bootstraps : Booting(b)
    /\ \A g \in Generations : Serving(g)
    /\ \A a \in DOMAIN assets : Honest(a)

-----------------------------------------------------------------------------
(* Frames *)

\* A step of request p: its own place and locals, and nobody else's.
Acts(p, s, l) ==
    /\ pc' \in [Requests -> Places] /\ pc'[p] = s
    /\ loc' \in [Requests -> LocType] /\ loc'[p] = l
    /\ \A q \in Requests : q # p => pc'[q] = pc[q] /\ loc'[q] = loc[q]

\* Goto and an update of the locals make such a step.
LEMMA ActsHow ==
  ASSUME Shape, NEW p \in Requests, NEW s \in Places, Goto(p, s), NEW l \in LocType,
         loc' = [loc EXCEPT ![p] = l]
  PROVE  Acts(p, s, l)
<1>1. pc \in [Requests -> Places] /\ loc \in [Requests -> LocType]
  BY DEF Shape
<1> QED BY <1>1 DEF Acts, Goto

\* So does Goto alone.
LEMMA ActsGoto ==
  ASSUME Shape, NEW p \in Requests, NEW s \in Places, Goto(p, s), loc' = loc
  PROVE  Acts(p, s, loc[p])
<1>1. pc \in [Requests -> Places] /\ loc \in [Requests -> LocType]
  BY DEF Shape
<1> QED BY <1>1 DEF Acts, Goto

\* So does Return.
LEMMA ActsReturn ==
  ASSUME Shape, NEW p \in Requests, NEW s \in Places, Return(p, s)
  PROVE  Acts(p, s, Blank) /\ Blank \in LocType
<1>1. Blank \in LocType
  BY DEF Blank, LocType, Unread, NoPicture, Picture, AnyLook, AnyIntent, AnchorSets, NoAsset
<1> QED BY <1>1, ActsHow DEF Return

\* The kinds of request are different requests.
LEMMA Kinds ==
  /\ \A u \in Upserts : u \in Requests /\ u \notin Bootstraps /\ u \notin Generations
  /\ \A a \in Attaches : a \in Requests /\ a \notin Upserts /\ a \notin Bootstraps
                         /\ a \notin Generations
  /\ \A b \in Bootstraps : b \in Requests /\ b \notin Upserts /\ b \notin Generations
                           /\ b \notin Uploads
  /\ \A g \in Generations : g \in Requests /\ g \notin Upserts /\ g \notin Bootstraps
                            /\ g \notin Uploads
BY IdentityAssumption DEF Requests

\* A row that exists has a look of its own: the newest of its history.
LEMMA LookExists == RendersInv /\ Exists => identity.look \in Looks
BY DEF RendersInv, Shape, IdentityType, VersionsRecordChanges, Exists

\* A step that leaves traits, history, rows and lock alone keeps the invariant
\* if it keeps the acting request's part of it.
LEMMA Calm ==
  ASSUME RendersInv, NEW p \in Requests, NEW s, NEW l, Acts(p, s, l),
         identity' \in IdentityType,
         identity'.look = identity.look, identity'.version = identity.version,
         UNCHANGED <<history, rowLock, assets>>, redelivered' \in 0..MaxRedeliveries,
         p \in Upserts => Holding(p)', p \in Bootstraps => Booting(p)',
         p \in Generations => Serving(p)'
  PROVE  RendersInv'
<1>1. Shape'
  BY DEF RendersInv, Shape, Acts
<1>2. VersionsRecordChanges'
  BY DEF RendersInv, VersionsRecordChanges, Exists
<1>3. ASSUME NEW u \in Upserts PROVE Holding(u)'
  <2>1. CASE u = p BY <2>1
  <2>2. CASE u # p
    BY <2>2, Kinds DEF RendersInv, Holding, Acts, Exists
  <2> QED BY <2>1, <2>2
<1>4. ASSUME NEW b \in Bootstraps PROVE Booting(b)'
  <2>1. CASE b = p BY <2>1
  <2>2. CASE b # p
    BY <2>2, Kinds DEF RendersInv, Booting, Acts
  <2> QED BY <2>1, <2>2
<1>5. ASSUME NEW g \in Generations PROVE Serving(g)'
  <2>1. CASE g = p BY <2>1
  <2>2. CASE g # p
    BY <2>2, Kinds DEF RendersInv, Serving, Acts
  <2> QED BY <2>1, <2>2
<1>6. ASSUME NEW a \in DOMAIN assets' PROVE Honest(a)'
  BY DEF RendersInv, Honest
<1> QED BY <1>1, <1>2, <1>3, <1>4, <1>5, <1>6 DEF RendersInv

\* The anchors' writer leaves the rest of the row.
LEMMA SetsAnchors ==
  ASSUME Shape, NEW ids \in AnchorSets, SetAnchorAssets(ids)
  PROVE  /\ identity' \in IdentityType
         /\ identity'.look = identity.look /\ identity'.version = identity.version
BY DEF Shape, IdentityType, SetAnchorAssets

\* A render under a new id: the rows there were stay.
LEMMA PublishKeeps ==
  ASSUME RendersInv, NEW p \in Bootstraps \cup Generations, NEW s, NEW l, Acts(p, s, l),
         NEW r \in RowType, Published(p, r), p \notin DOMAIN assets,
         UNCHANGED <<identity, history, rowLock, redelivered>>,
         \A x, t, i : r.hash = GenerationRenderHash(x, t, i) => r.picture = x /\ r.intent = i,
         r.conditioned => r.refs # <<>>,
         p \in Bootstraps => Booting(p)', p \in Generations => Serving(p)'
  PROVE  RendersInv'
<1>1. /\ DOMAIN assets' = DOMAIN assets \cup {p} /\ assets'[p] = r
      /\ \A a \in DOMAIN assets : assets'[a] = assets[a]
  BY DEF Published
<1>2. p \in AssetIds /\ p \in Requests /\ p \notin Upserts
  BY Kinds DEF AssetIds
<1>3. Shape'
  BY <1>1, <1>2 DEF RendersInv, Shape, Acts
<1>4. VersionsRecordChanges'
  BY DEF RendersInv, VersionsRecordChanges, Exists
<1>5. ASSUME NEW u \in Upserts PROVE Holding(u)'
  BY <1>2, Kinds DEF RendersInv, Holding, Acts, Exists
<1>6. ASSUME NEW b \in Bootstraps PROVE Booting(b)'
  <2>1. CASE b = p BY <2>1
  <2>2. CASE b # p
    BY <1>1, <2>2, Kinds DEF RendersInv, Booting, Acts
  <2> QED BY <2>1, <2>2
<1>7. ASSUME NEW g \in Generations PROVE Serving(g)'
  <2>1. CASE g = p BY <2>1
  <2>2. CASE g # p
    BY <1>1, <2>2, Kinds DEF RendersInv, Serving, Acts
  <2> QED BY <2>1, <2>2
<1>8. ASSUME NEW a \in DOMAIN assets' PROVE Honest(a)'
  <2>1. CASE a = p
    BY <1>1, <2>1 DEF Honest
  <2>2. CASE a \in DOMAIN assets
    BY <1>1, <2>2 DEF RendersInv, Honest
  <2> QED BY <1>1, <2>1, <2>2
<1> QED BY <1>3, <1>4, <1>5, <1>6, <1>7, <1>8 DEF RendersInv

-----------------------------------------------------------------------------
(* The upsert *)

\* The row is read and, when there is one, held.
LEMMA UpsertReadKeeps ==
  ASSUME RendersInv, NEW u \in Upserts, UpsertRead(u)
  PROVE  RendersInv'
<1>1. /\ pc[u] = "start" /\ rowLock = Free
      /\ UNCHANGED <<identity, history, assets, redelivered>>
  BY DEF UpsertRead
<1>2. PICK k \in Asked : loc' = [loc EXCEPT ![u].asked = k, ![u].seen = identity.look]
  BY DEF UpsertRead, Asked
<1>3. Shape /\ u \in Requests
  BY Kinds DEF RendersInv
<1> DEFINE l == [loc[u] EXCEPT !.asked = k, !.seen = identity.look]
<1>4. loc[u] \in LocType /\ identity.look \in AnyLook
  BY <1>3 DEF Shape, IdentityType
<1>5. l \in LocType /\ l.asked = k /\ l.seen = identity.look
  BY <1>4 DEF LocType, AnyLook
<1>6. loc' = [loc EXCEPT ![u] = l]
  BY <1>2, <1>3 DEF Shape
<1> HIDE DEF l
<1>7. identity' \in IdentityType
      /\ redelivered' \in 0..MaxRedeliveries
  BY <1>1, <1>3 DEF Shape
<1>8. u \notin Bootstraps /\ u \notin Generations
  BY Kinds
<1>9. CASE ~Exists /\ Goto(u, "insert") /\ UNCHANGED rowLock
  <2>1. Acts(u, "insert", l)
    BY <1>3, <1>5, <1>6, <1>9, ActsHow DEF Places
  <2>2. Holding(u)'
    BY <1>5, <2>1 DEF Holding, Acts
  <2> QED BY <1>1, <1>3, <1>7, <1>8, <1>9, <2>1, <2>2, Calm
<1>10. CASE Exists /\ Goto(u, "update") /\ rowLock' = u
  <2>1. Acts(u, "update", l)
    BY <1>3, <1>5, <1>6, <1>10, ActsHow DEF Places
  <2>2. Shape'
    BY <1>1, <1>3, <1>10, <2>1 DEF Shape, Acts
  <2>3. VersionsRecordChanges'
    BY <1>1 DEF RendersInv, VersionsRecordChanges, Exists
  <2>4. ASSUME NEW v \in Upserts PROVE Holding(v)'
    <3>1. CASE v = u
      BY <1>1, <1>5, <1>10, <2>1, <3>1 DEF Holding, Acts, Exists
    <3>2. CASE v # u
      <4>1. Holding(v) /\ pc'[v] = pc[v] /\ loc'[v] = loc[v]
        BY <2>1, <3>2, Kinds DEF RendersInv, Acts
      <4>2. pc[v] # "update"
        BY <1>1, <4>1, IdentityAssumption DEF Holding, Free
      <4> QED BY <4>1, <4>2 DEF Holding
    <3> QED BY <3>1, <3>2
  <2>5. \A b \in Bootstraps : Booting(b)'
    BY <1>1, <1>8, <2>1, Kinds DEF RendersInv, Booting, Acts
  <2>6. \A g \in Generations : Serving(g)'
    BY <1>1, <1>8, <2>1, Kinds DEF RendersInv, Serving, Acts
  <2>7. \A a \in DOMAIN assets' : Honest(a)'
    BY <1>1 DEF RendersInv, Honest
  <2> QED BY <2>2, <2>3, <2>4, <2>5, <2>6, <2>7 DEF RendersInv
<1> QED BY <1>9, <1>10 DEF UpsertRead

\* The parts of the invariant that are not about the row, when an upsert writes.
LEMMA WriteFrame ==
  ASSUME RendersInv, NEW u \in Upserts, NEW s, NEW l, Acts(u, s, l), UNCHANGED assets
  PROVE  /\ \A b \in Bootstraps : Booting(b)'
         /\ \A g \in Generations : Serving(g)'
         /\ \A a \in DOMAIN assets' : Honest(a)'
<1>1. u \notin Bootstraps /\ u \notin Generations
  BY Kinds
<1>2. \A b \in Bootstraps : Booting(b)'
  BY <1>1, Kinds DEF RendersInv, Booting, Acts
<1>3. \A g \in Generations : Serving(g)'
  BY <1>1, Kinds DEF RendersInv, Serving, Acts
<1>4. \A a \in DOMAIN assets' : Honest(a)'
  BY DEF RendersInv, Honest
<1> QED BY <1>2, <1>3, <1>4

\* The first upsert writes the row and its first version; a later one fails.
LEMMA UpsertInsertKeeps ==
  ASSUME RendersInv, NEW u \in Upserts, UpsertInsert(u)
  PROVE  RendersInv'
<1>1. pc[u] = "insert" /\ UNCHANGED <<rowLock, assets, redelivered>>
  BY DEF UpsertInsert
<1>2. Shape /\ u \in Requests /\ u \notin Bootstraps /\ u \notin Generations
  BY Kinds DEF RendersInv
<1>3. loc[u].asked \in Asked
  BY <1>1 DEF RendersInv, Holding
<1>4. CASE Exists /\ Return(u, "failed") /\ UNCHANGED <<identity, history>>
  <2>1. Acts(u, "failed", Blank)
    BY <1>2, <1>4, ActsReturn DEF Places
  <2>2. Holding(u)'
    BY <2>1 DEF Holding, Acts
  <2>3. identity' \in IdentityType
        /\ redelivered' \in 0..MaxRedeliveries
    BY <1>1, <1>2, <1>4 DEF Shape
  <2> QED BY <1>1, <1>2, <1>4, <2>1, <2>2, <2>3, Calm
<1>5. CASE /\ ~Exists /\ Return(u, "done")
           /\ identity' = [look |-> loc[u].asked.look, name |-> loc[u].asked.name,
                            version |-> 1, anchors |-> <<>>]
           /\ history' = <<loc[u].asked.look>>
  <2>1. Acts(u, "done", Blank)
    BY <1>2, <1>5, ActsReturn DEF Places
  <2>2. <<>> \in AnchorSets
    BY DEF AnchorSets
  <2>3. /\ identity' \in IdentityType
        /\ identity'.look = loc[u].asked.look /\ identity'.version = 1
    BY <1>3, <1>5, <2>2 DEF AnyLook, Asked, IdentityType
  <2>4. history' \in Seq(Looks) /\ Len(history') = 1 /\ history'[1] = loc[u].asked.look
    BY <1>3, <1>5 DEF Asked
  <2>5. Shape'
    BY <1>1, <1>2, <2>1, <2>3, <2>4 DEF Shape, Acts
  <2>6. VersionsRecordChanges'
    BY <2>3, <2>4 DEF VersionsRecordChanges
  <2>7. ASSUME NEW v \in Upserts PROVE Holding(v)'
    <3>1. CASE v = u
      BY <2>1, <3>1 DEF Holding, Acts
    <3>2. CASE v # u
      BY <1>5, <2>1, <3>2, Kinds DEF RendersInv, Holding, Acts
    <3> QED BY <3>1, <3>2
  <2> QED BY <1>1, <2>1, <2>5, <2>6, <2>7, WriteFrame DEF RendersInv
<1> QED BY <1>4, <1>5 DEF UpsertInsert

\* An upsert that changes the traits appends a version that differs from the
\* newest; one that does not changes nothing.
LEMMA UpsertUpdateKeeps ==
  ASSUME RendersInv, NEW u \in Upserts, UpsertUpdate(u)
  PROVE  RendersInv'
<1>1. /\ pc[u] = "update" /\ rowLock' = Free /\ Return(u, "done")
      /\ UNCHANGED <<assets, redelivered>>
  BY DEF UpsertUpdate
<1>2. Shape /\ u \in Requests
  BY Kinds DEF RendersInv
<1>3. loc[u].asked \in Asked /\ rowLock = u /\ Exists /\ loc[u].seen = identity.look
  BY <1>1 DEF RendersInv, Holding
<1>4. Acts(u, "done", Blank)
  BY <1>1, <1>2, ActsReturn DEF Places
<1>5. ASSUME NEW v \in Upserts PROVE Holding(v)'
  <2>1. CASE v = u
    BY <1>4, <2>1 DEF Holding, Acts
  <2>2. CASE v # u
    <3>1. Holding(v) /\ pc'[v] = pc[v] /\ loc'[v] = loc[v]
      BY <1>4, <2>2, Kinds DEF RendersInv, Acts
    <3>2. pc[v] # "update"
      BY <1>3, <2>2, <3>1 DEF Holding
    <3> QED BY <3>1, <3>2 DEF Holding
  <2> QED BY <2>1, <2>2
<1>6. Shape' /\ VersionsRecordChanges'
  <2>1. CASE UNCHANGED <<identity, history>>
    <3>1. Shape'
      BY <1>1, <1>2, <1>4, <2>1 DEF Shape, Acts
    <3>2. VersionsRecordChanges'
      BY <2>1 DEF RendersInv, VersionsRecordChanges, Exists
    <3> QED BY <3>1, <3>2
  <2>2. CASE /\ ~identityUnchanged(loc[u].seen, loc[u].asked.look)
             /\ identity' = [identity EXCEPT !.look = loc[u].asked.look,
                                             !.name = loc[u].asked.name, !.version = @ + 1]
             /\ history' = Append(history, loc[u].asked.look)
    <3>1. PICK n \in Nat : n = Len(history) /\ identity.version = n /\ n > 0
      BY <1>2, <1>3 DEF Shape, Exists
    <3>2. /\ identity' \in IdentityType
          /\ identity'.look = loc[u].asked.look /\ identity'.version = n + 1
      <4>1. /\ identity \in IdentityType
            /\ loc[u].asked.look \in AnyLook /\ loc[u].asked.name \in Names /\ n + 1 \in Nat
            /\ identity' = [identity EXCEPT !.look = loc[u].asked.look,
                                            !.name = loc[u].asked.name, !.version = n + 1]
        BY <1>2, <1>3, <2>2, <3>1 DEF Shape, AnyLook, Asked
      <4> QED BY <4>1 DEF IdentityType
    <3>3. history \in Seq(Looks) /\ history[n] = identity.look
      BY <1>2, <1>3, <3>1 DEF Shape, RendersInv, VersionsRecordChanges
    <3>4. /\ history' \in Seq(Looks) /\ Len(history') = n + 1
          /\ history'[n + 1] = loc[u].asked.look
          /\ \A v \in 1..n : history'[v] = history[v]
      BY <1>3, <2>2, <3>1, <3>3, AppendProperties DEF Asked
    <3>5. Shape'
      BY <1>1, <1>2, <1>4, <3>2, <3>4 DEF Shape, Acts
    <3>6. ASSUME NEW v \in 1..(Len(history') - 1)
          PROVE  history'[v] # history'[v + 1]
      <4>1. CASE v = n
        BY <1>3, <2>2, <3>1, <3>3, <3>4, <4>1 DEF identityUnchanged
      <4>2. CASE v # n
        <5>1. v \in 1..n /\ v + 1 \in 1..n /\ v \in 1..(Len(history) - 1)
          BY <3>1, <3>4, <4>2
        <5>2. history[v] # history[v + 1]
          BY <5>1 DEF RendersInv, VersionsRecordChanges
        <5> QED BY <3>4, <5>1, <5>2
      <4> QED BY <4>1, <4>2
    <3>7. history'[identity'.version] = identity'.look
      BY <3>2, <3>4
    <3> QED BY <3>5, <3>6, <3>7 DEF VersionsRecordChanges
  <2> QED BY <2>1, <2>2 DEF UpsertUpdate
<1> QED BY <1>1, <1>4, <1>5, <1>6, WriteFrame DEF RendersInv

-----------------------------------------------------------------------------
(* Anchors and bootstraps *)

\* The anchor endpoint: reads and validates, then sets.
LEMMA AttachKeeps ==
  ASSUME RendersInv, NEW a \in Attaches, AttachAnchors(a) \/ AttachSet(a)
  PROVE  RendersInv'
<1>1. /\ Shape /\ a \in Requests /\ a \notin Upserts /\ a \notin Bootstraps
      /\ a \notin Generations /\ loc[a] \in LocType
  BY Kinds DEF RendersInv, Shape
<1>2. CASE AttachAnchors(a)
  <2>1. UNCHANGED <<identity, history, rowLock, assets, redelivered>> /\ Goto(a, "set")
    BY <1>2 DEF AttachAnchors
  <2>2. PICK ids \in AnchorSets : loc' = [loc EXCEPT ![a].anchors = ids]
    BY <1>2 DEF AttachAnchors
  <2> DEFINE l == [loc[a] EXCEPT !.anchors = ids]
  <2>3. l \in LocType /\ loc' = [loc EXCEPT ![a] = l]
    BY <1>1, <2>2 DEF LocType
  <2> HIDE DEF l
  <2>4. Acts(a, "set", l)
    BY <1>1, <2>1, <2>3, ActsHow DEF Places
  <2>5. identity' \in IdentityType
        /\ redelivered' \in 0..MaxRedeliveries
    BY <1>1, <2>1 DEF Shape
  <2> QED BY <1>1, <2>1, <2>4, <2>5, Calm
<1>3. CASE AttachSet(a)
  <2>1. /\ SetAnchorAssets(loc[a].anchors) /\ Return(a, "done")
        /\ UNCHANGED <<history, rowLock, assets, redelivered>>
    BY <1>3 DEF AttachSet
  <2>2. loc[a].anchors \in AnchorSets
    BY <1>1 DEF LocType
  <2>3. /\ identity' \in IdentityType
        /\ identity'.look = identity.look /\ identity'.version = identity.version
    BY <1>1, <2>1, <2>2, SetsAnchors
  <2>4. Acts(a, "done", Blank)
    BY <1>1, <2>1, ActsReturn DEF Places
  <2>5. redelivered' \in 0..MaxRedeliveries
    BY <1>1, <2>1 DEF Shape
  <2> QED BY <1>1, <2>1, <2>3, <2>4, <2>5, Calm
<1> QED BY <1>2, <1>3

\* A row that is archived keeps everything but its status.
LEMMA ArchiveKeeps ==
  ASSUME RendersInv, NEW x \in Uploads, ArchivePriorReadyArtifactSlot(x)
  PROVE  RendersInv'
<1>1. /\ assets' = [assets EXCEPT ![x].status = "archived"]
      /\ UNCHANGED <<identity, history, rowLock, pc, loc, redelivered>>
  BY DEF ArchivePriorReadyArtifactSlot
<1>2. Shape /\ x \in DOMAIN assets /\ assets[x] \in RowType
  BY DEF RendersInv, Shape
<1>3. ASSUME NEW a \in DOMAIN assets
      PROVE  /\ assets'[a] \in RowType /\ assets'[a].hash = assets[a].hash
             /\ assets'[a].picture = assets[a].picture /\ assets'[a].intent = assets[a].intent
             /\ assets'[a].conditioned = assets[a].conditioned
             /\ assets'[a].refs = assets[a].refs
  <2>1. assets[a] \in RowType
    BY <1>2 DEF Shape
  <2>2. CASE a = x
    <3>1. assets'[a] = [assets[a] EXCEPT !.status = "archived"]
      BY <1>1, <2>2
    <3> QED BY <2>1, <3>1 DEF RowType
  <2>3. CASE a # x
    BY <1>1, <2>1, <2>3
  <2> QED BY <2>2, <2>3
<1>4. DOMAIN assets' = DOMAIN assets
  BY <1>1
<1>5. Shape'
  BY <1>1, <1>2, <1>3, <1>4 DEF Shape
<1>6. VersionsRecordChanges' /\ \A u \in Upserts : Holding(u)'
  BY <1>1 DEF RendersInv, VersionsRecordChanges, Exists, Holding
<1>7. \A b \in Bootstraps : Booting(b)'
  BY <1>1, <1>4 DEF RendersInv, Booting
<1>8. \A g \in Generations : Serving(g)'
  BY <1>1, <1>3, <1>4 DEF RendersInv, Serving
<1>9. \A a \in DOMAIN assets' : Honest(a)'
  BY <1>3, <1>4 DEF RendersInv, Honest
<1> QED BY <1>5, <1>6, <1>7, <1>8, <1>9 DEF RendersInv

\* A bootstrap's step that publishes nothing.
LEMMA BootQuiet ==
  ASSUME RendersInv, NEW b \in Bootstraps, NEW s \in Places, NEW l \in LocType, Acts(b, s, l),
         ~l.conditioned, s = "set" => l.asset \in AssetIds,
         b \in DOMAIN assets => s \in {"attach", "completed"},
         \/ UNCHANGED identity
         \/ \E ids \in AnchorSets : SetAnchorAssets(ids),
         UNCHANGED <<history, rowLock, assets>>, redelivered' \in 0..MaxRedeliveries
  PROVE  RendersInv'
<1>1. b \in Requests /\ b \notin Upserts /\ b \notin Generations /\ Shape
  BY Kinds DEF RendersInv
<1>2. /\ identity' \in IdentityType
      /\ identity'.look = identity.look /\ identity'.version = identity.version
  <2>1. CASE UNCHANGED identity
    BY <1>1, <2>1 DEF Shape
  <2>2. CASE \E ids \in AnchorSets : SetAnchorAssets(ids)
    BY <1>1, <2>2, SetsAnchors
  <2> QED BY <2>1, <2>2
<1>3. Booting(b)'
  BY DEF Booting, Acts
<1> QED BY <1>1, <1>2, <1>3, Calm

\* The bootstrap request, its job, and the job's redeliveries.
LEMMA BootstrapKeeps ==
  ASSUME RendersInv, NEW b \in Bootstraps,
         \/ BootstrapCharacterAnchor(b) \/ BootstrapReuse(b) \/ BootstrapSet(b)
         \/ BootstrapRender(b) \/ attachGeneratedIdentityAnchor(b) \/ RedeliverCompleted(b)
  PROVE  RendersInv'
<1>1. /\ b \in Requests /\ b \notin Upserts /\ b \notin Generations /\ Shape
      /\ loc[b] \in LocType /\ Booting(b) /\ redelivered \in 0..MaxRedeliveries
      /\ b \in AssetIds
  BY Kinds DEF RendersInv, Shape, AssetIds
<1>2. Blank \in LocType /\ ~Blank.conditioned
  BY DEF Blank, LocType, Unread, NoPicture, Picture, AnyLook, AnyIntent, AnchorSets, NoAsset
<1>3. CASE BootstrapCharacterAnchor(b)
  <2>1. pc[b] = "start" /\ UNCHANGED <<identity, history, rowLock, assets, redelivered>>
    BY <1>3 DEF BootstrapCharacterAnchor
  <2>2. b \notin DOMAIN assets
    BY <1>1, <2>1 DEF Booting
  <2>3. CASE \E s \in {"failed", "done"} : Goto(b, s) /\ UNCHANGED loc
    <3>1. PICK s \in {"failed", "done"} : Goto(b, s) /\ UNCHANGED loc
      BY <2>3
    <3>2. Acts(b, s, loc[b]) /\ s \in Places
      BY <1>1, <3>1, ActsGoto DEF Places
    <3> QED BY <1>1, <2>1, <2>2, <3>1, <3>2, BootQuiet DEF Booting
  <2>4. CASE (\E x \in Picture : loc' = [loc EXCEPT ![b].picture = x]) /\ Goto(b, "lookup")
    <3>1. PICK x \in Picture : loc' = [loc EXCEPT ![b].picture = x]
      BY <2>4
    <3> DEFINE l == [loc[b] EXCEPT !.picture = x]
    <3>2. l \in LocType /\ loc' = [loc EXCEPT ![b] = l] /\ l.conditioned = loc[b].conditioned
      BY <1>1, <3>1 DEF LocType, AnyLook
    <3> HIDE DEF l
    <3>3. Acts(b, "lookup", l) /\ "lookup" \in Places
      BY <1>1, <2>4, <3>2, ActsHow DEF Places
    <3> QED BY <1>1, <2>1, <2>2, <3>2, <3>3, BootQuiet DEF Booting
  <2>5. ASSUME Exists, NEW d \in Texts
        PROVE  [text |-> d, style |-> StyleProfile[identity.look]] \in Picture
    BY <2>5, LookExists, IdentityAssumption DEF Picture
  <2> QED
    <3>1. CASE /\ Exists
               /\ \E d \in Texts :
                     loc' = [loc EXCEPT ![b].picture =
                               [text |-> d, style |-> StyleProfile[identity.look]]]
               /\ Goto(b, "lookup")
      BY <2>4, <2>5, <3>1
    <3> QED BY <1>3, <2>3, <3>1 DEF BootstrapCharacterAnchor
<1>4. CASE BootstrapReuse(b)
  <2>1. pc[b] = "lookup" /\ UNCHANGED <<identity, history, rowLock, assets, redelivered>>
    BY <1>4 DEF BootstrapReuse
  <2>2. b \notin DOMAIN assets
    BY <1>1, <2>1 DEF Booting
  <2>3. CASE Goto(b, "queued") /\ UNCHANGED loc
    <3>1. Acts(b, "queued", loc[b]) /\ "queued" \in Places
      BY <1>1, <2>3, ActsGoto DEF Places
    <3> QED BY <1>1, <2>1, <2>2, <3>1, BootQuiet DEF Booting
  <2>4. CASE \E a \in DOMAIN assets : loc' = [loc EXCEPT ![b].asset = a] /\ Goto(b, "set")
    <3>1. PICK a \in DOMAIN assets : loc' = [loc EXCEPT ![b].asset = a] /\ Goto(b, "set")
      BY <2>4
    <3>2. a \in AssetIds
      BY <1>1, <3>1 DEF Shape
    <3> DEFINE l == [loc[b] EXCEPT !.asset = a]
    <3>3. /\ l \in LocType /\ loc' = [loc EXCEPT ![b] = l] /\ l.asset = a
          /\ l.conditioned = loc[b].conditioned
      BY <1>1, <3>1, <3>2 DEF LocType
    <3> HIDE DEF l
    <3>4. Acts(b, "set", l) /\ "set" \in Places
      BY <1>1, <3>1, <3>3, ActsHow DEF Places
    <3> QED BY <1>1, <2>1, <2>2, <3>2, <3>3, <3>4, BootQuiet DEF Booting
  <2> QED BY <1>4, <2>3, <2>4 DEF BootstrapReuse, ReadyByHash
<1>5. CASE BootstrapSet(b)
  <2>1. /\ pc[b] = "set" /\ UNCHANGED <<history, rowLock, assets, redelivered>>
        /\ SetAnchorAssets(<<loc[b].asset>>) /\ Return(b, "done")
    BY <1>5 DEF BootstrapSet
  <2>2. b \notin DOMAIN assets /\ loc[b].asset \in AssetIds
    BY <1>1, <2>1 DEF Booting
  <2>3. <<loc[b].asset>> \in AnchorSets
    BY <2>2 DEF AnchorSets
  <2>4. Acts(b, "done", Blank) /\ "done" \in Places
    BY <1>1, <2>1, ActsReturn DEF Places
  <2> QED BY <1>1, <1>2, <2>1, <2>2, <2>3, <2>4, BootQuiet
<1>6. CASE BootstrapRender(b)
  <2>1. pc[b] = "queued" /\ UNCHANGED <<identity, history, rowLock, redelivered>>
    BY <1>6 DEF BootstrapRender
  <2>2. b \notin DOMAIN assets
    BY <1>1, <2>1 DEF Booting
  <2>3. CASE Return(b, "failed") /\ UNCHANGED assets
    <3>1. Acts(b, "failed", Blank) /\ "failed" \in Places
      BY <1>1, <2>3, ActsReturn DEF Places
    <3> QED BY <1>1, <1>2, <2>1, <2>2, <2>3, <3>1, BootQuiet
  <2>4. CASE /\ Published(b, Rendered(ArtifactRenderHash(loc[b].picture), loc[b]))
             /\ Return(b, "attach")
    <3> DEFINE r == Rendered(ArtifactRenderHash(loc[b].picture), loc[b])
    <3>1. Acts(b, "attach", Blank) /\ "attach" \in Places
      BY <1>1, <2>4, ActsReturn DEF Places
    <3>2. ArtifactRenderHash(loc[b].picture) \in Hashes
      BY <1>1 DEF Hashes, LocType
    <3>3. /\ r \in RowType /\ r.hash = ArtifactRenderHash(loc[b].picture)
          /\ r.conditioned = loc[b].conditioned
      BY <1>1, <3>2 DEF Rendered, RowType, LocType
    <3>4. \A k, t, i : r.hash # GenerationRenderHash(k, t, i)
      BY <3>3 DEF ArtifactRenderHash, GenerationRenderHash
    <3>5. Published(b, r)
      BY <2>4
    <3> HIDE DEF r
    <3>6. Booting(b)'
      BY <1>2, <3>1 DEF Booting, Acts
    <3>7. ~r.conditioned
      BY <1>1, <3>3 DEF Booting
    <3> QED BY <1>1, <2>1, <2>2, <3>1, <3>3, <3>4, <3>5, <3>6, <3>7, PublishKeeps
  <2> QED BY <1>6, <2>3, <2>4 DEF BootstrapRender
<1>7. CASE attachGeneratedIdentityAnchor(b)
  <2>1. /\ Goto(b, "completed") /\ UNCHANGED <<history, rowLock, assets, loc, redelivered>>
        /\ SetAnchorAssets(<<b>>) \/ UNCHANGED identity
    BY <1>7 DEF attachGeneratedIdentityAnchor
  <2>2. <<b>> \in AnchorSets
    BY <1>1 DEF AnchorSets
  <2>3. Acts(b, "completed", loc[b]) /\ "completed" \in Places
    BY <1>1, <2>1, ActsGoto DEF Places
  <2> QED BY <1>1, <2>1, <2>2, <2>3, BootQuiet DEF Booting
<1>8. CASE RedeliverCompleted(b)
  <2>1. /\ Goto(b, "attach") /\ UNCHANGED <<identity, history, rowLock, assets, loc>>
        /\ redelivered < MaxRedeliveries /\ redelivered' = redelivered + 1
    BY <1>8 DEF RedeliverCompleted
  <2>2. redelivered' \in 0..MaxRedeliveries
    BY <1>1, <2>1, IdentityAssumption
  <2>3. Acts(b, "attach", loc[b]) /\ "attach" \in Places
    BY <1>1, <2>1, ActsGoto DEF Places
  <2> QED BY <1>1, <2>1, <2>2, <2>3, BootQuiet DEF Booting
<1> QED BY <1>3, <1>4, <1>5, <1>6, <1>7, <1>8

-----------------------------------------------------------------------------
(* Generations *)

\* A generation's step that publishes nothing.
LEMMA GenerationQuiet ==
  ASSUME RendersInv, NEW g \in Generations, pc[g] # "served",
         NEW s \in Places, NEW l \in LocType, Acts(g, s, l),
         s = "render" /\ l.conditioned => l.refs # <<>>,
         s = "served" =>
             /\ l.asset \in DOMAIN assets /\ assets[l.asset].picture = l.picture
             /\ l.intent = "commit" => assets[l.asset].intent = "commit",
         UNCHANGED <<identity, history, rowLock, assets, redelivered>>
  PROVE  RendersInv'
<1>1. g \in Requests /\ g \notin Upserts /\ g \notin Bootstraps /\ Shape /\ Serving(g)
  BY Kinds DEF RendersInv
<1>2. identity' \in IdentityType
      /\ redelivered' \in 0..MaxRedeliveries
  BY <1>1 DEF Shape
<1>3. Serving(g)'
  BY <1>1 DEF Serving, Acts
<1> QED BY <1>1, <1>2, <1>3, Calm

\* Reading the identity.
LEMMA GenerationReadKeeps ==
  ASSUME RendersInv, NEW g \in Generations, GenerationRead(g)
  PROVE  RendersInv'
<1>1. pc[g] = "start" /\ UNCHANGED <<identity, history, rowLock, assets, redelivered>>
  BY DEF GenerationRead
<1>2. Shape /\ g \in Requests /\ loc[g] \in LocType
  BY Kinds DEF RendersInv, Shape
<1>3. CASE Goto(g, "failed") /\ UNCHANGED loc
  <2>1. Acts(g, "failed", loc[g]) /\ "failed" \in Places
    BY <1>2, <1>3, ActsGoto DEF Places
  <2> QED BY <1>1, <1>2, <2>1, GenerationQuiet
<1>4. CASE /\ Exists
           /\ \E i \in Intents :
                 loc' = [loc EXCEPT ![g].picture = identityPrompt(identity.look, identity.name), ![g].anchors = identity.anchors,
                                    ![g].intent = i]
           /\ Goto(g, "lookup")
  <2>1. PICK i \in Intents :
          loc' = [loc EXCEPT ![g].picture = identityPrompt(identity.look, identity.name), ![g].anchors = identity.anchors,
                             ![g].intent = i]
    BY <1>4
  <2> DEFINE x == identityPrompt(identity.look, identity.name)
             l == [loc[g] EXCEPT !.picture = x, !.anchors = identity.anchors,
                                 !.intent = i]
  <2>2. x \in Picture /\ identity.anchors \in AnchorSets /\ i \in AnyIntent
    <3>1. identity.anchors \in AnchorSets /\ identity.name \in Texts \cup {NoText} /\ i \in AnyIntent
      BY <1>2, IdentityAssumption DEF Shape, IdentityType, AnyIntent
    <3>2. Appearance[identity.look] \in Texts \cup {NoText} /\ StyleProfile[identity.look] \in Styles
      BY <1>4, LookExists, IdentityAssumption
    <3> QED BY <3>1, <3>2 DEF identityPrompt, Picture
  <2>3. l \in LocType
    BY <1>2, <2>2 DEF LocType
  <2>4. loc' = [loc EXCEPT ![g] = l]
    BY <1>2, <2>1 DEF Shape
  <2> HIDE DEF l
  <2>5. Acts(g, "lookup", l) /\ "lookup" \in Places
    BY <1>2, <1>4, <2>3, <2>4, ActsHow DEF Places
  <2> QED BY <1>1, <2>3, <2>5, GenerationQuiet
<1> QED BY <1>3, <1>4 DEF GenerationRead

\* The two lookups: a row found by a key the request may use is eligible.
LEMMA LookupKeeps ==
  ASSUME RendersInv, NEW g \in Generations, pc[g] \in {"lookup", "lookup_commit"},
         UNCHANGED <<identity, history, rowLock, assets, redelivered>>,
         NEW i, i = "commit" \/ i = loc[g].intent,
         \/ \E a \in ReadyByHash(KeyFor(g, i)) : respondCacheHit(g, a)
         \/ Goto(g, "lookup_commit") /\ UNCHANGED loc
         \/ Missed(g)
  PROVE  RendersInv'
<1>1. Shape /\ g \in Requests /\ loc[g] \in LocType
  BY Kinds DEF RendersInv, Shape
<1>2. CASE \E a \in ReadyByHash(KeyFor(g, i)) : respondCacheHit(g, a)
  <2>1. PICK a \in ReadyByHash(KeyFor(g, i)) : respondCacheHit(g, a)
    BY <1>2
  <2>2. a \in DOMAIN assets /\ assets[a].hash = KeyFor(g, i) /\ a \in AssetIds
    BY <1>1, <2>1 DEF ReadyByHash, Shape
  <2>3. assets[a].picture = loc[g].picture /\ assets[a].intent = i
    <3>1. Honest(a)
      BY <2>2 DEF RendersInv
    <3> QED BY <2>2, <3>1 DEF Honest, KeyFor
  <2> DEFINE l == [loc[g] EXCEPT !.asset = a]
  <2>4. /\ l \in LocType /\ l.asset = a /\ l.picture = loc[g].picture /\ l.intent = loc[g].intent
        /\ loc' = [loc EXCEPT ![g] = l] /\ Goto(g, "served")
    BY <1>1, <2>1, <2>2 DEF LocType, respondCacheHit
  <2> HIDE DEF l
  <2>5. Acts(g, "served", l) /\ "served" \in Places
    BY <1>1, <2>4, ActsHow DEF Places
  <2> QED BY <2>2, <2>3, <2>4, <2>5, GenerationQuiet
<1>3. CASE Goto(g, "lookup_commit") /\ UNCHANGED loc
  <2>1. Acts(g, "lookup_commit", loc[g]) /\ "lookup_commit" \in Places
    BY <1>1, <1>3, ActsGoto DEF Places
  <2> QED BY <1>1, <2>1, GenerationQuiet
<1>4. CASE Missed(g)
  <2>1. PICK c \in BOOLEAN : loc' = [loc EXCEPT ![g].conditioned = c]
    BY <1>4 DEF Missed
  <2> DEFINE l == [loc[g] EXCEPT !.conditioned = c]
  <2>2. l \in LocType /\ loc' = [loc EXCEPT ![g] = l] /\ Goto(g, "queued")
    BY <1>1, <1>4, <2>1 DEF LocType, Missed
  <2> HIDE DEF l
  <2>3. Acts(g, "queued", l) /\ "queued" \in Places
    BY <1>1, <2>2, ActsHow DEF Places
  <2> QED BY <2>2, <2>3, GenerationQuiet
<1> QED BY <1>2, <1>3, <1>4

\* The worker's references: none without a conditioned route, some with one.
LEMMA ReferencesKeep ==
  ASSUME RendersInv, NEW g \in Generations, singleImageReferences(g)
  PROVE  RendersInv'
<1>1. pc[g] = "queued" /\ UNCHANGED <<identity, history, rowLock, assets, redelivered>>
  BY DEF singleImageReferences
<1>2. Shape /\ g \in Requests /\ loc[g] \in LocType
  BY Kinds DEF RendersInv, Shape
<1>3. CASE ~loc[g].conditioned /\ Goto(g, "render") /\ UNCHANGED loc
  <2>1. Acts(g, "render", loc[g]) /\ "render" \in Places
    BY <1>2, <1>3, ActsGoto DEF Places
  <2> QED BY <1>1, <1>2, <1>3, <2>1, GenerationQuiet
<1>4. CASE Return(g, "failed")
  <2>1. Acts(g, "failed", Blank) /\ "failed" \in Places /\ Blank \in LocType
    BY <1>2, <1>4, ActsReturn DEF Places
  <2> QED BY <1>1, <2>1, GenerationQuiet
<1>5. CASE /\ identity.anchors # <<>> /\ Goto(g, "render")
           /\ loc' = [loc EXCEPT ![g].refs = identity.anchors]
  <2> DEFINE l == [loc[g] EXCEPT !.refs = identity.anchors]
  <2>1. identity.anchors \in AnchorSets
    BY <1>2 DEF Shape, IdentityType
  <2>2. l \in LocType /\ l.refs # <<>>
    BY <1>2, <1>5, <2>1 DEF LocType
  <2>3. loc' = [loc EXCEPT ![g] = l]
    BY <1>2, <1>5 DEF Shape
  <2> HIDE DEF l
  <2>4. Acts(g, "render", l) /\ "render" \in Places
    BY <1>2, <1>5, <2>2, <2>3, ActsHow DEF Places
  <2> QED BY <1>1, <2>2, <2>4, GenerationQuiet
<1> QED BY <1>3, <1>4, <1>5 DEF singleImageReferences

\* The render is published under the request's key, tried again, or given up.
LEMMA GenerationRenderKeeps ==
  ASSUME RendersInv, NEW g \in Generations, GenerationRender(g)
  PROVE  RendersInv'
<1>1. pc[g] = "render" /\ UNCHANGED <<identity, history, rowLock, redelivered>>
  BY DEF GenerationRender
<1>2. Shape /\ g \in Requests /\ loc[g] \in LocType /\ Serving(g) /\ g \in AssetIds
  BY Kinds DEF RendersInv, Shape, AssetIds
<1>3. CASE /\ Published(g, Rendered(KeyFor(g, loc[g].intent), loc[g]))
           /\ loc' = [loc EXCEPT ![g].asset = g] /\ Goto(g, "served")
  <2> DEFINE r == Rendered(KeyFor(g, loc[g].intent), loc[g])
             l == [loc[g] EXCEPT !.asset = g]
  <2>1. /\ l \in LocType /\ l.asset = g /\ l.picture = loc[g].picture /\ l.intent = loc[g].intent
        /\ loc' = [loc EXCEPT ![g] = l]
    BY <1>2, <1>3 DEF LocType
  <2>2. KeyFor(g, loc[g].intent) \in Hashes
    BY <1>2 DEF Hashes, KeyFor, LocType
  <2>3. /\ r \in RowType /\ r.hash = KeyFor(g, loc[g].intent) /\ r.picture = loc[g].picture
        /\ r.intent = loc[g].intent /\ r.conditioned = loc[g].conditioned
        /\ r.refs = loc[g].refs
    BY <1>2, <2>2 DEF Rendered, RowType, LocType
  <2>4. Published(g, r)
    BY <1>3
  <2> HIDE DEF r, l
  <2>5. Acts(g, "served", l)
    BY <1>2, <1>3, <2>1, ActsHow DEF Places
  <2>6. \A x, t, i : r.hash = GenerationRenderHash(x, t, i) => r.picture = x /\ r.intent = i
    BY <2>3 DEF KeyFor, GenerationRenderHash
  <2>7. r.conditioned => r.refs # <<>>
    BY <1>1, <1>2, <2>3 DEF Serving
  <2>8. g \notin DOMAIN assets
    BY <1>1, <1>2 DEF Serving
  <2>9. g \in DOMAIN assets' /\ assets'[g] = r
    BY <2>4 DEF Published
  <2>10. Serving(g)'
    BY <2>1, <2>3, <2>5, <2>9 DEF Serving, Acts
  <2>11. g \notin Bootstraps
    BY Kinds
  <2> QED BY <1>1, <2>3, <2>4, <2>5, <2>6, <2>7, <2>8, <2>10, <2>11, PublishKeeps
<1>4. CASE Goto(g, "queued") /\ loc' = [loc EXCEPT ![g].refs = <<>>] /\ UNCHANGED assets
  <2> DEFINE l == [loc[g] EXCEPT !.refs = <<>>]
  <2>1. <<>> \in AnchorSets
    BY DEF AnchorSets
  <2>2. l \in LocType /\ loc' = [loc EXCEPT ![g] = l]
    BY <1>2, <1>4, <2>1 DEF LocType
  <2> HIDE DEF l
  <2>3. Acts(g, "queued", l) /\ "queued" \in Places
    BY <1>2, <1>4, <2>2, ActsHow DEF Places
  <2> QED BY <1>1, <1>4, <2>2, <2>3, GenerationQuiet
<1>5. CASE Return(g, "failed") /\ UNCHANGED assets
  <2>1. Acts(g, "failed", Blank) /\ "failed" \in Places /\ Blank \in LocType
    BY <1>2, <1>5, ActsReturn DEF Places
  <2> QED BY <1>1, <1>5, <2>1, GenerationQuiet
<1> QED BY <1>3, <1>4, <1>5 DEF GenerationRender

-----------------------------------------------------------------------------
(* The invariant of the specification *)

\* Both initial states satisfy it: no identity, or a bootstrapped one whose
\* render could not be attached.
LEMMA RendersInit ==
  ASSUME Init
  PROVE  RendersInv
<1>1. /\ rowLock = Free /\ pc = [p \in Requests |-> "start"]
      /\ loc = [p \in Requests |-> Blank] /\ redelivered = 0
  BY DEF Init, Stored
<1>2. /\ Blank \in LocType /\ ~Blank.conditioned /\ <<>> \in AnchorSets
      /\ Blank.refs = <<>> /\ Blank.intent = "none"
  BY DEF Blank, LocType, Unread, NoPicture, Picture, AnyLook, AnyIntent, AnchorSets, NoAsset
<1>3. ASSUME NEW r \in RowType, assets = [a \in Uploads |-> r], ~r.conditioned,
             \A k, s, i : r.hash # GenerationRenderHash(k, s, i),
             identity \in IdentityType,
             identity.version = Len(history), history \in Seq(Looks), Len(history) \in 0..1,
             Exists => history[identity.version] = identity.look
      PROVE  RendersInv
  <2>1. DOMAIN assets = Uploads /\ \A a \in Uploads : assets[a] = r
    BY <1>3
  <2>2. Uploads \subseteq AssetIds
    BY DEF AssetIds
  <2>3. Shape
    BY <1>1, <1>2, <1>3, <2>1, <2>2, IdentityAssumption DEF Shape, Places
  <2>4. VersionsRecordChanges
    BY <1>3 DEF VersionsRecordChanges
  <2>5. \A p \in Requests : pc[p] = "start" /\ loc[p] = Blank
    BY <1>1
  <2>6. \A u \in Upserts : Holding(u)
    BY <2>5, Kinds DEF Holding
  <2>7. \A b \in Bootstraps : Booting(b)
    BY <1>2, <2>1, <2>5, Kinds DEF Booting
  <2>8. \A g \in Generations : Serving(g)
    BY <2>1, <2>5, Kinds DEF Serving
  <2>9. \A a \in DOMAIN assets : Honest(a)
    BY <1>3, <2>1 DEF Honest
  <2> QED BY <2>3, <2>4, <2>6, <2>7, <2>8, <2>9 DEF RendersInv
<1>4. CASE identity = Absent /\ history = <<>> /\ assets = [a \in Uploads |-> Uploaded]
  <2>1. Uploaded \in RowType
    BY <1>2 DEF Uploaded, RowType, Hashes, NoPicture, Picture, AnyIntent
  <2>2. ~Uploaded.conditioned /\ \A k, s, i : Uploaded.hash # GenerationRenderHash(k, s, i)
    BY DEF Uploaded, GenerationRenderHash
  <2>3. /\ identity \in IdentityType
        /\ identity.version = 0 /\ history \in Seq(Looks) /\ Len(history) = 0
    BY <1>2, <1>4 DEF Absent, AnyLook, IdentityType
  <2>4. ~Exists
    BY <2>3 DEF Exists
  <2> QED BY <1>3, <1>4, <2>1, <2>2, <2>3, <2>4
<1>5. ASSUME NEW k \in Looks, NEW n \in Names, NEW x \in Picture,
             identity = [look |-> k, name |-> n, version |-> 1, anchors |-> <<>>],
             history = <<k>>,
             assets = [a \in Uploads |->
                          Rendered(ArtifactRenderHash(x), [Blank EXCEPT !.picture = x])]
      PROVE  RendersInv
  <2> DEFINE l == [Blank EXCEPT !.picture = x]
             r == Rendered(ArtifactRenderHash(x), l)
  <2>1. l \in LocType /\ l.picture = x /\ ~l.conditioned
    BY <1>2, <1>5 DEF LocType
  <2>2. assets = [a \in Uploads |-> r]
    BY <1>5
  <2> HIDE DEF l
  <2>3. ArtifactRenderHash(x) \in Hashes
    BY <1>5 DEF Hashes
  <2>4. r \in RowType /\ r.hash = ArtifactRenderHash(x) /\ ~r.conditioned
    BY <2>1, <2>3 DEF Rendered, RowType, LocType
  <2> HIDE DEF r
  <2>5. \A j, s, i : r.hash # GenerationRenderHash(j, s, i)
    BY <2>4 DEF ArtifactRenderHash, GenerationRenderHash
  <2>6. /\ identity \in IdentityType
        /\ identity.version = 1 /\ identity.look = k
        /\ history \in Seq(Looks) /\ Len(history) = 1 /\ history[1] = k
    BY <1>2, <1>5 DEF AnyLook, IdentityType
  <2> QED BY <1>3, <2>2, <2>4, <2>5, <2>6
<1>6. ASSUME NEW k \in Looks, NEW d \in Texts
      PROVE  [text |-> d, style |-> StyleProfile[k]] \in Picture
  BY IdentityAssumption DEF Picture
<1> QED BY <1>4, <1>5, <1>6 DEF Init, Stored

\* Every action keeps it.
LEMMA RendersStep ==
  ASSUME RendersInv, [Next]_vars
  PROVE  RendersInv'
<1>1. CASE UNCHANGED vars
  BY <1>1 DEF vars, RendersInv, Shape, VersionsRecordChanges, Exists, Holding, Booting,
     Serving, Honest
<1>2. CASE \E u \in Upserts : Upsert(u)
  BY <1>2, UpsertReadKeeps, UpsertInsertKeeps, UpsertUpdateKeeps DEF Upsert
<1>3. CASE \E a \in Attaches : AttachAnchors(a) \/ AttachSet(a)
  BY <1>3, AttachKeeps
<1>4. CASE \E a \in Uploads : ArchivePriorReadyArtifactSlot(a)
  BY <1>4, ArchiveKeeps
<1>5. CASE \E b \in Bootstraps :
          \/ BootstrapCharacterAnchor(b) \/ BootstrapReuse(b) \/ BootstrapSet(b)
          \/ BootstrapRender(b) \/ attachGeneratedIdentityAnchor(b) \/ RedeliverCompleted(b)
  BY <1>5, BootstrapKeeps
<1>6. ASSUME NEW g \in Generations,
             \/ GenerationRead(g) \/ GenerationLookup(g) \/ GenerationLookupCommit(g)
             \/ singleImageReferences(g) \/ GenerationRender(g)
      PROVE  RendersInv'
  <2>1. CASE GenerationRead(g)
    BY <2>1, GenerationReadKeeps
  <2>2. CASE GenerationLookup(g)
    <3>1. PICK i : i = loc[g].intent
      OBVIOUS
    <3>2. /\ pc[g] = "lookup" /\ UNCHANGED <<identity, history, rowLock, assets, redelivered>>
          /\ \/ \E a \in ReadyByHash(KeyFor(g, i)) : respondCacheHit(g, a)
             \/ Goto(g, "lookup_commit") /\ UNCHANGED loc
             \/ Missed(g)
      BY <2>2, <3>1 DEF GenerationLookup
    <3> QED BY <3>1, <3>2, LookupKeeps
  <2>3. CASE GenerationLookupCommit(g)
    <3>1. /\ pc[g] = "lookup_commit"
          /\ UNCHANGED <<identity, history, rowLock, assets, redelivered>>
          /\ \/ \E a \in ReadyByHash(KeyFor(g, "commit")) : respondCacheHit(g, a)
             \/ Missed(g)
      BY <2>3 DEF GenerationLookupCommit
    <3> QED BY <3>1, LookupKeeps
  <2>4. CASE singleImageReferences(g)
    BY <2>4, ReferencesKeep
  <2>5. CASE GenerationRender(g)
    BY <2>5, GenerationRenderKeeps
  <2> QED BY <1>6, <2>1, <2>2, <2>3, <2>4, <2>5
<1> QED BY <1>1, <1>2, <1>3, <1>4, <1>5, <1>6 DEF Next

\* The inductive invariant holds in every reachable state.
THEOREM RendersInvariant == Spec => []RendersInv
<1>1. Init => RendersInv
  BY RendersInit
<1>2. RendersInv /\ [Next]_vars => RendersInv'
  BY RendersStep
<1> QED BY <1>1, <1>2, PTL DEF Spec

\* The identity row, its history, the asset rows and the requests keep their
\* types; the row's version is the number of its versions.
THEOREM TypeCorrect == Spec => []TypeOK
<1>1. ASSUME RendersInv
      PROVE  TypeOK
  <2>1. Shape
    BY <1>1 DEF RendersInv
  <2>2. \A a \in DOMAIN assets : /\ assets[a].status \in {"ready", "archived"}
                                 /\ assets[a].refs \in AnchorSets
    BY <2>1 DEF Shape, RowType
  <2>3. \A p \in Requests :
           /\ loc[p].asked \in [look : Looks, name : Names] \cup {Unread}
           /\ loc[p].seen \in Looks \cup {"none"} /\ loc[p].picture \in Picture
           /\ {loc[p].anchors, loc[p].refs} \subseteq AnchorSets
    BY <2>1 DEF Shape, LocType, AnyLook, Asked
  <2> QED BY <2>1, <2>2, <2>3 DEF Shape, IdentityType, TypeOK, Places, AnyLook
<1> QED BY <1>1, RendersInvariant, PTL

\* Concurrent upserts of the same traits bump the version once: Upsert compares
\* under the lock of GetVisualIdentityByOwnerForUpdate.
THEOREM VersionsRecordChangesHolds == Spec => []VersionsRecordChanges
<1>1. RendersInv => VersionsRecordChanges
  BY DEF RendersInv
<1> QED BY <1>1, RendersInvariant, PTL

\* A generation is served a render of the text and style of the identity it
\* read, and a commit never a draft, for any looks, appearances and styles and
\* any number of requests, upserts and retries.
THEOREM ServedRenderEligibleHolds == Spec => []ServedRenderEligible
<1>1. RendersInv => ServedRenderEligible
  BY DEF RendersInv, Serving, ServedRenderEligible
<1> QED BY <1>1, RendersInvariant, PTL

\* A conditioned render was made from references (singleImageReferences fails
\* closed), whenever the anchors came or went.
THEOREM ConditionedFailsClosedHolds == Spec => []ConditionedFailsClosed
<1>1. RendersInv => ConditionedFailsClosed
  BY DEF RendersInv, Honest, ConditionedFailsClosed
<1> QED BY <1>1, RendersInvariant, PTL
=============================================================================
