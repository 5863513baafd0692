-------------------------- MODULE IdentityRenders --------------------------
(***************************************************************************)
(* One visual identity, its version history and its anchors (the reference *)
(* images of the recurring character), and the requests that read them:    *)
(* the upsert, the anchor endpoints, the bootstrap that renders a first    *)
(* anchor, and /v1/generations, which reuses a render by its hash or has   *)
(* the worker make one.  A handler's reads and writes are transactions of  *)
(* their own; the worker reads the identity again when the job runs.       *)
(***************************************************************************)
EXTENDS Integers, Sequences, SequencesExt

CONSTANTS
    Looks,        \* what an upsert compares: the canonical traits, the style
                  \* profile and the consistency key
    Names,        \* display names
    Texts,        \* texts a provider is asked to draw, normalized
    Styles,       \* style profiles
    Appearance,   \* the appearance trait of a look, NoText when it has none
    StyleProfile, \* the style profile of a look
    Uploads,      \* assets that are ready at the start
    Upserts, Attaches, Bootstraps, Generations,   \* the requests
    MaxRedeliveries   \* bound on redeliveries of a completed bootstrap job

NoText == "none"

ASSUME IdentityAssumption ==
    /\ MaxRedeliveries \in Nat
    /\ NoText \notin Looks \cup Texts /\ "free" \notin Upserts
    /\ Names \subseteq Texts /\ Appearance \in [Looks -> Texts \cup {NoText}]
    /\ StyleProfile \in [Looks -> Styles]
    /\ Upserts \cap (Attaches \cup Bootstraps \cup Generations) = {}
    /\ Attaches \cap (Bootstraps \cup Generations) = {}
    /\ Bootstraps \cap Generations = {} /\ Uploads \cap (Bootstraps \cup Generations) = {}

VARIABLES
    identity,     \* the visual_identities row; version 0: no row
    history,      \* its visual_identity_versions rows, by version
    rowLock,      \* the upsert that holds the row FOR UPDATE
    assets,       \* visual_assets rows by id (a job's output has the request's name)
    pc, loc,      \* where each request and its job stand, and what it read
    redelivered

vars == <<identity, history, rowLock, assets, pc, loc, redelivered>>

Requests == Upserts \cup Attaches \cup Bootstraps \cup Generations
AssetIds == Uploads \cup Bootstraps \cup Generations
Free == "free"
NoAsset == "none"
Intents == {"draft", "commit"}
AnchorSets == {<<>>} \cup SetToSeqs(Uploads) \cup {<<a>> : a \in AssetIds}
Absent == [look |-> "none", name |-> NoText, version |-> 0, anchors |-> <<>>]
Exists == identity.version > 0
Unread == [look |-> "none", name |-> NoText]
Picture == [text : Texts \cup {NoText}, style : Styles \cup {NoText}]
NoPicture == [text |-> NoText, style |-> NoText]
Blank == [asked |-> Unread, seen |-> "none", picture |-> NoPicture, anchors |-> <<>>,
          intent |-> "none", conditioned |-> FALSE, refs |-> <<>>, asset |-> NoAsset]

\* What a generation draws: the appearance trait, for an identity without one
\* its display name, in its style.  Many looks draw the same picture.
identityPrompt(look, name) ==
    [text |-> IF Appearance[look] # NoText THEN Appearance[look] ELSE name,
     style |-> StyleProfile[look]]

\* The reuse keys.  Injective in their fields: every field is labelled.
GenerationRenderHash(picture, anchors, intent) == <<"generation", picture, anchors, intent>>
ArtifactRenderHash(picture) == <<"bootstrap_anchor", picture>>

Uploaded == [hash |-> <<"upload">>, picture |-> NoPicture, refs |-> <<>>, intent |-> "none",
             conditioned |-> FALSE, status |-> "ready"]
Rendered(hash, l) == [hash |-> hash, picture |-> l.picture, refs |-> l.refs, intent |-> l.intent,
                      conditioned |-> l.conditioned, status |-> "ready"]
Published(id, row) == assets' = [a \in DOMAIN assets \cup {id} |-> IF a = id THEN row ELSE assets[a]]
ReadyByHash(hash) == {a \in DOMAIN assets : assets[a].hash = hash /\ assets[a].status = "ready"}

TypeOK ==
    /\ identity.look \in Looks \cup {"none"} /\ identity.name \in Names \cup {NoText}
    /\ identity.anchors \in AnchorSets
    /\ identity.version = Len(history)
    /\ history \in Seq(Looks)
    /\ rowLock \in Upserts \cup {Free}
    /\ Uploads \subseteq DOMAIN assets /\ DOMAIN assets \subseteq AssetIds
    /\ \A a \in DOMAIN assets :
          /\ assets[a].status \in {"ready", "archived"}
          /\ assets[a].refs \in AnchorSets
    /\ pc \in [Requests -> {"start", "insert", "update", "set", "lookup", "lookup_commit",
                            "queued", "render", "attach", "completed", "served", "done", "failed"}]
    /\ \A p \in Requests :
          /\ loc[p].asked \in [look : Looks, name : Names] \cup {Unread}
          /\ loc[p].seen \in Looks \cup {"none"} /\ loc[p].picture \in Picture
          /\ {loc[p].anchors, loc[p].refs} \subseteq AnchorSets
    /\ redelivered \in 0..MaxRedeliveries

\* No identity yet; or one that was upserted and bootstrapped before, whose
\* render is ready and could not be attached (the attach is best effort).
Stored ==
    /\ \/ /\ identity = Absent /\ history = <<>>
          /\ assets = [a \in Uploads |-> Uploaded]
       \/ \E k \in Looks, n \in Names : \E d \in Texts :
             LET drawn == [text |-> d, style |-> StyleProfile[k]] IN
             /\ identity = [look |-> k, name |-> n, version |-> 1, anchors |-> <<>>]
             /\ history = <<k>>
             /\ assets = [a \in Uploads |->
                            Rendered(ArtifactRenderHash(drawn), [Blank EXCEPT !.picture = drawn])]
    /\ rowLock = Free
    /\ loc = [p \in Requests |-> Blank]
    /\ redelivered = 0

Init == Stored /\ pc = [p \in Requests |-> "start"]

Goto(p, s) == pc' = [pc EXCEPT ![p] = s]
\* The request is over: what it read dies with it.
Return(p, s) == Goto(p, s) /\ loc' = [loc EXCEPT ![p] = Blank]

-----------------------------------------------------------------------------
(* Upsert: one transaction *)

\* Mutation: GetVisualIdentityByOwner instead of its FOR UPDATE twin.
UpsertWithoutLock(u) ==
    /\ u \in Upserts /\ pc[u] = "start"
    /\ \E k \in Looks, n \in Names :
          loc' = [loc EXCEPT ![u].asked = [look |-> k, name |-> n], ![u].seen = identity.look]
    /\ Goto(u, IF Exists THEN "update" ELSE "insert")
    /\ UNCHANGED <<identity, history, rowLock, assets, redelivered>>

\* SELECT ... FOR UPDATE waits for the row's holder; no row, nothing to hold.
UpsertRead(u) ==
    /\ u \in Upserts /\ pc[u] = "start"
    /\ rowLock = Free
    /\ \E k \in Looks, n \in Names :
          loc' = [loc EXCEPT ![u].asked = [look |-> k, name |-> n], ![u].seen = identity.look]
    /\ \/ ~Exists /\ Goto(u, "insert") /\ UNCHANGED rowLock
       \/ Exists /\ Goto(u, "update") /\ rowLock' = u
    /\ UNCHANGED <<identity, history, assets, redelivered>>

\* The unique index on the owner turns the second of two first upserts away.
UpsertInsert(u) ==
    /\ u \in Upserts /\ pc[u] = "insert"
    /\ \/ /\ ~Exists
          /\ identity' = [look |-> loc[u].asked.look, name |-> loc[u].asked.name,
                           version |-> 1, anchors |-> <<>>]
          /\ history' = <<loc[u].asked.look>>
          /\ Return(u, "done")
       \/ /\ Exists
          /\ Return(u, "failed")
          /\ UNCHANGED <<identity, history>>
    /\ UNCHANGED <<rowLock, assets, redelivered>>

identityUnchanged(existing, look) == existing = look

\* An upsert that changes nothing it compares answers the row as it is, its
\* display name too; any other writes both, bumps the version and records it.
\* Anchors are not part of the update.
UpsertUpdate(u) ==
    /\ u \in Upserts /\ pc[u] = "update"
    /\ \/ /\ identityUnchanged(loc[u].seen, loc[u].asked.look)
          /\ UNCHANGED <<identity, history>>
       \/ /\ ~identityUnchanged(loc[u].seen, loc[u].asked.look)
          /\ identity' = [identity EXCEPT !.look = loc[u].asked.look, !.name = loc[u].asked.name,
                                          !.version = @ + 1]
          /\ history' = Append(history, loc[u].asked.look)
    /\ rowLock' = Free
    /\ Return(u, "done")
    /\ UNCHANGED <<assets, redelivered>>

Upsert(u) == UpsertRead(u) \/ UpsertInsert(u) \/ UpsertUpdate(u)

-----------------------------------------------------------------------------
(* Anchors *)

\* Replaces the set whatever it holds; waits for an upsert that holds the row.
SetAnchorAssets(ids) ==
    /\ rowLock = Free
    /\ identity' = [identity EXCEPT !.anchors = ids]

\* Reads the identity and validates every candidate: ready.
AttachAnchors(a) ==
    /\ a \in Attaches /\ pc[a] = "start"
    /\ Exists
    /\ \E ids \in AnchorSets \ {<<>>} :
          /\ ToSet(ids) \subseteq DOMAIN assets
          /\ \A i \in ToSet(ids) : assets[i].status = "ready"
          /\ loc' = [loc EXCEPT ![a].anchors = ids]
    /\ Goto(a, "set")
    /\ UNCHANGED <<identity, history, rowLock, assets, redelivered>>

AttachSet(a) ==
    /\ a \in Attaches /\ pc[a] = "set"
    /\ SetAnchorAssets(loc[a].anchors)
    /\ Return(a, "done")
    /\ UNCHANGED <<history, rowLock, assets, redelivered>>

\* A forced regeneration archives the row of an asset attached as an anchor
\* (module AssetSlots).
ArchivePriorReadyArtifactSlot(a) ==
    /\ a \in Uploads /\ assets[a].status = "ready"
    /\ assets' = [assets EXCEPT ![a].status = "archived"]
    /\ UNCHANGED <<identity, history, rowLock, pc, loc, redelivered>>

\* Draws the request's description, or the identity's own appearance, in the
\* identity's style; a name is not an appearance (422).
BootstrapCharacterAnchor(b) ==
    /\ b \in Bootstraps /\ pc[b] = "start"
    /\ \/ ~Exists /\ Goto(b, "failed") /\ UNCHANGED loc
       \/ Exists /\ identity.anchors # <<>> /\ Goto(b, "done") /\ UNCHANGED loc
       \/ /\ Exists /\ identity.anchors = <<>> /\ Appearance[identity.look] = NoText
          /\ Goto(b, "failed") /\ UNCHANGED loc
       \/ /\ Exists /\ identity.anchors = <<>>
          /\ \E d \in Texts :
                loc' = [loc EXCEPT ![b].picture =
                          [text |-> d, style |-> StyleProfile[identity.look]]]
          /\ Goto(b, "lookup")
    /\ UNCHANGED <<identity, history, rowLock, assets, redelivered>>

\* A ready render of the same description is attached at once; a miss creates
\* the job (module CreateJob).
BootstrapReuse(b) ==
    /\ b \in Bootstraps /\ pc[b] = "lookup"
    /\ LET found == ReadyByHash(ArtifactRenderHash(loc[b].picture)) IN
          \/ \E a \in found : loc' = [loc EXCEPT ![b].asset = a] /\ Goto(b, "set")
          \/ found = {} /\ Goto(b, "queued") /\ UNCHANGED loc
    /\ UNCHANGED <<identity, history, rowLock, assets, redelivered>>

BootstrapSet(b) ==
    /\ b \in Bootstraps /\ pc[b] = "set"
    /\ SetAnchorAssets(<<loc[b].asset>>)
    /\ Return(b, "done")
    /\ UNCHANGED <<history, rowLock, assets, redelivered>>

\* The bootstrap's job completes (module GenerationJob), or fails.
BootstrapRender(b) ==
    /\ b \in Bootstraps /\ pc[b] = "queued"
    /\ \/ /\ Published(b, Rendered(ArtifactRenderHash(loc[b].picture), loc[b]))
          /\ Return(b, "attach")
       \/ Return(b, "failed") /\ UNCHANGED assets
    /\ UNCHANGED <<identity, history, rowLock, redelivered>>

\* Best effort: an error is logged and the job stays completed.  A worker
\* that dies before it leaves the attach to the redelivery.
attachGeneratedIdentityAnchor(b) ==
    /\ b \in Bootstraps /\ pc[b] = "attach"
    /\ SetAnchorAssets(<<b>>) \/ UNCHANGED identity
    /\ Goto(b, "completed")
    /\ UNCHANGED <<history, rowLock, assets, loc, redelivered>>

\* A completed job delivered again attaches again before it settles its cost.
RedeliverCompleted(b) ==
    /\ b \in Bootstraps /\ pc[b] = "completed"
    /\ redelivered < MaxRedeliveries
    /\ redelivered' = redelivered + 1
    /\ Goto(b, "attach")
    /\ UNCHANGED <<identity, history, rowLock, assets, loc>>

-----------------------------------------------------------------------------
(* /v1/generations *)

\* Reads the identity once: the prompt, the style and the reuse key are of
\* this read.
GenerationRead(g) ==
    /\ g \in Generations /\ pc[g] = "start"
    /\ \/ ~Exists /\ Goto(g, "failed") /\ UNCHANGED loc
       \/ /\ Exists
          /\ \E i \in Intents :
                loc' = [loc EXCEPT ![g].picture = identityPrompt(identity.look, identity.name),
                                   ![g].anchors = identity.anchors, ![g].intent = i]
          /\ Goto(g, "lookup")
    /\ UNCHANGED <<identity, history, rowLock, assets, redelivered>>

KeyFor(g, intent) == GenerationRenderHash(loc[g].picture, loc[g].anchors, intent)

\* The chain of a created job may hold a reference-conditioned route.
Missed(g) ==
    /\ \E c \in BOOLEAN : loc' = [loc EXCEPT ![g].conditioned = c]
    /\ Goto(g, "queued")

\* A reused render completes the request's job at once.
respondCacheHit(g, a) == loc' = [loc EXCEPT ![g].asset = a] /\ Goto(g, "served")

\* Mutation: every request also tries the other intent's key.
LookupEitherIntent(g) ==
    /\ g \in Generations /\ pc[g] = "lookup"
    /\ LET found == UNION {ReadyByHash(KeyFor(g, i)) : i \in Intents} IN
          \/ \E a \in found : respondCacheHit(g, a)
          \/ found = {} /\ Missed(g)
    /\ UNCHANGED <<identity, history, rowLock, assets, redelivered>>

\* A draft tries the commit's key too, a commit only its own.
GenerationLookup(g) ==
    /\ g \in Generations /\ pc[g] = "lookup"
    /\ LET found == ReadyByHash(KeyFor(g, loc[g].intent)) IN
          \/ \E a \in found : respondCacheHit(g, a)
          \/ found = {} /\ loc[g].intent = "draft" /\ Goto(g, "lookup_commit") /\ UNCHANGED loc
          \/ found = {} /\ loc[g].intent = "commit" /\ Missed(g)
    /\ UNCHANGED <<identity, history, rowLock, assets, redelivered>>

GenerationLookupCommit(g) ==
    /\ g \in Generations /\ pc[g] = "lookup_commit"
    /\ LET found == ReadyByHash(KeyFor(g, "commit")) IN
          \/ \E a \in found : respondCacheHit(g, a)
          \/ found = {} /\ Missed(g)
    /\ UNCHANGED <<identity, history, rowLock, assets, redelivered>>

\* Every anchor the identity holds now must load as ready.
referenceURLsForIdentity == \A i \in ToSet(identity.anchors) : assets[i].status = "ready"

\* Mutation: an identity without anchors renders from the prompt alone.
RenderWithoutAnchors(g) ==
    /\ g \in Generations /\ pc[g] = "queued"
    /\ \/ ~referenceURLsForIdentity /\ Return(g, "failed")
       \/ /\ referenceURLsForIdentity
          /\ loc' = [loc EXCEPT ![g].refs = identity.anchors]
          /\ Goto(g, "render")
    /\ UNCHANGED <<identity, history, rowLock, assets, redelivered>>

\* The worker conditions on the anchors of the moment it runs, and fails
\* closed without them (missing_reference_assets, invalid_reference_asset).
singleImageReferences(g) ==
    /\ g \in Generations /\ pc[g] = "queued"
    /\ \/ ~loc[g].conditioned /\ Goto(g, "render") /\ UNCHANGED loc
       \/ /\ loc[g].conditioned
          /\ identity.anchors = <<>> \/ ~referenceURLsForIdentity
          /\ Return(g, "failed")
       \/ /\ loc[g].conditioned /\ identity.anchors # <<>> /\ referenceURLsForIdentity
          /\ loc' = [loc EXCEPT ![g].refs = identity.anchors]
          /\ Goto(g, "render")
    /\ UNCHANGED <<identity, history, rowLock, assets, redelivered>>

\* The provider's image is stored under the request's hash; a failed attempt
\* is retried from the start of the job, the last one fails it.
GenerationRender(g) ==
    /\ g \in Generations /\ pc[g] = "render"
    /\ \/ /\ Published(g, Rendered(KeyFor(g, loc[g].intent), loc[g]))
          /\ loc' = [loc EXCEPT ![g].asset = g]
          /\ Goto(g, "served")
       \/ /\ Goto(g, "queued")
          /\ loc' = [loc EXCEPT ![g].refs = <<>>]
          /\ UNCHANGED assets
       \/ Return(g, "failed") /\ UNCHANGED assets
    /\ UNCHANGED <<identity, history, rowLock, redelivered>>

-----------------------------------------------------------------------------

Next ==
    \/ \E u \in Upserts : Upsert(u)
    \/ \E a \in Attaches : AttachAnchors(a) \/ AttachSet(a)
    \/ \E a \in Uploads : ArchivePriorReadyArtifactSlot(a)
    \/ \E b \in Bootstraps :
          \/ BootstrapCharacterAnchor(b) \/ BootstrapReuse(b) \/ BootstrapSet(b)
          \/ BootstrapRender(b) \/ attachGeneratedIdentityAnchor(b) \/ RedeliverCompleted(b)
    \/ \E g \in Generations :
          \/ GenerationRead(g) \/ GenerationLookup(g) \/ GenerationLookupCommit(g)
          \/ singleImageReferences(g) \/ GenerationRender(g)

Spec == Init /\ [][Next]_vars

-----------------------------------------------------------------------------
(* Properties *)

\* The row's version is the newest history row, and every version after the
\* first recorded a change: two concurrent upserts of the same traits bump
\* the version once (Upsert reads the row FOR UPDATE before it compares).
VersionsRecordChanges ==
    /\ Exists => history[identity.version] = identity.look
    /\ \A v \in 1..(Len(history) - 1) : history[v] # history[v + 1]

\* A generation is served a render of the text and style of the identity its
\* request read, whichever look that render was made for, and a commit is never
\* served a draft's, whatever upserts, retries and other requests ran in between
\* (the one-way substitution of the reuse lookups).
ServedRenderEligible ==
    \A g \in Generations : pc[g] = "served" =>
        LET row == assets[loc[g].asset] IN
            /\ row.picture = loc[g].picture
            /\ loc[g].intent = "commit" => row.intent = "commit"

\* A render of a reference-conditioned route was made from references, even
\* when the request read anchors that were gone when the job ran or the other
\* way round (singleImageReferences fails closed).
ConditionedFailsClosed ==
    \A a \in DOMAIN assets : assets[a].conditioned => assets[a].refs # <<>>
=============================================================================
