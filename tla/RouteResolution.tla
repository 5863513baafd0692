-------------------------- MODULE RouteResolution --------------------------
(***************************************************************************)
(* How a request gets its provider routes (internal/providers/routing and  *)
(* internal/http/handlers/routing.go): the handler resolves a primary      *)
(* route, and then, with a second read of the route table, the chain of    *)
(* its alternates.  The transaction that creates the job                   *)
(* (internal/jobs/service.go) keeps the alternates of the primary's price, *)
(* which a worker may walk, and reserves at that price; it is READ         *)
(* COMMITTED, so each of its lookups reads the prices of its own moment.   *)
(* Meanwhile admins edit the prices of one model, in the transactions of   *)
(* module PriceBook; the routes themselves only change with a migration.   *)
(* Provider, model and route ids are numbers in the order of the strings.  *)
(***************************************************************************)
EXTENDS PriceBook, SequencesExt

CONSTANTS
    NRoutes,            \* bound on the rows of provider_routes for the operation
    Models,             \* provider models
    Listed,             \* the model whose prices admins edit
    ProviderOf,         \* the provider of each model
    Claims,             \* capabilities a row may claim in required_capability
    Tiers,              \* quality tiers a row may have
    Latencies,          \* latency tiers a row may have
    Priorities,         \* priorities a row may have
    Previews,           \* preview capabilities a row may have
    Usable,             \* values of is_enabled and model active, together
    Available,          \* providers configured in this process
    Advertised,         \* what each provider's adapter advertises
    Synthetic,          \* providers that draw placeholders
    AllowSynthetic,     \* ALLOW_SYNTHETIC_PROVIDERS
    Prices,             \* unit prices of the others; 0 stands for no active price
    Kinds,              \* the endpoints asking: "artifact", "pack", "generation"
    Pins,               \* values of provider_id, 0 for none
    Preferences         \* values of IMAGE_PROVIDER, 0 for none

ASSUME RouteAssumption ==
    /\ NRoutes \in Nat /\ Models \subseteq Nat /\ Listed \in Models
    /\ ProviderOf \in [Models -> Nat \ {0}] /\ Prices \subseteq Nat /\ Priorities \subseteq Int
    /\ Kinds \subseteq {"artifact", "pack", "generation"} /\ AllowSynthetic \in BOOLEAN

VARIABLES
    table,      \* provider_routes, joined to the status of their models
    others,     \* active unit price of every model that is not Listed
    req,        \* the resolve request
    pc,         \* "resolve", "chain", "create", "lookup", "reserve", "done"
    primary,    \* the route applied to the job, 0 for none
    head,       \* the first route of the resolved chain, 0 for none
    chain,      \* the alternates the handler threads onto the job
    err,        \* the routing error the request ended in
    quoted,     \* prices as Resolve read them, and as ResolveChain did
    base,       \* the primary's price as the transaction looked it up, 0 for none
    looked,     \* how many alternates the transaction has looked up
    kept,       \* positions of the alternates it stamps on the job
    reserved,   \* the price the reservation was made at; 0 denies the job
    still       \* no price changed since the transaction's first lookup

resolution == <<table, others, req, primary, head, chain, err, quoted>>
creation == <<base, looked, kept, reserved, still>>
routeVars == <<resolution, pc, creation>>
vars == <<bookVars, routeVars>>

Ids == DOMAIN table
Route == [model : Models, claim : Claims, tier : Tiers, latency : Latencies,
          priority : Priorities, preview : Previews, usable : Usable]
Provider(i) == ProviderOf[table[i].model]
price == [m \in Models |-> IF m = Listed THEN ActivePrice ELSE others[m]]

\* The requests the three handlers build: artifacts and packs fix a tier,
\* generations rank by intent above a floor and leave the tier open.
Request ==
    [floor : {"scene_capable"}, tier : Tiers, latency : Latencies \cup {"any"},
     preview : {"no_preview", "true_preview"}, prefer : Preferences,
     pin : Pins, intent : {"none"}, kind : Kinds \cap {"artifact"}]
    \cup [floor : {"pack_capable"}, tier : Tiers, latency : Latencies \cup {"any"},
          preview : {"no_preview"}, prefer : Preferences, pin : Pins,
          intent : {"none"}, kind : Kinds \cap {"pack"}]
    \cup [floor : {"identity_capable"}, tier : {"any"}, latency : {"any"},
          preview : {"no_preview"}, prefer : {0}, pin : Pins,
          intent : {"draft", "commit"}, kind : Kinds \cap {"generation"}]

Errors == {"none", "no_route", "requested_provider_unavailable",
           "provider_unavailable_for_route", "unsupported_capability",
           "route_capability_mismatch"}

TypeOK ==
    /\ BookTypeOK
    /\ table \in Seq(Route) /\ Len(table) <= NRoutes
    /\ others \in [Models \ {Listed} -> Prices] /\ req \in Request
    /\ pc \in {"resolve", "chain", "create", "lookup", "reserve", "done"}
    /\ {primary, head} \subseteq Ids \cup {0}
    /\ chain \in Seq(Ids)
    /\ err \in Errors
    /\ quoted \in [scan : [Models -> Nat], sort : [Models -> Nat]]
    /\ base \in Nat /\ reserved \in Nat /\ still \in BOOLEAN
    /\ looked \in 0..Len(chain) /\ kept \subseteq 1..looked

\* Before a request: nothing resolved, prices not read yet.
Unresolved ==
    /\ pc = "resolve" /\ primary = 0 /\ head = 0 /\ chain = <<>> /\ err = "none"
    /\ quoted = [scan |-> price, sort |-> price]
    /\ base = 0 /\ looked = 0 /\ kept = {} /\ reserved = 0 /\ still = TRUE

Init ==
    /\ BookInit
    /\ \E n \in 0..NRoutes : table \in [1..n -> Route]
    /\ others \in [Models \ {Listed} -> Prices] /\ req \in Request
    /\ Unresolved

-----------------------------------------------------------------------------
(* Capabilities *)

\* production_capable implies pack_capable implies identity_capable.
capabilityImplications(have) ==
    IF have = "production_capable" THEN {"production_capable", "pack_capable", "identity_capable"}
    ELSE IF have = "pack_capable" THEN {"pack_capable", "identity_capable"}
    ELSE {have}
CapabilitySatisfies(have, need) == need \in capabilityImplications(have)
CapabilitiesSatisfy(haves, need) == \E have \in haves : CapabilitySatisfies(have, need)
IsIdentityAxisCapability(need) == CapabilitySatisfies("production_capable", need)

ProviderSatisfiesRoute(p, need) ==
    (p \in Synthetic => AllowSynthetic) /\ CapabilitiesSatisfy(Advertised[p], need)

\* Boot reconciliation of one row; the worker and the API log it.
Reconcile(i) ==
    IF Advertised[Provider(i)] = {} THEN "provider_not_registered"
    ELSE IF ProviderSatisfiesRoute(Provider(i), table[i].claim) THEN "valid"
    ELSE IF Provider(i) \in Synthetic /\ CapabilitiesSatisfy(Advertised[Provider(i)], table[i].claim)
    THEN "synthetic_identity_disabled"
    ELSE "provider_capability_mismatch"

-----------------------------------------------------------------------------
(* The hard filters, in their order, and the error each of them ends in *)

Active == {i \in Ids : table[i].usable}
Pinned == {i \in Active : req.pin # 0 => Provider(i) = req.pin}
Configured == {i \in Pinned : Provider(i) \in Available}
OfTier == {i \in Configured : req.tier # "any" => table[i].tier = req.tier}

\* With an intent the required capability is a floor, without it must match.
Capable ==
    {i \in OfTier : IF req.intent # "none" THEN CapabilitySatisfies(table[i].claim, req.floor)
                    ELSE table[i].claim = req.floor}
Previewing == {i \in Capable : req.preview # "no_preview" => table[i].preview = req.preview}

Backed == {i \in Previewing : ProviderSatisfiesRoute(Provider(i), table[i].claim)}

RouteError ==
    IF Active = {} THEN "no_route"
    ELSE IF req.pin # 0 /\ req.pin \notin Available THEN "requested_provider_unavailable"
    ELSE IF Pinned = {} THEN "no_route"
    ELSE IF Configured = {} THEN "provider_unavailable_for_route"
    ELSE IF OfTier = {} THEN "no_route"
    ELSE IF Capable = {} \/ Previewing = {} THEN "unsupported_capability"
    ELSE IF Backed = {} THEN "route_capability_mismatch"
    ELSE "none"

candidates == IF RouteError = "none" THEN Backed ELSE {}

-----------------------------------------------------------------------------
(* The order among the survivors *)

qualityTierRank(t) ==
    IF t = "high" THEN 3 ELSE IF t = "standard" THEN 2 ELSE IF t = "draft" THEN 1 ELSE 0

\* The first of a list of keys on which two routes differ decides: each key is
\* negative when a comes first, positive when b does, and 0 for a tie.
Decide(keys) ==
    \E k \in 1..Len(keys) : keys[k] < 0 /\ \A j \in 1..(k - 1) : keys[j] = 0
FirstIf(a, b) == IF a = b THEN 0 ELSE IF a THEN -1 ELSE 1

\* Mutation: an absent price compares as zero, the cheapest.
DraftKeyZero(a, b) == price[table[a].model] - price[table[b].model]

\* draft: the cheapest first, routes without a price last.
DraftKey(a, b) ==
    LET pa == price[table[a].model]
        pb == price[table[b].model] IN
    IF pa = 0 \/ pb = 0 THEN FirstIf(pa # 0, pb # 0) ELSE pa - pb

\* commit: the highest tier first, then the identity axis.
TierKey(a, b) == qualityTierRank(table[b].tier) - qualityTierRank(table[a].tier)
IdentityKey(a, b) ==
    FirstIf(IsIdentityAxisCapability(table[a].claim), IsIdentityAxisCapability(table[b].claim))

\* Mutation: ties in priority keep the order of the comparison.
ranksBeforeOrEqual(a, b) ==
    LET keys(x, y) ==
            <<IF req.intent = "draft" THEN DraftKey(x, y) ELSE 0,
              IF req.intent = "commit" THEN TierKey(x, y) ELSE 0,
              IF req.intent = "commit" THEN IdentityKey(x, y) ELSE 0,
              FirstIf(table[x].latency = req.latency, table[y].latency = req.latency),
              FirstIf(Provider(x) = req.prefer, Provider(y) = req.prefer)>>
    IN Decide(keys(a, b)) \/ ~Decide(keys(b, a))

\* The keys of the intent come first; another intent's are a tie.
ranksBefore(a, b) ==
    Decide(<<IF req.intent = "draft" THEN DraftKey(a, b) ELSE 0,
             IF req.intent = "commit" THEN TierKey(a, b) ELSE 0,
             IF req.intent = "commit" THEN IdentityKey(a, b) ELSE 0,
             FirstIf(table[a].latency = req.latency, table[b].latency = req.latency),
             FirstIf(Provider(a) = req.prefer, Provider(b) = req.prefer),
             table[a].priority - table[b].priority,
             Provider(a) - Provider(b), table[a].model - table[b].model, a - b>>)

\* The elements of a finite set in an order given as a set of pairs.
SortedBy(S, order) ==
    CHOOSE s \in SetToSeqs(S) :
        \A i, j \in 1..Cardinality(S) : i < j => <<s[i], s[j]>> \in order

\* ListProviderRoutesForOperation returns rows in this order.
SourceOrder(S) ==
    LET listedBefore(a, b) ==
            Decide(<<table[a].priority - table[b].priority, Provider(a) - Provider(b),
                     table[a].model - table[b].model, a - b>>)
        rowOrder == {p \in S \X S : listedBefore(p[1], p[2])}
    IN SortedBy(S, rowOrder)

-----------------------------------------------------------------------------
(* The handler *)

\* Resolve: a scan of the candidates in source order.
Best ==
    LET rows == SourceOrder(candidates)
        best[n \in 1..Len(rows)] ==
            IF n = 1 THEN rows[1]
            ELSE IF ranksBefore(rows[n], best[n - 1]) THEN rows[n] ELSE best[n - 1]
    IN best[Len(rows)]

Resolve ==
    /\ pc = "resolve"
    /\ quoted' = [scan |-> price, sort |-> price]
    /\ IF RouteError # "none"
       THEN err' = RouteError /\ pc' = "done" /\ UNCHANGED primary
       ELSE primary' = Best /\ pc' = "chain" /\ UNCHANGED err
    /\ UNCHANGED <<bookVars, table, others, req, head, chain, creation>>

\* applyFallbackChain: the alternates are what is not the applied primary.
Alternates(ordered) ==
    LET rest == {n \in DOMAIN ordered : ordered[n] # primary}
        earlier == {p \in rest \X rest : p[1] < p[2]}
        at == SortedBy(rest, earlier)
    IN [k \in DOMAIN at |-> ordered[at[k]]]

\* ResolveChain reads the table again, and sorts by ranksBefore: a strict total
\* order, so the order of the rows does not show.  Its error would mean no
\* alternates.
ResolveChain ==
    LET rankOrder == {p \in candidates \X candidates : ranksBefore(p[1], p[2])}
        ordered == SortedBy(candidates, rankOrder) IN
    /\ pc = "chain"
    /\ head' = IF ordered = <<>> THEN 0 ELSE ordered[1]
    /\ chain' = Alternates(ordered)
    /\ quoted' = [quoted EXCEPT !.sort = price]
    /\ pc' = "create"
    /\ UNCHANGED <<bookVars, table, others, req, primary, err, creation>>

-----------------------------------------------------------------------------
(* The transaction that creates the job *)

PriceOf(i) == price[table[i].model]

\* samePriceFallbacksWithQueries looks the primary up when there are alternates;
\* a primary without an active price gets none of them.
LookupPrimary ==
    /\ pc = "create"
    /\ base' = IF chain = <<>> THEN 0 ELSE PriceOf(primary)
    /\ still' = TRUE
    /\ pc' = IF base' = 0 THEN "reserve" ELSE "lookup"
    /\ UNCHANGED <<bookVars, resolution, looked, kept, reserved>>

\* Mutation: the alternates are compared at the prices the handler read.
LookupCandidateQuoted ==
    LET n == looked + 1 IN
    /\ pc = "lookup"
    /\ looked' = n
    /\ kept' = IF chain[n] # primary /\ quoted.sort[table[chain[n]].model] = base
               THEN kept \cup {n} ELSE kept
    /\ pc' = IF n = Len(chain) THEN "reserve" ELSE "lookup"
    /\ UNCHANGED <<bookVars, resolution, base, reserved, still>>

\* Then the alternates one by one, in their order: those of the primary's price
\* stay.
LookupCandidate ==
    LET n == looked + 1 IN
    /\ pc = "lookup"
    /\ looked' = n
    /\ kept' = IF chain[n] # primary /\ PriceOf(chain[n]) = base THEN kept \cup {n} ELSE kept
    /\ pc' = IF n = Len(chain) THEN "reserve" ELSE "lookup"
    /\ UNCHANGED <<bookVars, resolution, base, reserved, still>>

\* cost.Service.Reserve reads the primary's price itself, and denies the job
\* without one.
Reserve ==
    /\ pc = "reserve"
    /\ reserved' = PriceOf(primary)
    /\ pc' = "done"
    /\ UNCHANGED <<bookVars, resolution, base, looked, kept, still>>

PricesChange ==
    /\ BookNext
    /\ UNCHANGED <<resolution, pc, base, looked, kept, reserved>>
    /\ still' = (still /\ price' = price)

Next ==
    \/ Resolve \/ ResolveChain
    \/ LookupPrimary \/ LookupCandidate \/ Reserve
    \/ PricesChange
    \/ pc = "done" /\ UNCHANGED vars

Spec == Init /\ [][Next]_vars

-----------------------------------------------------------------------------
(* Properties *)

\* Whether a request may be drawn by a route, said without the pipeline: usable,
\* not another provider than the pinned one, configured, of the tier asked for,
\* able to do what was asked and found valid at boot.
Suits(i) ==
    /\ table[i].usable /\ Provider(i) \in Available
    /\ req.pin \in {0, Provider(i)} /\ req.tier \in {"any", table[i].tier}
    /\ req.preview = "true_preview" => table[i].preview = "true_preview"
    /\ req.kind = "artifact" => table[i].claim = "scene_capable"
    /\ req.kind = "pack" => table[i].claim = "pack_capable"
    /\ req.kind = "generation" =>
          table[i].claim \in {"identity_capable", "pack_capable", "production_capable"}

\* A request fails exactly when no route may draw it, and the error names the
\* first thing that is missing: a pinned provider that is not configured, or
\* routes that suit but are not backed by their provider.
FailsForItsReason ==
    pc = "done" =>
        /\ err # "none" <=> ~\E i \in Ids : Suits(i) /\ Reconcile(i) = "valid"
        /\ err = "requested_provider_unavailable" =>
              req.pin \notin Available \cup {0}
        /\ Active # {} /\ req.pin \notin Available \cup {0} =>
              err = "requested_provider_unavailable"
        /\ err = "route_capability_mismatch" => \E i \in Ids : Suits(i)
        /\ (\E i \in Ids : Suits(i)) => err \in {"none", "route_capability_mismatch"}

\* The handler's chain and primary are every route that may draw the request,
\* once each, even when prices moved between the two reads of the table.
NoRouteLost ==
    pc \notin {"resolve", "chain"} /\ err = "none" =>
        /\ {primary} \cup Range(chain) = {i \in Ids : Suits(i) /\ Reconcile(i) = "valid"}
        /\ primary \notin Range(chain) /\ IsInjective(chain)

\* The alternates stamped on the job.
Carried == {chain[n] : n \in kept}

\* A job with a reservation carries exactly the other routes that may draw it at
\* the price that was reserved, whatever the handler had read before: nothing a
\* worker walks to costs something else.  The classification and the reservation
\* are different statements: this holds as long as no price changes meanwhile.
SamePriceFallbacks ==
    pc = "done" /\ err = "none" /\ reserved # 0 /\ still =>
        Carried = {i \in Ids \ {primary} : /\ Suits(i) /\ Reconcile(i) = "valid"
                                           /\ PriceOf(i) = reserved}

\* A created job carries exactly the routes it may walk to, and a request that
\* no route may draw is refused for the right reason: neither config drift
\* between the table and the registered providers nor a price the handler read
\* too early leads a worker to a route it may not use.
CarriesItsRoutes == NoRouteLost /\ SamePriceFallbacks /\ FailsForItsReason

\* A draft is drawn by a cheapest of the routes that may draw it, at the prices
\* Resolve read, and never by an unpriced route while a priced one exists; a
\* commit by one of the highest tier.
IntentHonoured ==
    primary # 0 =>
        \A i \in {j \in Ids : Suits(j) /\ Reconcile(j) = "valid"} :
            /\ req.intent = "draft" /\ quoted.scan[table[i].model] # 0 =>
                  quoted.scan[table[primary].model] \in 1..quoted.scan[table[i].model]
            /\ req.intent = "commit" =>
                  qualityTierRank(table[primary].tier) >= qualityTierRank(table[i].tier)

\* Scan and sort agree whatever the order of the rows: when both reads of the
\* table saw the same prices the chain starts with the applied primary.
ScanAgreesWithSort == head # 0 /\ quoted.scan = quoted.sort => head = primary
=============================================================================
