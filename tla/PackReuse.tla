----------------------------- MODULE PackReuse -----------------------------
(***************************************************************************)
(* Retrieval before generation (internal/assets/retrieval.go) and the plan *)
(* a pack request makes of it (planPackReuse): role by role an exact read, *)
(* then a read of the candidates, then the best one the policy allows; an  *)
(* asset backs one role.  POST /v1/assets/search is the case of one role.  *)
(* The two reads are transactions of their own: workers publish and        *)
(* supersede assets in between.                                            *)
(***************************************************************************)
EXTENDS VariantMatrix, FiniteSets, FiniteSetsExt, SequencesExt

CONSTANTS
    EntityTypes,    \* of {"character", "place"}
    RolesOf,        \* the required roles of an entity type, in plan order, without repetition
    KeysOf,         \* variants an entity's library may hold
    Library,        \* asset ids, ordered: integers
    QualitiesOf,    \* its quality tiers; the request asks for "standard"
    Policies,       \* fallback policies to check
    MaxChanges      \* bound on concurrent publications and archivals

ASSUME ReuseAssumption ==
    /\ EntityTypes \subseteq {"character", "place"}
    /\ \A e \in EntityTypes : RolesOf[e] \in Seq(STRING) \ {<<>>} /\ IsInjective(RolesOf[e])
    /\ Library \subseteq Nat /\ MaxChanges \in Nat
    /\ Policies \subseteq {"none", "compatible_only", "preview_allowed", "any_existing"}

VARIABLES entity, lib, policy, next, at, reuse, missing, answer, changes
planVars == <<entity, lib, policy, next, at, reuse, missing, answer, changes>>

Roles == RolesOf[entity]
Asset == [key : KeysOf[entity], status : {"ready", "archived"}, anchor : BOOLEAN,
          quality : QualitiesOf[entity]]
Absent == [key |-> "none", status |-> "absent", anchor |-> FALSE, quality |-> "none"]
Outcomes == {"exact_match", "compatible_match", "preview_fallback"}

PlanTypeOK ==
    /\ entity \in EntityTypes
    /\ lib \in [Library -> Asset \cup {Absent}]
    /\ policy \in Policies
    /\ next \in 1..Len(Roles) + 1
    /\ at \in {"exact", "list", "finish", "done"}
    /\ \A i \in DOMAIN reuse : reuse[i] \in [role : Range(Roles), asset : Library, match : Outcomes]
    /\ Range(missing) \subseteq Range(Roles)
    /\ answer \in [units : 0..Len(Roles), cache : Outcomes \cup {"none", "generated_required"}]
    /\ changes \in 0..MaxChanges

PlanInit ==
    /\ entity \in EntityTypes
    /\ lib \in [Library -> {a \in Asset : a.status = "ready"} \cup {Absent}]
    /\ policy \in Policies
    /\ next = 1 /\ at = "exact"
    /\ reuse = <<>> /\ missing = <<>>
    /\ answer = [units |-> 0, cache |-> "none"]
    /\ changes = 0

ReadyRows == {i \in Library : lib[i].status = "ready"}
Role == Roles[next]
Claimed == {reuse[i].asset : i \in DOMAIN reuse}

-----------------------------------------------------------------------------
(* Retrieve *)

\* The quality tier is part of the exact read; anchors are not excluded.
FindExact(key) == {i \in ReadyRows : lib[i].key = key /\ lib[i].quality = "standard"}

ListRetrievalCandidates == {i \in ReadyRows : ~lib[i].anchor}

outcomeAllowedByPolicy(outcome) ==
    \/ outcome = "compatible_match" /\ policy # "none"
    \/ outcome = "preview_fallback" /\ policy \in {"preview_allowed", "any_existing"}

VerdictOn(i) == CompareVariants(entity, Role, lib[i].key)
Tier(outcome) ==
    IF outcome = "exact_match" THEN 3
    ELSE IF outcome = "compatible_match" THEN 2
    ELSE IF outcome = "preview_fallback" THEN 1 ELSE 0
Rank(i) == ClassifyVariant(entity, lib[i].key).rank

\* pickBest: the tier, the score, the rank, then the lowest id.
Better(i, j) ==
    LET v == VerdictOn(i) w == VerdictOn(j) IN
    \/ Tier(v.outcome) > Tier(w.outcome)
    \/ /\ Tier(v.outcome) = Tier(w.outcome)
       /\ \/ v.score > w.score
          \/ v.score = w.score /\ (Rank(i) < Rank(j) \/ (Rank(i) = Rank(j) /\ i <= j))

pickBest(S) == CHOOSE i \in S : \A j \in S : Better(i, j)

\* An asset of the same key that failed the exact read is no candidate.
Qualifying == {i \in ListRetrievalCandidates : outcomeAllowedByPolicy(VerdictOn(i).outcome)}

\* any_existing takes any candidate of another key, as a preview.
AnyExisting ==
    IF policy = "any_existing"
    THEN {i \in ListRetrievalCandidates : VerdictOn(i).outcome # "exact_match"} ELSE {}

-----------------------------------------------------------------------------
(* planPackReuse *)

\* Mutation: an asset may back several roles.
Take_Again(i, match) ==
    /\ reuse' = Append(reuse, [role |-> Role, asset |-> i, match |-> match])
    /\ UNCHANGED missing

\* The role is reused when its asset is not claimed yet, else generated.
Take(i, match) ==
    IF i \in Claimed
    THEN missing' = Append(missing, Role) /\ UNCHANGED reuse
    ELSE reuse' = Append(reuse, [role |-> Role, asset |-> i, match |-> match]) /\ UNCHANGED missing

NextRole ==
    /\ next' = next + 1
    /\ at' = IF next = Len(Roles) THEN "finish" ELSE "exact"

\* A hit ends the role; a miss reads the candidates unless only exact ones count.
ReadExact ==
    /\ at = "exact"
    /\ IF FindExact(Role) # {} THEN Take(Min(FindExact(Role)), "exact_match") /\ NextRole
       ELSE IF policy = "none" THEN missing' = Append(missing, Role) /\ UNCHANGED reuse /\ NextRole
       ELSE at' = "list" /\ UNCHANGED <<next, reuse, missing>>
    /\ UNCHANGED <<entity, lib, policy, answer, changes>>

ReadCandidates ==
    /\ at = "list"
    /\ IF Qualifying # {}
       THEN LET i == pickBest(Qualifying) IN Take(i, VerdictOn(i).outcome)
       ELSE IF AnyExisting # {} THEN Take(pickBest(AnyExisting), "preview_fallback")
       ELSE missing' = Append(missing, Role) /\ UNCHANGED reuse
    /\ NextRole
    /\ UNCHANGED <<entity, lib, policy, answer, changes>>

\* The weakest tier of the reused roles.
aggregatePackCacheResult(items) ==
    CHOOSE o \in {items[i].match : i \in DOMAIN items} :
        \A i \in DOMAIN items : Tier(o) <= Tier(items[i].match)

\* Every role reused completes the job at once, else the misses are priced.
Finish ==
    /\ at = "finish"
    /\ answer' = IF missing = <<>>
                 THEN [units |-> 0, cache |-> aggregatePackCacheResult(reuse)]
                 ELSE [units |-> Len(missing), cache |-> "generated_required"]
    /\ at' = "done"
    /\ UNCHANGED <<entity, lib, policy, next, reuse, missing, changes>>

\* A worker publishes a row, or supersedes one with a row of the same key.
Publish ==
    /\ changes < MaxChanges /\ at \notin {"finish", "done"}
    /\ changes' = changes + 1
    /\ \E new \in {i \in Library : lib[i] = Absent} :
          \/ \E k \in KeysOf[entity] :
                lib' = [lib EXCEPT ![new] = [key |-> k, status |-> "ready", anchor |-> FALSE,
                                             quality |-> "standard"]]
          \/ \E old \in ReadyRows :
                lib' = [lib EXCEPT ![new] = lib[old], ![old].status = "archived"]
    /\ UNCHANGED <<entity, policy, next, at, reuse, missing, answer>>

PlanNext == ReadExact \/ ReadCandidates \/ Finish \/ Publish \/ (at = "done" /\ UNCHANGED planVars)
PlanSpec == PlanInit /\ [][PlanNext]_planVars

-----------------------------------------------------------------------------
(* Properties *)

\* What a scene would show that the request contradicts: another mood, another
\* time of day, or anything for a variant that is only itself.
Mood(key) == LET f == ClassifyVariant(entity, key).family IN IF f \in mildExpressions THEN f ELSE "any"
Time(key) ==
    LET v == ClassifyVariant(entity, key) IN
    IF v.family \in {"time_of_day", "establishing"} /\ v.tag # ""
    THEN IF v.tag \in {"dawn", "dusk"} THEN "twilight" ELSE v.tag ELSE "any"
Only(key) ==
    LET v == ClassifyVariant(entity, key) IN
    \/ v.family \in strictCharacterFamilies \cup strictPlaceFamilies \cup {"unknown"}
    \/ v.tag \in strongWeatherValues
Contradicts(asked, shown) ==
    \/ Only(asked) \/ Only(shown)
    \/ Mood(asked) # Mood(shown) /\ "any" \notin {Mood(asked), Mood(shown)}
    \/ Time(asked) # Time(shown) /\ "any" \notin {Time(asked), Time(shown)}

\* Whatever is published meanwhile and whichever candidate wins, a substitute
\* never contradicts the role, is never an anchor, and is never an asset of the
\* role's own key that the exact read refused.
SubstitutesAreSafe ==
    \A n \in DOMAIN reuse :
        LET item == reuse[n] shown == lib[item.asset] IN
        IF item.match = "exact_match" THEN shown.key = item.role
        ELSE /\ shown.key # item.role /\ ~shown.anchor
             /\ policy # "any_existing" => ~Contradicts(item.role, shown.key)

\* The priced misses and the reused items together are the required roles, in
\* order, and no asset backs two roles: the items satisfy the table's two
\* unique constraints and the worker generates exactly what was priced.
PlanCoversRoles ==
    /\ \A m, n \in DOMAIN reuse : m # n => reuse[m].asset # reuse[n].asset
    /\ LET done == {reuse[n].role : n \in DOMAIN reuse} IN
       /\ done \cap Range(missing) = {}
       /\ done \cup Range(missing) = {Roles[i] : i \in 1..(next - 1)}
    /\ at = "done" => answer.units = Len(Roles) - Len(reuse)

\* A pack that completes without generating claims an exact match only when
\* each role shows an asset of its own key and tier.
CacheResultHonest ==
    at = "done" /\ answer.cache = "exact_match" =>
        \A n \in DOMAIN reuse :
            lib[reuse[n].asset].key = reuse[n].role /\ lib[reuse[n].asset].quality = "standard"

\* The plan a pack is priced and created from holds together: it covers the
\* roles once, and reports no better reuse than it made.
PlanIsSound == PlanCoversRoles /\ CacheResultHonest
=============================================================================
