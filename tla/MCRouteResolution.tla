------------------------- MODULE MCRouteResolution -------------------------
(***************************************************************************)
(* Providers 1 (not configured), 2 (a real one), 3 (a synthetic one) and 4 *)
(* (a real one with the strongest capability); model m is provider m's.    *)
(* One run asks three questions, each from its own initial states: which   *)
(* routes may draw a request, in which order, and what concurrent edits    *)
(* of the price book do to both.                                           *)
(***************************************************************************)
EXTENDS RouteResolution

MCProviderOf == [m \in Models |-> m]
MCAdvertised == <<{}, {"scene_capable", "pack_capable"},
                  {"scene_capable", "production_capable"}, {"production_capable"}>>
MCUnitPrice == [r \in RowIds |-> IF r = Seeded THEN 2 ELSE IF r = "c1" THEN 3 ELSE 1]

Rows(models, claims, tiers, latencies, priorities, previews, usable) ==
    [model : models, claim : claims, tier : tiers, latency : latencies,
     priority : priorities, preview : previews, usable : usable]
Flat == [m \in Models \ {Listed} |-> 1]
NoEdits == tx = [p \in Creates \cup Updates |-> "unasked"]

\* Every claim, tier, preview and pin, at one price and without edits.
Filters ==
    /\ \E n \in 0..2 :
          table \in [1..n -> {r \in Rows({1, 2, 3}, Claims, Tiers, {"fast"}, {1}, Previews, Usable) :
                                  ~r.usable => r.tier = "standard" /\ r.preview = "no_preview"}]
    /\ others = Flat /\ NoEdits /\ ActiveRows # {}
    /\ req \in {r \in Request : r.prefer = 0 /\ r.latency = "any"}

\* Three capable routes of two models, every order of prices, without edits.
\* The rows' order only matters to the last tie-break: those of a model adjoin.
Ranking ==
    /\ table \in [1..3 -> Rows({2, 4}, {"pack_capable"}, Tiers, Latencies, Priorities,
                               {"no_preview"}, {TRUE})]
    /\ \A i \in 1..2 : table[i].model <= table[i + 1].model
    /\ req \in {r \in Request : r.pin = 0 /\ r.kind # "artifact" /\ r.latency # "quality"}
    /\ others \in {[Flat EXCEPT ![4] = p] : p \in IF req.intent = "draft" THEN Prices ELSE {1}}
    /\ NoEdits

\* Two routes, with a creation and an edit of the listed model's prices.
Repricing ==
    /\ table \in [1..2 -> Rows({2, 4}, {"pack_capable"}, Tiers, {"fast"}, {1},
                               {"no_preview"}, {TRUE})]
    /\ others \in {[Flat EXCEPT ![4] = p] : p \in Prices}
    /\ req \in {r \in Request : r.pin = 0 /\ r.kind = "generation"}
    /\ tx = [p \in Creates \cup Updates |-> IF p \in {"c1", "u1"} THEN "start" ELSE "unasked"]

\* Every request on the book; nothing to resolve.
Editing ==
    /\ table = <<>> /\ others = Flat
    /\ req = CHOOSE r \in Request : TRUE
    /\ tx = [p \in Creates \cup Updates |-> "start"]

MCInit ==
    /\ book \in Books
    /\ stmt = NoStatements
    /\ Filters \/ Ranking \/ Repricing \/ Editing
    /\ Unresolved

MCSpec == MCInit /\ [][Next]_vars
=============================================================================
