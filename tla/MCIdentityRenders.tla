------------------------- MODULE MCIdentityRenders -------------------------
(***************************************************************************)
(* Small instances of IdentityRenders for TLC.  Two looks, short and tall, *)
(* differ in a trait no render shows, and are interchangeable; a third,    *)
(* bare, has no appearance trait, so that its renders draw the display     *)
(* name.  Requests of one kind and uploads are interchangeable too.        *)
(***************************************************************************)
EXTENDS IdentityRenders, FiniteSetsExt, TLC

CONSTANTS short, tall, bare

MCAppearance == [k \in Looks |-> IF k = bare THEN NoText ELSE "scarred"]
MCStyleProfile == [k \in Looks |-> IF k = bare THEN "oil" ELSE "ink"]

\* Any four of the six requests are made.
MCInit ==
    /\ Stored
    /\ \E made \in kSubset(4, Requests) :
          pc = [p \in Requests |-> IF p \in made THEN "start" ELSE "done"]
MCSpec == MCInit /\ [][Next]_vars

Symmetry ==
    UNION {Permutations({short, tall}), Permutations(Uploads), Permutations(Upserts),
           Permutations(Attaches), Permutations(Bootstraps), Permutations(Generations)}
=============================================================================
