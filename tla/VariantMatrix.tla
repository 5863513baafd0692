--------------------------- MODULE VariantMatrix ---------------------------
(***************************************************************************)
(* Variant classification and the compatibility matrix                     *)
(* (internal/assets/variants.go, compatibility.go): which stored variant   *)
(* may stand in for a requested one, and how well.  Spellings that share a *)
(* specification in the source are represented once, except where two of   *)
(* them meet in a rule.  Scores are in hundredths; a variant keeps the one *)
(* structured tag its family is compared by.                               *)
(***************************************************************************)
EXTENDS Integers, Sequences

Safe(family, tag, rank) == [family |-> family, tag |-> tag, fallback |-> TRUE, rank |-> rank]
Strict(family, tag) == [family |-> family, tag |-> tag, fallback |-> FALSE, rank |-> 1000]

characterVariants ==
    [neutral_front          |-> Safe("neutral", "front", 10),
     neutral_front_portrait |-> Safe("neutral", "front", 10),
     neutral_three_quarter  |-> Safe("neutral", "three_quarter", 20),
     neutral_bust           |-> Safe("neutral", "front", 30),
     side_profile           |-> Safe("neutral", "side_profile", 60),
     expression_warm        |-> Safe("warm", "", 40),
     expression_smiling     |-> Safe("warm", "", 40),
     expression_serious     |-> Safe("tense", "", 40),
     expression_tense       |-> Safe("tense", "", 40),
     expression_angry       |-> Strict("strong_emotion", ""),
     outfit_formal          |-> Strict("outfit", ""),
     state_injured          |-> Strict("state", ""),
     profile_icon           |-> Strict("portrait_crop", ""),
     full_body_reference    |-> Strict("full_body", "")]

placeVariants ==
    [establishing_wide      |-> Safe("establishing", "", 10),
     establishing_wide_day  |-> Safe("establishing", "day", 10),
     closer_atmospheric     |-> Safe("establishing", "", 40),
     day_view               |-> Safe("time_of_day", "day", 40),
     night_view             |-> Strict("time_of_day", "night"),
     dawn_view              |-> Strict("time_of_day", "dawn"),
     dusk_view              |-> Strict("time_of_day", "dusk"),
     empty_view             |-> Safe("crowd", "empty", 40),
     calm_empty_view        |-> Safe("crowd", "empty", 40),
     busy_active_view       |-> Strict("crowd", "busy"),
     clear_day_view         |-> Safe("weather", "clear", 40),
     overcast_view          |-> Safe("weather", "overcast", 40),
     storm_view             |-> Strict("weather", "storm"),
     interior_view          |-> Strict("place_framing", ""),
     state_damaged          |-> Strict("place_state", "")]

\* A key outside the entity's table is never generic-safe.
ClassifyVariant(entity, key) ==
    LET table == IF entity = "character" THEN characterVariants ELSE placeVariants IN
    IF key \in DOMAIN table THEN table[key] ELSE Strict("unknown", "")

strictCharacterFamilies == {"strong_emotion", "outfit", "state", "portrait_crop", "full_body"}
strictPlaceFamilies == {"place_framing", "place_state"}
strongWeatherValues == {"rain", "snow", "storm", "fog", "fire", "flood"}
mildExpressions == {"warm", "tense"}

Invalid == [outcome |-> "invalid_match", score |-> 0]
Exact == [outcome |-> "exact_match", score |-> 100]
Compatible(s) == [outcome |-> "compatible_match", score |-> s]
Preview(s) == [outcome |-> "preview_fallback", score |-> s]
Verdict(condition, verdict) == IF condition THEN verdict ELSE Invalid

characterAngle(r, c) ==
    LET frontish == {"front", "three_quarter", "bust"} IN
    IF r.tag = c.tag THEN Compatible(90)
    ELSE IF {r.tag, c.tag} \subseteq frontish THEN Compatible(85)
    ELSE Verdict("side_profile" \in {r.tag, c.tag}, Preview(50))

compareCharacter(r, c) ==
    IF {r.family, c.family} \cap strictCharacterFamilies # {} THEN Invalid
    ELSE IF r.family = c.family
         THEN IF r.family = "neutral" THEN characterAngle(r, c) ELSE Compatible(85)
    ELSE Verdict("neutral" \in {r.family, c.family} /\ c.fallback, Compatible(65))

placeTimeOfDay(r, c) ==
    IF r.tag = c.tag THEN Compatible(90)
    ELSE Verdict({r.tag, c.tag} \subseteq {"dawn", "dusk"}, Compatible(70))

placeWeather(r, c) == Verdict({r.tag, c.tag} \cap strongWeatherValues = {}, Compatible(70))
placeCrowd(r, c) == Verdict(r.tag = c.tag, Compatible(80))

\* Mutation: the family of the candidate is not asked for its time of day.
comparePlace_AnyEstablishing(r, c) ==
    IF {r.family, c.family} \cap strictPlaceFamilies # {} THEN Invalid
    ELSE IF r.family # c.family
         THEN Verdict(r.family = "time_of_day" /\ c.family = "establishing", Preview(40))
    ELSE IF r.family = "time_of_day" THEN placeTimeOfDay(r, c)
    ELSE IF r.family = "weather" THEN placeWeather(r, c)
    ELSE IF r.family = "crowd" THEN placeCrowd(r, c)
    ELSE Verdict(r.family = "establishing", Compatible(80))

\* A timeless establishing shot may preview a time of day, no other family
\* crosses.
comparePlace(r, c) ==
    IF {r.family, c.family} \cap strictPlaceFamilies # {} THEN Invalid
    ELSE IF r.family # c.family
         THEN Verdict(r.family = "time_of_day" /\ c.family = "establishing"
                      /\ c.fallback /\ c.tag = "", Preview(40))
    ELSE IF r.family = "time_of_day" THEN placeTimeOfDay(r, c)
    ELSE IF r.family = "weather" THEN placeWeather(r, c)
    ELSE IF r.family = "crowd" THEN placeCrowd(r, c)
    ELSE Verdict(r.family = "establishing", Compatible(80))

\* An equal key is exact even when it is strict or unknown.
CompareVariants(entity, requested, candidate) ==
    LET r == ClassifyVariant(entity, requested)
        c == ClassifyVariant(entity, candidate) IN
    IF requested = candidate THEN Exact
    ELSE IF "unknown" \in {r.family, c.family} THEN Invalid
    ELSE IF entity = "character" THEN compareCharacter(r, c) ELSE comparePlace(r, c)
=============================================================================
