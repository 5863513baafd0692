---------------------------- MODULE MCPackReuse ----------------------------
EXTENDS PackReuse

CharacterRoles == <<"neutral_front", "expression_tense", "expression_angry">>
CharacterKeys == {"neutral_front", "neutral_bust", "side_profile", "expression_warm",
                  "expression_smiling", "expression_serious", "expression_angry", "custom_key"}
PlaceRoles == <<"night_view", "dawn_view", "empty_view", "overcast_view">>
PlaceKeys == {"establishing_wide", "establishing_wide_day", "day_view", "night_view", "dusk_view",
              "calm_empty_view", "busy_active_view", "clear_day_view", "storm_view"}
AllPolicies == {"none", "compatible_only", "preview_allowed", "any_existing"}

MCRolesOf == [character |-> CharacterRoles, place |-> PlaceRoles]
MCKeysOf == [character |-> CharacterKeys, place |-> PlaceKeys]
MCQualitiesOf == [character |-> {"standard", "high"}, place |-> {"standard"}]
=============================================================================
