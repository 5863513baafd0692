CONSTANTS
    EntityTypes = {"character", "place"}
    RolesOf <- MCRolesOf
    KeysOf <- MCKeysOf
    QualitiesOf <- MCQualitiesOf
    Library = {1, 2, 3}
    Policies <- AllPolicies
    MaxChanges = 1
SPECIFICATION PlanSpec
INVARIANTS SubstitutesAreSafe PlanIsSound
