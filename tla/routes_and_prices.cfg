CONSTANTS
    Creates = {"c1", "c2", "c3"}
    Updates = {"u1", "u2"}
    UnitPrice <- MCUnitPrice
    NRoutes = 3
    Models = {1, 2, 3, 4}
    Listed = 2
    ProviderOf <- MCProviderOf
    Claims = {"scene_capable", "pack_capable", "production_capable"}
    Tiers = {"standard", "high"}
    Latencies = {"fast", "quality"}
    Priorities = {1, 2}
    Previews = {"no_preview", "true_preview"}
    Usable = {TRUE, FALSE}
    Available = {2, 3, 4}
    Advertised <- MCAdvertised
    Synthetic = {3}
    AllowSynthetic = FALSE
    Prices = {0, 1, 2, 3}
    Kinds = {"artifact", "pack", "generation"}
    Pins = {0, 1, 2, 3}
    Preferences = {0, 2}
SPECIFICATION MCSpec
INVARIANTS CarriesItsRoutes IntentHonoured ScanAgreesWithSort AtMostOneActive
