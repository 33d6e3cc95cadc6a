\* Three probes, one of which may fail; delays of 0, 1 or 4 each way.
CONSTANTS
    Refused = Refused
    None = None
    Torn = Torn
    DigestLess <- MCDigestLess
    ProbeCount = 3
    MinimumSamples = 2
    MaxUncertainty = 2
    AllowNonFake = FALSE
    Scenarios <- MCScenarios
    ProbeOutcomes <- MCProbes
SPECIFICATION Spec
INVARIANTS DefiniteIsTrue DurationsAreHonest JoinsArePairs SuccessIsTrue ManifestIsBacked
CHECK_DEADLOCK FALSE
