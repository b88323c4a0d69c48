SPECIFICATION Spec
CONSTANTS
    r1 = r1
    r2 = r2
    s1 = s1
    s2 = s2
    d1 = d1
    d2 = d2
    d3 = d3
    None = None
    Runtime <- MCRuntime
    Setup <- MCSetup
    Decision <- ThreeDecisions
    Live = TRUE
    SubmitRaises = FALSE
    Rebuilds = FALSE
    PartialFills = FALSE
SYMMETRY Symmetric
INVARIANTS TypeOK OneOrderPerSetup RejectedHasNoExposure LiveExposureIsDurable
PROPERTIES OneEntryAtATime
CHECK_DEADLOCK FALSE
