SPECIFICATION ResolvedSpec
CONSTANTS
    r1 = r1
    r2 = r2
    s1 = s1
    s2 = s2
    d1 = d1
    d2 = d2
    d3 = d3
    None = None
    Runtime <- MCRuntime
    Setup <- OneSetup
    Decision <- OneDecision
    Live = TRUE
    SubmitRaises = FALSE
    Rebuilds = TRUE
    PartialFills = TRUE
PROPERTIES AcceptedIsResolved
CHECK_DEADLOCK FALSE
