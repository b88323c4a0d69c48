SPECIFICATION Spec
CONSTANTS
    r1 = r1
    r2 = r2
    s1 = s1
    s2 = s2
    d1 = d1
    d2 = d2
    d3 = d3
    None = None
    Runtime <- MCRuntime
    Setup <- MCSetup
    Decision <- TwoDecisions
    Live = TRUE
    SubmitRaises = TRUE
    Rebuilds = FALSE
    PartialFills = FALSE
SYMMETRY Symmetric
INVARIANTS UnsentOrderReleased
CHECK_DEADLOCK FALSE
