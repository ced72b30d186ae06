\* Two runs, kills and operator commits at any step.
SPECIFICATION AuditSpec
CONSTANTS
    s1 = s1
    s2 = s2
    s3 = s3
    match = match
    support = support
    Idle = Idle
    Signals <- ThreeSignals
    Stratum <- TwoStrata
    Checks <- TwoChecks
    Costs <- OneOrTwo
    MaxUsd = 3
    MaxRuns = 2
SYMMETRY Alike
CHECK_DEADLOCK FALSE
INVARIANTS
    AuditedOnceAndWhole
    LedgerTrue
    CeilingHolds
    SpreadsOverStrata
