\* Thresholds scaled to a few rows; two months of a day each.
SPECIFICATION Spec
CONSTANTS
    None = None
    Primary <- MCPrimary
    G1UsefulPct = 60
    G1AccuracyPct = 80
    G1MinDays = 1
    G1MinRated = 1
    WaiverActive = TRUE
    G2Pct = 40
    G2MinN = 2
    DisagreePct = 20
    MinComparable = 2
    SpotAbs = 2
    SpotPct = 20
    SpotFloor = 1
    Cards <- MCCards
    Trigger <- MCTrigger
    Source <- MCSource
    Scope <- MCScope
    Entity <- MCEntity
    Incidents = {"breach"}
    Unrated = Unrated
    Asks <- MCAsks
    Reviews = {"match", "quarantine"}
    Candidates = {"match"}
    Attempts = 2
    Sampled = {"chief", "breach"}
    Verdicts <- MCVerdicts
    DaysPerMonth = 1
    LastDay = 1
    MaxRatings = 2
    MaxTriage = 1
    MaxAudits = 2
INVARIANTS
    SlicesAddUp
    DemotionIsEvidenced
    RecordStands
    UnverifiedMovesNothing
PROPERTIES
    SavedOnceOrTold
    EveryClickIsAnswered
