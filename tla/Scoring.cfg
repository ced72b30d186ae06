\* Three cards of an account and a rule, two builds, edits, a seed load, two days.
SPECIFICATION Spec
CONSTANTS
    breach = breach
    project = project
    rule = rule
    acme = acme
    NoEntity = NoEntity
    Unscored = Unscored
    NoPass = NoPass
    Blank = ""
    Cards <- AllCards
    Entities <- OneEntity
    Subsectors <- Utilities
    TriggerOf <- Trigger
    HasClock <- Calendared
    Applicability <- EveryBuild
    EntityOf <- Owner
    WordsOf <- Keywords
    ScopeOf <- Scopes
    EventDay <- Day
    Knobs <- SomeKnobs
    Weights <- TwoWeights
    HalfLives <- TwoHalves
    SeedFiles <- Files
    FirstTuning <- Tuning
    FirstCards <- Classified
    FirstProfile <- AsSeeded
    Neutral = 2
    Profiles <- Kinds
    LastDay = 1
    MaxEdits = 1
    MaxUpsets = 1
    MaxMoves = 2
INVARIANTS
    StampExplains
    CombosMeanClauses
PROPERTIES
    FrozenScores
    PassSettles
