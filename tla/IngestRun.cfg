\* Nightly runs under fairness; two events, batches, repeats, kills, failures.
SPECIFICATION FairRuns
CONSTANTS
    e1 = e1
    e2 = e2
    Never = Never
    Events <- TwoEvents
    Cadence = 3
    Ttl = 3
    Batch = 2
    MaxRunHours = 1
    MaxManual = 2
    MaxKills = 1
    MaxSeen = 4
INVARIANTS
    CountsMatch
PROPERTIES
    EventuallyStored
