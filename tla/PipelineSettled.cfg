SPECIFICATION Spec
CONSTANTS
    Undated = Undated
    Unlimited = Unlimited
    Window = 2
    PageSize = 1
    MaxPages <- MCMaxPages
    Parts <- MCParts
    ApiCap = 1
    MaxTimespan = 1
    MaxSpan = 1
    MonthDays = 2
    MaxMonths = 3
    YearDays = 2
    MaxYears = 3
    Sources <- MCEpa
    Catalog <- MCCatalog
    MaxSite = 2
    LastDay = 2
    MaxEdits = 3
    MaxPending = 2
INVARIANTS
    SettledIsReported
CHECK_DEADLOCK FALSE
