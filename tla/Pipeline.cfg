SPECIFICATION Spec
CONSTANTS
    Undated = Undated
    Unlimited = Unlimited
    Window = 2
    PageSize = 1
    MaxPages <- MCMaxPages
    Parts <- MCParts
    ApiCap = 1
    MaxTimespan = 1
    MaxSpan = 1
    MonthDays = 2
    MaxMonths = 3
    YearDays = 2
    MaxYears = 3
    Sources <- MCSources
    Catalog <- MCCatalog
    MaxSite = 2
    LastDay = 2
    MaxEdits = 4
    MaxPending = 2
INVARIANTS
    NamesAreEarned
    OneReviewWaits
    NothingLost
PROPERTIES
    SuccessIsComplete
CHECK_DEADLOCK FALSE
