CONSTANTS
    None = None
    TextFields = {"a"}
    Nesting <- Levels
    Deepest = 2
    MaxRows = 3
    Limits = {1, 2, None}
    DefaultLimit = 2
    MaxPages = 5
    Filters <- FilterParameters
    Queries <- Requests
    Sorts <- SortBy
    SortKey <- KeyOf
    Accepts <- AcceptsFilter
    Selects <- SelectsRow
SPECIFICATION Spec
INVARIANTS TypeOK FilterHidesNothing FilterExact WalkComplete PartsAgree
CHECK_DEADLOCK FALSE
