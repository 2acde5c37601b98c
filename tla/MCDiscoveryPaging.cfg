SPECIFICATION Spec
CONSTANTS
    Ids = {1, 2, 3}
    Matching = {2, 3}
    Requests <- Asked
    Constraints <- Keys
    MaxChanges = 2
    MaxCalls = 3
INVARIANTS ListingIsWhole FailuresAreExplained
CHECK_DEADLOCK FALSE
