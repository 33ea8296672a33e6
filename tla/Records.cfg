SPECIFICATION FairSpec
CONSTANTS
    c1 = c1
    c2 = c2
    c3 = c3
    Calls = {c1, c2, c3}
    None = None
    Mixes <- MCMixes
    MaxFaults = 2
    MaxKills = 1
INVARIANTS TypeOK SameRecord Stored Audited
PROPERTIES NoCommitInProgress Answered ImplementsRecords
CHECK_DEADLOCK FALSE
