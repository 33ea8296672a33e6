SPECIFICATION Spec
CONSTANTS
    a1 = a1
    Agents = {a1}
    Tasks = {t1}
    Sockets = {s1, s2}
    AssignedTo <- MCAssignedTo
    MaxRetries = 2
    Removable = {}
    Cancellable = {}
    MaxRestarts = 0
    MaxFaults = 1
    None = None
INVARIANTS TypeOK RetryBounded InFlightIsTimed EntryServed
PROPERTIES ImplementsLedger
SYMMETRY Symmetry
CHECK_DEADLOCK FALSE
