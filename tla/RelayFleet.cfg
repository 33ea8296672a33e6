SPECIFICATION Spec
CONSTANTS
    a1 = a1
    Agents = {a1, a2}
    Tasks = {}
    Sockets = {s1, s2}
    AssignedTo <- MCAssignedTo
    MaxRetries = 2
    Removable = {a1}
    Cancellable = {}
    MaxRestarts = 1
    MaxFaults = 1
    None = None
INVARIANTS OnlineServed
PROPERTIES RemovedStaysOut
SYMMETRY Symmetry
CHECK_DEADLOCK FALSE
