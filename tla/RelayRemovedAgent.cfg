SPECIFICATION Spec
CONSTANTS
    a1 = a1
    Agents = {a1}
    Tasks = {t1}
    Sockets = {s1}
    AssignedTo <- MCAssignedTo
    MaxRetries = 2
    Removable = {a1}
    Cancellable = {}
    MaxRestarts = 0
    MaxFaults = 0
    None = None
INVARIANTS NothingLeftOnRemovedAgent
SYMMETRY Symmetry
CHECK_DEADLOCK FALSE
