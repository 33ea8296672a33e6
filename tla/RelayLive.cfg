SPECIFICATION FairSpec
CONSTANTS
    a1 = a1
    Agents = {a1}
    Tasks = {t1}
    Sockets = {s1}
    AssignedTo <- MCAssignedTo
    MaxRetries = 2
    Removable = {a1}
    Cancellable = {t1}
    MaxRestarts = 1
    MaxFaults = 0
    None = None
PROPERTIES NoLostInFlight InFlightEnds SilentPeerEvicted
CHECK_DEADLOCK FALSE
