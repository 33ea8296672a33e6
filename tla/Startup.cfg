SPECIFICATION FairSpec
CONSTANTS
    Files = 2
    Length <- MCLength
    Repeatable = {1}
    Ancestors = {boot_o, boot_a, console}
    boot_o = boot_o
    boot_a = boot_a
    console = console
    Chain <- MCChain
    MaxDepth = 6
    MaxLaunches = 2
    MaxFaults = 1
INVARIANTS TypeOK SchemaBeforeService RecordedNotRerun
PROPERTIES OrphanExits StartSucceeds
CHECK_DEADLOCK FALSE
