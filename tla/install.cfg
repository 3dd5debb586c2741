\* One phone, already running B2G, that the install restarts; every call may fail.
CONSTANTS
    Phones = {p1}
    MaxObjects = 4
    Supported = {p1}
    OptIn = TRUE
    Faults = {"call", "slow", "step", "flash"}
    Partitions = {"system", "data"}
    RequireRoot = {TRUE, FALSE}
    B2GPhones = {p1}
SPECIFICATION InstallSpec
\* An install may wait for ever for a call that was lost.
CHECK_DEADLOCK FALSE
INVARIANTS
    ReportsRight
    EveryImageTried
PROPERTIES
    DataKept
    SilentUnderway
    InstallEnds
