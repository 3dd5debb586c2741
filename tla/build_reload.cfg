\* A failed round, a reload, a second round beside its leftovers.
CONSTANTS
    p1 = p1
    p2 = p2
    r1 = r1
    r2 = r2
    Pages = {p1, p2}
    Rounds = {r1, r2}
    PageOf <- Reload
    MaxOpen = 1
    Fstabs <- FirstFails
    Wipes <- KeepData
    Installed <- Kinds
    Faults = {}
SPECIFICATION Spec
\* Pages may all be closed, and nobody has to install anything.
CHECK_DEADLOCK FALSE
INVARIANTS
    SystemSound
    SilenceIsMixUp
    ServedWhenOpen
