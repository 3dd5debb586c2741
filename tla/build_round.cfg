\* One round, every fault: type, matching of answers, settling.
CONSTANTS
    p1 = p1
    p2 = p2
    r1 = r1
    r2 = r2
    Pages = {p1}
    Rounds = {r1}
    PageOf <- OneRound
    MaxOpen = 1
    Fstabs <- Lacking
    Wipes <- KeepData
    Installed <- Kinds
    Faults <- FaultKinds
SPECIFICATION Spec
\* Pages may all be closed, and nobody has to install anything.
CHECK_DEADLOCK FALSE
INVARIANTS
    TypeOK
    WaitingHasRequest
    SettledByAnswer
PROPERTY
    UnfailingKindsSettle
