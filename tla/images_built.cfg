\* Are all images built when imageStep() resolves?
CONSTANTS
    p1 = p1
    p2 = p2
    r1 = r1
    r2 = r2
    Pages = {p1}
    Rounds = {r1}
    PageOf <- OneRound
    MaxOpen = 1
    Fstabs <- Complete
    Wipes <- WipeData
    Installed <- Kinds
    Faults = {}
SPECIFICATION Spec
\* Pages may all be closed, and nobody has to install anything.
CHECK_DEADLOCK FALSE
INVARIANT
    ImagesBuilt
