\* Two phones plugged and unplugged, one of them supported.
CONSTANTS
    Phones = {p1, p2}
    MaxObjects = 2
    Supported = {p1}
    OptIn = TRUE
    Faults = {"unplug", "offline"}
SPECIFICATION Spec
\* Nobody has to plug anything in.
CHECK_DEADLOCK FALSE
INVARIANTS
    TypeOK
    HandedOutIsRegistered
    TooManyShown
PROPERTY
    ReadyIsSelectable
