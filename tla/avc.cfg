\* Two pairs for a pool of two nodes, three calls.
CONSTANTS
    s = s
    t = t
    Callers = {c1, c2}
    Keepers = {c1}
    Netlink = thread
    Modes = {"thread", "poll"}
    Contexts = {s, t}
    Asked <- MCAsked
    Made <- MCMade
    Perms = {"read"}
    Requests = {{"read"}}
    Nodes = 2
    Slots = 2
    Policy <- MCPolicy
    Permissive <- MCPermissive
    Label <- MCLabel
    Starts = {FALSE}
    QueueMax = 1
    MaxCalls = 3
    MaxSwitches = 1
    MaxFails = 1
    None = None
SPECIFICATION Spec
\* No more calls.
CHECK_DEADLOCK FALSE
INVARIANTS
    CacheSound
    AnswerNotStale
PROPERTY
    TakesEffect
