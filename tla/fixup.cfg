\* Three groups of three inodes that become four; two interruptions.
CONSTANTS
    Groups = 3
    Supers = {0, 1}
    OldIpg = 3
    PerBlock = 4
    Tree <- MCTree
    Root <- MCRoot
    UsedInodes = 2
    MaxCrashes = 2
SPECIFICATION Spec
\* The program ends.
CHECK_DEADLOCK FALSE
INVARIANTS
    TypeOK
    EntriesResolve
    MountableIsSound
    FixedAsUninterrupted
PROPERTY
    Completes
