\* Blocks of 64 bytes; groups of 16 blocks, of which 4 or 5, or 11 to 13, are header.
\* One group alone has 8 or 14 blocks of header, and with -i 12 two inodes left.
CONSTANTS
    BlockBytes = 64
    BlocksPerGroup = 16
    InodeBytes = 16
    DescBytes = 32
    Growth = 3
    ImageLens = {16, 37, 48, 55, 64, 69, 70, 71, 72, 73, 74, 75}
    InodeCounts = {12, 36}
    JournalLens = {0, 3}
    Entries <- MCEntries
    MaxEntries = 2
    MaxDepth = 2
    MaxInodes = 6
    LabelRoom = 4
    BlockRoom = 16
    LabelSize = 3
    CapSize = 2
    U32 = 65536
SPECIFICATION Spec
\* The program ends.
CHECK_DEADLOCK FALSE
INVARIANTS
    AccountsRight
    FilesReadBack
    QueuedOnce
    DirectoriesTile
    TreeOrReason
