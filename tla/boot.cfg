\* Pages and files of both kinds of remainders; two changes of the tree.
CONSTANTS
    Default = Default
    Names = {0, 1, 2, 3, 4}
    Skipped = {0}
    TrailerName = 9
    Trees <- MCTrees
    Configs <- MCConfigs
    BuiltIn = Default
    NameLen = 4
    MaxChanges = 2
    None = None
    Old = Old
    PageSizes = {512, 2048, 4096}
    KernelSizes = {None, 4096, 5000}
    RamdiskSizes = {0, 3000}
    SecondSizes = {None, 3000, 5000}
    DtSizes = {None, 10}
    HeaderSize = 608
    Rooms = {TRUE, FALSE}
SPECIFICATION Spec
\* The programs end.
CHECK_DEADLOCK FALSE
INVARIANTS
    ArchiveSound
    LoaderFinds
    NoPartOfImage
