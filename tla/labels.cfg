\* Files of two lines, three types, six paths; an edit while they are read.
CONSTANTS
    Disks <- MCDisks
    Missing = Missing
    Options <- MCOptions
    Keys <- MCKeys
    Types = {"any", "file", "dir"}
    Aliases <- MCAliases
    AnyType = "any"
    Slash = "//"
    NoLabel = "none"
    Star = "*"
    None = None
    MaxSpecs = 1000000
    MaxEdits = 1
SPECIFICATION Spec
INVARIANTS
    FileAnswersRight
    SkippedHasNoLabels
    PropertyAnswersRight
