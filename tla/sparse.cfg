\* Images of four blocks, three calls, all the tools.
CONSTANTS
    BlockSize = 2
    LenWidth = 1024
    ReusesCells = TRUE
    ImageBlocks = 4
    MaxBlocks = 16
    Appendix = 1
    MaxAdds = 3
    FillVals = {7}
    Lens = {2, 3, 4}
    Sources <- MCSources
    RawImages <- MCRawImages
    MaxLens = {28, 30}
    CrcAsked = {FALSE, TRUE}
SPECIFICATION Spec
\* The tools end.
CHECK_DEADLOCK FALSE
INVARIANTS
    ListsSound
    
    SecondCutAgrees
    PartsFitButForGaps
PROPERTY
    ImageKept
