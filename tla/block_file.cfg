\* A file of at most 6 blocks, documents of one or two.
CONSTANTS
    None = None
    MaxBlock = 6
    Size = {1, 2}
SPECIFICATION Spec
CHECK_DEADLOCK FALSE
INVARIANTS
    FileInvariant
    EachBlockOnce
    WholeOnDisk
    FreeInOnePiece
