\* The documents of MCIndexing.  A block is divided in which a sentence ends inside a word.
SPECIFICATION IndexSpec
CONSTANTS
    Supply <- MCSupply
    MaxPages = 2
    MaxText = 8
    MidPage = 306
    Nothing = "nothing"
    Target = 3
    MaxSize = 4
    Overlap = 2
    Limit = 5
CHECK_DEADLOCK FALSE
INVARIANT ChunkWithinMaximum
