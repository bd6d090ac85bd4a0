\* Every document of the small sets of MCIndexing.  An indexed or refused document stays so.
SPECIFICATION IndexSpec
CONSTANTS
    Supply <- MCSupply
    MaxPages = 2
    MaxText = 8
    MidPage = 306
    Nothing = "nothing"
    Target = 3
    MaxSize = 4
    Overlap = 2
    Limit = 5
CHECK_DEADLOCK FALSE
INVARIANTS TextCollected PathIsOutline ChunksCover ChunksBounded
