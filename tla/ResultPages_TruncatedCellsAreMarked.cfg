SPECIFICATION PagesSpec
CONSTANTS
    PageRows = 3
    PageBytes = 4
    BatchRows = 4
    LongSize = 2
    BrowseLimit = 6
    ByteQuota = 9
CHECK_DEADLOCK FALSE
INVARIANTS
    TruncatedCellsAreMarked
