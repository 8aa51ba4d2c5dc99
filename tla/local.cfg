SPECIFICATION LocalSpec
CONSTANTS
    Src <- Source
    Trees <- AllTrees
    LinkDest <- Snapshot
    Excluded <- Omitted
    Size <- Sizes
    Limits <- SmallOnly
    LiveTargets <- Live
    Suffixed <- Tilde
    TmpName <- Temporary
    LdName <- LdTemporary
    Commands <- GoodCommands
    Now = 9
    MaxRuns = 1
INVARIANT Mirror
INVARIANT OnlyCopies
INVARIANT BackedUp
INVARIANT LinksKept
CHECK_DEADLOCK FALSE
