SPECIFICATION LocalSpec
CONSTANTS
    Src <- Source
    Trees <- AllTrees
    LinkDest <- Snapshot
    Excluded <- Omitted
    Size <- Sizes
    Limits <- SmallOnly
    LiveTargets <- Live
    Suffixed <- Tilde
    TmpName <- Temporary
    LdName <- LdTemporary
    Commands <- DirectoryItself
    Now = 9
    MaxRuns = 1
INVARIANT DeletesOnlyAbsent
CHECK_DEADLOCK FALSE
