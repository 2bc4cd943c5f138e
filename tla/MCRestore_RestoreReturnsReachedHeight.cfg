CONSTANTS
    MaxHeight <- MCMaxHeight
    QueueCap = 1
    Summaries <- MCSummaries
    DivergenceHeights <- MCDivergenceHeights
    TargetHeights <- MCTargetHeights
    Versions <- MCVersions
    NoTarget = NoTarget

SPECIFICATION Spec

\* restore returns or panics: the process really stops.
CHECK_DEADLOCK FALSE

INVARIANT
    RestoreReturnsReachedHeight
