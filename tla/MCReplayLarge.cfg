CONSTANTS
    MaxHeight <- MCMaxHeight
    QueueCap = 2
    Summaries <- MCSummaries
    DivergenceHeights <- MCDivergenceHeights
    TargetHeights <- MCTargetHeights
    NoTarget = NoTarget

SPECIFICATION Spec

\* A larger instance of the replay run (see MCReplayLarge).
\* replay returns or panics: the process really stops.
CHECK_DEADLOCK FALSE

INVARIANTS
    ReplayDetectsDivergence
    PanicsHaveExternalCause
    PruneOnlyCommitted

PROPERTIES
    ReplayImplementsContract
