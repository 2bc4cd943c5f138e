CONSTANTS
    MaxHeight <- MCMaxHeight
    QueueCap = 1
    Summaries <- MCSummaries
    DivergenceHeights <- MCDivergenceHeights
    TargetHeights <- MCTargetHeights
    NoTarget = NoTarget

SPECIFICATION Spec

\* replay returns or panics: the process really stops.
CHECK_DEADLOCK FALSE

INVARIANT
    ExtraBatchBeyondFinalized
