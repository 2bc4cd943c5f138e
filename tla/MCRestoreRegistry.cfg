CONSTANTS
    MaxHeight <- MCMaxHeight
    QueueCap = 1
    Summaries <- MCSummaries
    DivergenceHeights <- MCDivergenceHeights
    TargetHeights <- MCTargetHeights
    Versions <- MCVersions
    Keys <- MCKeys
    CanisterHistory <- MCCanisterHistory
    NoTarget = NoTarget
    k1 = k1
    k2 = k2

SPECIFICATION ComposedSpec

\* restore returns or panics: the process really stops.
CHECK_DEADLOCK FALSE

INVARIANT ComposedTypeOK

PROPERTY ComposedImplementsRestore
