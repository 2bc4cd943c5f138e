CONSTANTS
    MaxHeight <- MCMaxHeight
    QueueCap = 1
    Summaries <- MCSummaries
    DivergenceHeights <- MCDivergenceHeights
    TargetHeights <- MCTargetHeights
    NoTarget = NoTarget

SPECIFICATION Spec

CHECK_DEADLOCK FALSE

INVARIANT CertificationsAscending
