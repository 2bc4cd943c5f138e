CONSTANTS
    MaxHeight <- MCMaxHeight
    QueueCap = 1
    Summaries <- MCSummaries
    DivergenceHeights <- MCDivergenceHeights
    TargetHeights <- MCTargetHeights
    Versions <- MCVersions
    MaxRestarts = 2
    NoTarget = NoTarget

SPECIFICATION RestartSpec

\* Every process returns or panics; the reruns are bounded.
CHECK_DEADLOCK FALSE

INVARIANT
    GenesisRerunChecksEveryCup
