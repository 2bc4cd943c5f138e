CONSTANTS
    MaxHeight <- MCMaxHeight
    QueueCap = 2
    Summaries <- MCSummaries
    DivergenceHeights <- MCDivergenceHeights
    TargetHeights <- MCTargetHeights
    Versions <- MCVersions
    NoTarget = NoTarget

SPECIFICATION Spec

\* A larger instance of the restore run (see MCRestoreLarge).
\* restore returns or panics: the process really stops.
CHECK_DEADLOCK FALSE

INVARIANTS
    PurgeOnlyAtAgreedCup
    RestorePanicsHaveExternalCause
    RestoreOkAgreesWithCups

PROPERTIES
    RestoreImplementsContract
