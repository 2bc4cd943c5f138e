CONSTANTS
    Keys = {k1, k2}
    MaxVersion = 3

SPECIFICATION Spec

INVARIANTS
    TypeOK
    StoreIsCanisterPrefix
    ChangelogMatchesReference
