\* Four operations: a hung one, one superseded while resolving, one
\* coalesced upon and one after an operator's retry.
CONSTANT MaxOps = 4
SPECIFICATION Spec
INVARIANTS
    OneLiveOperation
    OkIsEarned
    RestartIffAbandoned
PROPERTIES
    FiledResultsAreFinal
    RecoveryEnds
