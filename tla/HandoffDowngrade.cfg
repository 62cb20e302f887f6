\* The supervisor dies after the acceptance is durable and before it is told of it.
CONSTANTS
    MaxAttempts = 3
    MaxCrashes = 1
    MaxFaults = 0
SPECIFICATION Spec
INVARIANT NoDowngradeAfterAcceptance
\* A finished job leaves the worker and the supervisor at rest.
CHECK_DEADLOCK FALSE
