\* A running teardown with the queue of the deck slots full behind it, a
\* duplicate, and a generation that is retired again later.
CONSTANTS
    Generations = {g1, g2, g3}
    queue_capacity = 1
    MaxSubmits = 4
SPECIFICATION Spec
INVARIANTS
    AvailableIsQuiet
    Accounted
PROPERTIES
    ImplementsContract
    AcceptedEnds
    PoisonLeadsToRestart
