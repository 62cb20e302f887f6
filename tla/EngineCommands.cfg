\* Two producers, a queue that fills up and is longer than a batch, a clock
\* that can stand still and step back, and two crashes or I/O errors.
CONSTANTS
    Writers = {w1, w2}
    max_depth = 3
    limit = 2
    MaxTime = 1
    MaxPublish = 4
    MaxFaults = 2
SPECIFICATION Spec
INVARIANTS
    LiveTempSurvives
    DispatchedOnceInOrder
PROPERTIES
    ImplementsContract
    EveryCommandIsTaken
