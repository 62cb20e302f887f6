\* One microphone; five faults cover two losses, a failed attempt, a repeated error
\* and a press of the PTT button.  No behaviour reaches MaxBins or MaxOps.
CONSTANTS
    MaxBins = 10
    MaxOps = 24
    MaxFaults = 5
SPECIFICATION MicSpec
INVARIANTS
    MicOkIsTrue
    MicCompletionNeverLost
PROPERTIES
    MicComesBackWhileProbed
