\* Saves of both rows in any order, two of them of the same row or crossed,
\* with commands that are not queued, not read or passed over, reads
\* that fail and engine restarts at any time.
CONSTANTS
    Identities = {c1, c2}
    RawDevices = {p1, p2}
    Fallback = p1
    Blank = none
    MaxSaves = 3
SPECIFICATION Spec
INVARIANTS
    QuietSlotsAreCurrent
    LiveSinkFollowsUncrossed
