\* A Stereotool save crosses a Studio Monitor save.
CONSTANTS
    Identities = {c1, c2}
    RawDevices = {p1, p2}
    Fallback = p1
    Blank = none
    MaxSaves = 2
SPECIFICATION Spec
INVARIANT LiveSinkFollowsSaves
CHECK_DEADLOCK FALSE
