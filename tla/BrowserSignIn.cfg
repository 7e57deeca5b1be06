\* Two requests at a time, two codes, two sessions.
CONSTANTS
    Slots = {r1, r2}
    PreAuths = {p1, p2}
    Challenges = {c1, c2}
    Sessions = {s1, s2}
    Emails = {e1}
    MaxFaults = 1
    None = None
SPECIFICATION Spec
CHECK_DEADLOCK FALSE
SYMMETRY Symmetry
INVARIANTS OneSessionPerPreAuth FailedSignInLeavesNothing LogoutEnds OpenCodeWasSent
