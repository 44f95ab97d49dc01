\* Does at most one of the runs get the lock?
CONSTANTS
    Runs = {r1, r2, r3}
    Recoverers = {}
    Ghost = Ghost
    None = None
    Unreadable = Unreadable
SPECIFICATION Spec
INVARIANT MutualExclusion
CHECK_DEADLOCK FALSE
