SPECIFICATION Spec
CONSTANTS
    Pids = {1, 2}
    Commands <- StartGet
    MaxRuns = 2
    MaxForeign = 0
CHECK_DEADLOCK FALSE
INVARIANTS
    GetHasDatabase
