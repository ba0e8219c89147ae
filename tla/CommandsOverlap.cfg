SPECIFICATION Spec
CONSTANTS
    Pids = {1, 2, 3}
    Commands <- AllCommands
    MaxRuns = 4
    MaxForeign = 1
CHECK_DEADLOCK FALSE
INVARIANTS
    LifecycleTypeOK
    OneUsesTheDatabase
    NoOtherIsNamed
