SPECIFICATION Spec
CONSTANTS
    MaxThreads = 2
    MaxTasks = 2
INVARIANT RunWaits
CHECK_DEADLOCK FALSE
