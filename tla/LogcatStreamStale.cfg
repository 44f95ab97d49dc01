\* Is a connection only killed after it was silent for stale_sec?
CONSTANTS
    None = None
    StaleTicks = 2
    QueueSize = 2
    MaxLines = 2
    Stamp <- MCStamp
    MaxTime = 4
    MaxSpawns = 2
SPECIFICATION Spec
PROPERTY StaleMeansSilent
CHECK_DEADLOCK FALSE
