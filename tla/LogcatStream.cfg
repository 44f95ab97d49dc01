\* Three lines, two of them with one timestamp; reconnects and stop() at any moment.
CONSTANTS
    None = None
    StaleTicks = 2
    QueueSize = 2
    MaxLines = 3
    Stamp <- MCStamp
    MaxTime = 3
    MaxSpawns = 2
SPECIFICATION FairSpec
INVARIANTS
    NoLineSkipped
    CoverageBeforeStop
PROPERTY StopEndsStream
CHECK_DEADLOCK FALSE
