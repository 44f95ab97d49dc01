\* Two crashes and an ANR, a cap of one per type, one queue slot, one worker;
\* dumps may hang: only the dispatching threads and stop() are fair.
\* Three threads share two adb slots.
CONSTANTS
    e1 = e1
    e2 = e2
    e3 = e3
    java_crash = java_crash
    anr = anr
    Events = {e1, e2, e3}
    Types = {java_crash, anr}
    TypeOf <- MCTypeOf
    MaxIncidentsPerType = 1
    MaxQueueSize = 1
    MaxConcurrent = 1
    FilesPerIncident = 2
    JoinMayTimeOut = FALSE
    AdbThreads = {"sampler", "watcher", "dump"}
    Concurrency = 2
    MaxRetries = 1
    MaxCalls = 5
SPECIFICATION MCSpec
INVARIANTS
    LimitsKept
    TypeOK
    StopLeavesNothing
PROPERTIES
    ImplementsLedger
    StopSettles
    AdbServes
CHECK_DEADLOCK FALSE
