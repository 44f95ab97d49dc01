\* Two crashes under a cap of one, and a kill at any step; a session with a
\* dashboard and a Ctrl-C; four lines of log; five journal records.
CONSTANTS
    e1 = e1
    e2 = e2
    java_crash = java_crash
    Events = {e1, e2}
    Types = {java_crash}
    TypeOf <- MCTypeOf
    MaxIncidentsPerType = 1
    MaxQueueSize = 1
    MaxConcurrent = 1
    FilesPerIncident = 2
    JoinMayTimeOut = FALSE
    Unsigned = {e1}
    Dashboards = {"dashboard"}
    MaxInterrupts = 1
    CiMode = TRUE
    LogThreads = {"old", "new"}
    Hour = 2
    MaxFileLines = 2
    FlushEvery = 2
    Retention = 2
    MaxTicks = 5
    MaxLogLines = 4
    MaxLogKills = 1
    MaxAppends = 5
    MaxJournalKills = 2
SPECIFICATION MCSpec
INVARIANTS
    KillLosesNothing
    SessionSound
    LogKept
    JournalSurvives
PROPERTY SessionEnds
CHECK_DEADLOCK FALSE
