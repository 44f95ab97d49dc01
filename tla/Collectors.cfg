\* The pipeline with room for all events, two workers and a join that gives up;
\* two failures; three writers of log lines.
CONSTANTS
    e1 = e1
    e2 = e2
    e3 = e3
    java_crash = java_crash
    anr = anr
    Events = {e1, e2, e3}
    Types = {java_crash, anr}
    TypeOf <- MCTypeOf
    MaxIncidentsPerType = 2
    MaxQueueSize = 2
    MaxConcurrent = 2
    FilesPerIncident = 1
    JoinMayTimeOut = TRUE
    Scripts <- MCScripts
    MaxWriters = 3
    MaxUnparseableRun = 3
    Failures <- MCFailures
    Window = 10
    MaxReports = 3
    RetentionSec = 3
    MaxEntries = 3
    MaxBytes = 4
    PreSec = 1
    PostSec = 1
    LineSizes = {1, 3}
    MaxContextLines = 4
    MaxContextTime = 5
    OwnNames = {"main", "push"}
    LongNames = {"main"}
    Lookalikes = {"other"}
    MaxPid = 4
    MaxRows = 3
    GrowthThreshold = 2
    RecoveryMargin = 1
    MaxValue = 3
    MaxSamples = 3
    MaxRemaps = 1
SPECIFICATION MCSpec
SYMMETRY MCSymmetry
INVARIANTS
    JournalIsTrue
    CrashesParsed
    CrashesCounted
    SliceExplained
    WatchTruthful
    EpisodesReported
PROPERTY TerminalIsFinal
CHECK_DEADLOCK FALSE
