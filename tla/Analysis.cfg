\* An issue and an unsigned ExitInfo crash, up to four records together; two reports of
\* three incidents; three devices on two slots; two secrets and two exports;
\* two suites and one edit of the tree.
CONSTANTS
    e1 = e1
    e2 = e2
    Events = {e1, e2}
    Kind <- MCKind
    MaxRecords = 3
    Alike <- MCAlike
    Occurrences <- MCOccurrences
    MaxIncidents = 3
    Gaps = {996, 1004, 100000}
    MaxFound = 2
    Options <- MCOptions
    Devices = 3
    MaxParallel = 2
    DeviceTimeout = 2
    Grace = 1
    MaxExports = 2
    Suites = {"a", "b"}
    Nodes = {"n1", "n2"}
    MaxCommands = 2
    MaxEdits = 1
SPECIFICATION MCSpec
INVARIANTS
    ReportFaithful
    GroupsSound
    ComparisonSound
    VerdictSound
    MatrixComplete
    SecretsKept
    PlanRunSound
CHECK_DEADLOCK FALSE
