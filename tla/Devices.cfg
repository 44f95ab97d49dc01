\* Three of three runs and a recovery on one directory; an outage met by three polls; two
\* writes to the trace directory; two exits within three units of time.
CONSTANTS
    Runs = {r1, r2, r3}
    Recoverers = {v1}
    Ghost = Ghost
    None = None
    Unreadable = Unreadable
    MaxOutages = 1
    MaxPolls = 3
    GapPolicies = {"wait-and-resume", "fail-fast"}
    Incidents <- MCIncidents
    Traces <- MCTraces
    DumpFiles = {1, 2}
    ZoneShift = 200
    EveryN = 2
    MaxWrites = 2
    Zones <- MCZones
    Reasons = {"APP CRASH(NATIVE)", "OTHER, cached"}
    MaxExitTime = 3
    MaxExits = 2
SPECIFICATION MCSpec
SYMMETRY MCSymmetry
INVARIANTS
    OneWinner
    NoFalseRefusal
    ReadersFollowDevice
    EvidenceSound
    RecordsOfTheRun
CHECK_DEADLOCK FALSE
