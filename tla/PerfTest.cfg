\* One process with one kind of loop; two callers, two loops on one file and one
\* change of the hour; see MCPerfTest for the other bounds.
SPECIFICATION MCSpec
CONSTANTS
    Names = {"app"}
    Kinds = {"cpu"}
    Cap <- TwoEach
    MaxConcurrent = 1
    Sustain = 1
    Cooldown = 1
    Bounds <- LongOrTroubled
    Callers = {"cli", "script"}
    Loops = {"l1", "l2"}
    LastHour = 1
    MaxRows = 3
    FlushBatch = 2
    MaxSigints = 2
    Whole = 3
    MaxPolls = 3
    TopTexts <- MCTopTexts
    Cores = 2
    Ticks = 3
    Processes = {"p", "q"}
    RunEnd = 4
    MaxEvents = 3
INVARIANTS
    OverrunBounded
    PoolSound
    PerfRunSound
    DumpsSound
    NumbersSound
PROPERTIES
    AlertsExactlyWhenDue
    PoolLive
