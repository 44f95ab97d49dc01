\* The instance of PerfPool.cfg, and the claim a failed discovery refutes.
SPECIFICATION Spec
CONSTANTS
    Names = {"app"}
    Kinds = {"cpu"}
    Cap <- TwoEach
    MaxConcurrent = 1
    Sustain = 1
    Cooldown = 1
    Bounds <- LongOrTroubled
INVARIANT GoneMeansGone
