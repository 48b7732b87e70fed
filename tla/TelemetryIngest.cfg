\* TelemetryIngest for TLC: a good and an undecodable message, each of which
\* may be delivered twice, so that a batch of two can fill.
CONSTANTS
    Msgs = {m1, bad}
    Undecodable = {bad}
    Workers = 2
    ChanCap = 1
    BatchSize = 2
    MaxAttempts = 2
    MaxDeliver = 2
    None = None
SPECIFICATION FairSpec
INVARIANTS
    IngestInv
PROPERTY Drains
CHECK_DEADLOCK FALSE
