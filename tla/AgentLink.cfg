\* A ring of two slots, four items, two links and one restart of the agent.
CONSTANTS
    Slots = 2
    Window = 2
    InitialBackoff = 1
    MaxBackoff = 3
    Mixed = Mixed
    MaxItems = 4
    MaxPops = 4
    MaxLinks = 2
    MaxRuns = 2
SPECIFICATION FairSpec

    
PROPERTY RingMovesOn
CHECK_DEADLOCK FALSE
