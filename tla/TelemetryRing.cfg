\* TelemetryRing for TLC: a ring of two slots and enough pushes to go round
\* it twice while one pop is under way.
CONSTANTS
    NumSlots = 2
    MaxPush = 5
    MaxDrops = 1
SPECIFICATION FairSpec
INVARIANTS
    LagBound
    ReadsOwnSlot
PROPERTIES
    ImplementsContract
    Drains
CHECK_DEADLOCK FALSE
