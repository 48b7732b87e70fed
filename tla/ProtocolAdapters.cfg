\* ProtocolAdapters for TLC: two calls at a time, of the same type or not, of
\* a type the MAVLink dialect has (176, 400) or not, of the same key or not.
CONSTANTS
    Calls = {c1, c2}
    Types = {176, 400, 65712, 65936}
    Known = {176, 400}
    Fallback = 176
    None = None
    UnixCalls = {u1, u2}
    Clients = {k1}
    BroadcastCap = 1
    AckCap = 1
    MaxFrames = 3
    MaxCommands = 2
    MaxLength = 3
SPECIFICATION AdapterSpec
INVARIANTS
    MavlinkInv
    UnixInv
    UnixFramesIntactUnlessCut
PROPERTY EveryCommandReturns
CHECK_DEADLOCK FALSE
