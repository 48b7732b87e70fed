\* RelaySession for TLC: two vehicles, three connections, so that one vehicle
\* can reconnect while another takes the last place; each peer opens the three
\* streams of this repository's agent or the four the protocol documents.
CONSTANTS
    Vehicles = {v1, v2}
    Conns = {c1, c2, c3}
    NoConn = NoConn
    MaxConns = 2
    AgentStreams = {3, 4}
SPECIFICATION RelayFairSpec
INVARIANTS
    NoDeadSession
    HiddenOnlyByOverlapOrReap
PROPERTIES
    DeadSessionsLeave
CHECK_DEADLOCK FALSE
