CONSTANTS
    Vehicles = {v1}
    Conns = {c1}
    NoConn = NoConn
    MaxConns = 1
    AgentStreams = {3}
SPECIFICATION RelayFairSpec
PROPERTY VehicleServed
CHECK_DEADLOCK FALSE
