CONSTANTS
    None = None
    m1 = m1
    m2 = m2
    d1 = d1
    d2 = d2
    pa = pa
    pb = pb
    pc = pc
    Members = {m1, m2}
    Devices = {d1, d2}
    Projects = {pa, pb, pc}
    FirstProjects = {pa, pb}
    DevicesOf <- MCDevicesOf
    FirstClaims <- MCFirstClaims
    LaterClaims <- MCLaterClaims
    FirstAccess <- MCFirstAccess
    MaxTasks = 3
    MaxVisits = 2
    MaxFailures = 1
SPECIFICATION FairSpec
INVARIANTS
    ListShowsOwnWrites
    BusyWhileWriting
    KeyRevealed
    UnentitledOnlyAfterClaimsChange
PROPERTIES
    LoadsEnd
CHECK_DEADLOCK FALSE
