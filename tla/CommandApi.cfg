\* CommandApi for TLC: a gRPC session of two commands and a third one to a
\* vehicle outside the operator's set; two REST commands, two requests for
\* the same one or not; the codecs on every message over small domains.
CONSTANTS
    Cmds = {k1, k2, k3}
    Allowed = {k1, k2}
    SubCap = 2
    MaxAcks = 2
    None = None
    RestCmds = {p1, p2}
    Reqs = {r1, r2}
    RestAcks = 2
    Ids = {"a", "b"}
    Payloads = {"", "p"}
    Times = {0, 7}
SPECIFICATION ApiSpec
INVARIANTS
    SessionInv
    RestInv
    DecodedAs
PROPERTIES
    EveryCommandAnswered
    RestWaiterHears
CHECK_DEADLOCK FALSE
