\* CommandDelivery for TLC: channels of capacity one, so that every full
\* channel is reached, and one redelivery per command.
CONSTANTS
    Cmds = {k1}
    Conns = {c1, c2}
    None = None
    MaxDeliver = 2
    Embedded = TRUE
    ChanCap = 1
    Window = 1
    CmdCap = 1
    AckCap = 1
SPECIFICATION FairSpec
INVARIANTS
    DeliveryInv
PROPERTY StuckOnlyUndrained
CHECK_DEADLOCK FALSE
