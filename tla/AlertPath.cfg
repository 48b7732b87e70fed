\* AlertPath for TLC: one device, two messages.
CONSTANTS
    Vehicles = {v1}
    MaxMessages = 2
    CAPACITY = 2
    Undefined = Undefined
    MAX_ALERTS = 3
SPECIFICATION Spec
INVARIANT AlertsReachTheList
CHECK_DEADLOCK FALSE
