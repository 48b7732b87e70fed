\* The session of one tab: three tokens (so that a token is renewed and
\* renewed again), two requests, two page loads and one failure.
SPECIFICATION AuthFairSpec
CONSTANTS
    NoUser = NoUser
    MaxTokens = 3
    MaxCalls = 2
    MaxLoads = 2
    MaxFails = 1
INVARIANTS
    CallbackLandsOnce
    GoodSessionEndedByStaleOrRefused
    LogoutUndoneOnlyByRenewal
PROPERTIES
    ExpiredIsHandled
CHECK_DEADLOCK FALSE
