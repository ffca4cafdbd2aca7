SPECIFICATION FairGatewaySpec
CONSTANTS
    MaxRateLimitRetries = 1
    Fallback = TRUE
    MaxStarts = 2
    MaxModelErrors = 2
    MaxProcs = 4
INVARIANTS GatewayTypeOK FinishedHasExited CompletedHasNoError RestartsBounded
PROPERTIES StartAgentReturns WaitersEnd
CHECK_DEADLOCK FALSE
