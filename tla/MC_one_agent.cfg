SPECIFICATION GatewaySpec
CONSTANTS
    MaxRateLimitRetries = 1
    Fallback = TRUE
    MaxStarts = 2
    MaxModelErrors = 2
    MaxProcs = 4
INVARIANT OneAgent
CHECK_DEADLOCK FALSE
