SPECIFICATION FairSpec
CONSTANTS
    Requests = {q1, q2, q3, q4}
    MaxConcurrency = 2
    MinDelay = 2
    BackoffBase = 1
    MaxBackoff = 2
    MaxRetries = 1
    MaxRetryAfter = 3
    RetryAfters <- MCRetryAfters
INVARIANTS NoLostWakeup
    OneFetchAfterClose
PROPERTIES StartsSpaced EveryCallSettles ImplementsPool
CHECK_DEADLOCK FALSE
