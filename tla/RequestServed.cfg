\* All attempts, the last two delays capped or nearly so, and every class of status.
SPECIFICATION FairSpec
CONSTANTS
    MaxRetries = 3
    BaseDelay = 5
    MaxDelay = 30
    Statuses = {200, 302, 404, 429, 503}
    RetryAfters = {0, 7}
INVARIANTS
    TypeOK
    BodiesReleased
    RefusedEarly
    StatusTold
    AllAttemptsMade
PROPERTIES
    BackoffKept
    ContractKept
    Answered
CHECK_DEADLOCK FALSE
