\* The code's own delays, in fifths of a second.
SPECIFICATION Spec
CONSTANTS
    MaxRetries = 3
    BaseDelay = 5
    MaxDelay = 150
    Statuses = {200, 429}
    RetryAfters = {0}
INVARIANTS
    BackoffAsStated
CHECK_DEADLOCK FALSE
