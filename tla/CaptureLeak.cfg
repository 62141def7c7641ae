\* With CaptureDir set, one attempt is enough.
SPECIFICATION Spec
CONSTANTS
    MaxRetries = 0
    BaseDelay = 5
    MaxDelay = 30
    Statuses = {200, 404}
    RetryAfters = {0}
INVARIANTS
    CaptureReleased
CHECK_DEADLOCK FALSE
