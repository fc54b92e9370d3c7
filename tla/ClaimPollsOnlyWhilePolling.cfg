CONSTANTS
    NULL = NULL
    MaxClicks = 1
    MaxFailures = 1
SPECIFICATION Spec
PROPERTY PollsOnlyWhilePolling
