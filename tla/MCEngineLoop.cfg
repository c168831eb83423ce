\* One tick is half a second: the cache lives a second, an answer may take as long.
SPECIFICATION LiveSpec
CONSTANTS
    CacheTtl = 2
    MaxRtt = 2
    AgeCap = 3
    BuiltinErrors = FALSE
    MaxAttempts = 2
PROPERTIES DispatchNoticesStop StopTakesHold Resumes
