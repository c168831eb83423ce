\* One tick is half a second: the cache lives a second, and an answer may take as long.
SPECIFICATION Spec
CONSTANTS
    CacheTtl = 2
    MaxRtt = 2
    AgeCap = 3
    BuiltinErrors = TRUE
INVARIANTS TypeOK TripHolds StopNoticed
