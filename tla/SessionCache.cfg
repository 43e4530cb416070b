\* In units of 100 seconds, see MCSessionCache.
CONSTANTS
    Short = c1
    Long = c2
    Clients = {c1, c2}
    SessionLife = 9
    CacheLife = 6
    Latency = 1
    HoldTime <- ShortAndLong
    MaxTime = 20
SPECIFICATION Spec
INVARIANTS
    SessionHasBuffer
    NoTerminatedSession
