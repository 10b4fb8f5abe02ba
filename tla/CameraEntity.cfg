CONSTANTS
    q1 = q1
    q2 = q2
    Requests = {q1, q2}
SPECIFICATION FairSpec
INVARIANTS
    WakingIsWatched
PROPERTIES
    StreamingIsPublished
CHECK_DEADLOCK FALSE
