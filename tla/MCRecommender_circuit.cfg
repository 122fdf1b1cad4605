SPECIFICATION FairSpec
CONSTANTS
    NoQuery = NoQuery
    Tasks = {t1, t2}
    Queries = {q1}
    failure_threshold = 3
    Attempts = 2
    SearchRaises = FALSE
    FallbackEnabled = TRUE
    MaxRequests = 5
    MaxFailures = 1
INVARIANT CircuitCounts
INVARIANT LateCallsBounded
 
PROPERTY RecommendEnds
CHECK_DEADLOCK FALSE
