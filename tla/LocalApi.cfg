SPECIFICATION FairSpec
CONSTANTS
    Requests = {1, 2}
    Cost = 1
    Full = 2
    TTL = 2
    MaxTime = 2
INVARIANTS NoLostWakeup RateBound
PROPERTIES StaysOn
