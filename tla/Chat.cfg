\* Two users, three messages within two seconds, pages of one message.
SPECIFICATION FairSpec
CONSTANTS
    Users = {u1, u2}
    Readers = {p1}
    PageSize = 1
    MaxMessages = 3
    MaxTime = 2
    IDLE = IDLE
INVARIANTS
    TypeOK
    KeptExactlyOnce
    IndexMatchesCache
    HistoryHasNoGaps
PROPERTIES
    CachedIsWritten
CHECK_DEADLOCK FALSE
