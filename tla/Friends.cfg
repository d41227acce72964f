\* Two users, two workers of the HTTP server, up to two unread messages a pair.
SPECIFICATION FairSpec
CONSTANTS
    Users = {u1, u2}
    Workers = {w1, w2}
    MaxUnread = 2
    LOOP = LOOP
    WRITER = WRITER
    NOBODY = NOBODY
INVARIANTS
    TypeOK
    FriendshipIsMutual
PROPERTIES
    UnreadNeverJumps
    ReadingClears
    EveryListReturns
