\* Three connections of two users; queues of two actions and two responses.
SPECIFICATION FairSpec
CONSTANTS
    h1 = h1
    h2 = h2
    h3 = h3
    Hdls <- MCHdls
    Users = {1, 2}
    UserOf <- MCUserOf
    MaxActions = 2
    MaxResponses = 2
    NONE = NONE
INVARIANTS
    TypeOK
    MapsAgree
    NoMisdelivery
PROPERTY
    ClosedIsForgotten
CHECK_DEADLOCK FALSE
