CONSTANTS
    Users = {u1}
    Conns = {c1}
    Names = {n1}
    RoomIds = {0, 1}
    RoomTypes = {"SPLENDOR"}
    NONE = NONE
    DANGLING = DANGLING
SPECIFICATION Spec
PROPERTIES
    ClosedOnlyWhenDeserted
CHECK_DEADLOCK FALSE
