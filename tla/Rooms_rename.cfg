\* One user plays alone, another takes his name and his seat: two users with a
\* connection each, a third name, two rooms for one or two.
CONSTANTS
    Users = {u1, u2}
    Conns = {c1, c2}
    Names = {n1, n2, n3}
    RoomIds = {0, 1}
    RoomTypes = {"GOMOKU"}
    NONE = NONE
    DANGLING = DANGLING
SPECIFICATION SpecWithRenames
PROPERTIES
    RosterFrozen
CHECK_DEADLOCK FALSE
