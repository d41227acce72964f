\* Two users with three connections, two rooms, two kinds of game.
SPECIFICATION FairSpec
CONSTANTS
    Users = {u1, u2}
    Conns = {c1, c2, c3}
    Names = {n1, n2}
    RoomIds = {0, 1}
    RoomTypes = {"SPLENDOR", "GOMOKU"}
    NONE = NONE
    DANGLING = DANGLING
INVARIANTS
    TypeOK
    RegistryMatchesRooms
    OnlineSeatsAreOpen
    GameHasItsPlayers
PROPERTIES
    ImplementsRegistry
    DesertedRoomIsClosed
CHECK_DEADLOCK FALSE
