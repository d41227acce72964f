------------------------------ MODULE RoomManager ------------------------------
(***************************************************************************)
(* The rooms of the server: class RoomManager, class Room, and the part of *)
(* class WsServer that ties a connection to a user.                        *)
(*                                                                         *)
(* Three threads act here.  The processor (WsServer::process_message) runs *)
(* one handler at a time; a handler holds rooms_mutex, so it is one action.*)
(* The sweeper (RoomManager::check_empty_rooms) looks at a room WITHOUT    *)
(* the mutex and takes it only to erase the room, so looking and erasing   *)
(* are two actions.  The HTTP thread may rename a user at any time.        *)
(*                                                                         *)
(* A message that a handler refuses changes nothing and is no action.      *)
(***************************************************************************)
EXTENDS Naturals, FiniteSets

CONSTANTS
    Users,      \* user ids
    Conns,      \* connection ids; process_message never hands one out twice
    Names,      \* user names
    RoomIds,    \* room ids a client may ask for; 0 also means "no room"
    RoomTypes,  \* the kinds of room in use
    NONE,       \* an absent entry of a map
    DANGLING    \* the sweeper's iterator after its room was freed

VARIABLES
    alive,              \* FALSE once undefined behaviour killed the process
    user_name,          \* the user table: the current name of each user
    clients,            \* WsServer::connections: user and name at AUTHORIZE
    open,               \* connections not yet unsubscribed
    rooms,              \* keys of RoomManager::rooms
    room_type,          \* get_type() of each room
    is_game_on,         \* Room::is_game_on
    authorized_user_id, \* Room::authorized_user_id
    connections,        \* Room::connections
    user_2_room_id,     \* Room::user_2_room_id
    iterator            \* room the sweeper found empty and is about to erase

netVars  == <<user_name, clients, open>>
roomVars == <<rooms, room_type, is_game_on, authorized_user_id, connections>>
vars     == <<alive, netVars, roomVars, user_2_room_id, iterator>>

--------------------------------------------------------------------------------
Client   == [user_id : Users, user_name : Names]
UserInfo == [user_id : Users, user_name : Names,
             offline : BOOLEAN, prepared : BOOLEAN]

ASSUME RoomAssumption ==
    /\ IsFiniteSet(Conns)
    /\ RoomIds \subseteq Nat /\ 0 \in RoomIds
    /\ RoomTypes \subseteq {"UNO", "SPLENDOR", "GOMOKU"}
    /\ {NONE, DANGLING} \cap Nat = {} /\ NONE # DANGLING
    /\ NONE \notin Client \cup UserInfo

\* A room that exists can be told from one that does not by its kind.
ASSUME KindAssumption == NONE \notin RoomTypes

NoSeats == [c \in Conns |-> NONE]

\* The head counts with which on_everyone_prepared of each room starts a game.
PlayerRange == [UNO |-> 3..10, SPLENDOR |-> 2..4, GOMOKU |-> 1..2]

\* Keys of a connections map, and the users sitting at them.
Seated(seats)     == {c \in Conns : seats[c] # NONE}
SeatedUsers(seats) == {seats[c].user_id : c \in Seated(seats)}

have_no_one_online(seats) == \A c \in Seated(seats) : seats[c].offline

\* The room a user's messages are sent to: 0 when the user is in none.
get_users_room_id(u) == IF user_2_room_id[u] = NONE THEN 0 ELSE user_2_room_id[u]

--------------------------------------------------------------------------------
Init ==
    /\ alive = TRUE
    /\ user_name \in {f \in [Users -> Names] :
                        \A u, v \in Users : f[u] = f[v] => u = v}
    /\ clients = NoSeats
    /\ open = {}
    /\ rooms = {}
    /\ room_type = [r \in RoomIds |-> NONE]
    /\ is_game_on = [r \in RoomIds |-> FALSE]
    /\ authorized_user_id = [r \in RoomIds |-> {}]
    /\ connections = [r \in RoomIds |-> NoSeats]
    /\ user_2_room_id = [u \in Users |-> NONE]
    /\ iterator = NONE

\* HTTP /set-name: the name must be free; open connections keep the old one.
SetUserName(u, n) ==
    /\ \A v \in Users : user_name[v] # n
    /\ user_name' = [user_name EXCEPT ![u] = n]
    /\ UNCHANGED <<alive, clients, open, roomVars, user_2_room_id, iterator>>

\* AUTHORIZE with a valid session: the connection gets the next conn_id.
Authorize(c, u) ==
    /\ clients[c] = NONE
    /\ clients' = [clients EXCEPT ![c] = [user_id |-> u, user_name |-> user_name[u]]]
    /\ open' = open \cup {c}
    /\ UNCHANGED <<alive, user_name, roomVars, user_2_room_id, iterator>>

\* CREATE_ROOM with a free id.  The creator is authorized but not seated.
CreateRoom(c, r, t) ==
    /\ c \in open
    /\ r \notin rooms
    /\ rooms' = rooms \cup {r}
    /\ room_type' = [room_type EXCEPT ![r] = t]
    /\ authorized_user_id' = [authorized_user_id EXCEPT ![r] = {clients[c].user_id}]
    /\ UNCHANGED <<alive, netVars, is_game_on, connections, user_2_room_id, iterator>>

--------------------------------------------------------------------------------
\* A join may carry no password ("none"), the room's, or another one.
PasswordAccepted(r, u, password) ==
    \/ password = "right"
    \/ password = "none" /\ u \in authorized_user_id[r]

\* The tail of JOIN_ROOM: the seats left after any old one was erased get c.
TakeSeat(c, r, seats) ==
    LET u == clients[c].user_id
    IN  /\ connections' = [connections EXCEPT ![r] =
                [seats EXCEPT ![c] = [user_id   |-> u,
                                      user_name |-> clients[c].user_name,
                                      offline   |-> FALSE,
                                      prepared  |-> FALSE]]]
        /\ authorized_user_id' = [authorized_user_id EXCEPT ![r] = @ \cup {u}]
        /\ user_2_room_id' = [user_2_room_id EXCEPT ![u] = r]
        /\ UNCHANGED <<alive, netVars, rooms, room_type, is_game_on, iterator>>

\* Mutant: the test of is_game_on is dropped.
JoinRoom_DuringGame(c, r, password) ==
    /\ c \in open
    /\ r \in rooms
    /\ user_2_room_id[clients[c].user_id] = NONE
    /\ PasswordAccepted(r, clients[c].user_id, password)
    /\ TakeSeat(c, r, connections[r])

\* JOIN_ROOM while no game is on: only a user who is in no room.
JoinRoom(c, r, password) ==
    /\ c \in open
    /\ r \in rooms
    /\ ~is_game_on[r]
    /\ user_2_room_id[clients[c].user_id] = NONE
    /\ PasswordAccepted(r, clients[c].user_id, password)
    /\ TakeSeat(c, r, connections[r])

\* Mutant: the old connection is not erased.
RejoinRoom_KeepsOldSeat(c, r, old, password) ==
    /\ c \in open
    /\ r \in rooms
    /\ is_game_on[r]
    /\ old \in Seated(connections[r])
    /\ connections[r][old].user_name = clients[c].user_name
    /\ PasswordAccepted(r, clients[c].user_id, password)
    /\ TakeSeat(c, r, connections[r])

\* JOIN_ROOM while a game is on: the seat old, found by USER NAME, is replaced.
RejoinRoom(c, r, old, password) ==
    /\ c \in open
    /\ r \in rooms
    /\ is_game_on[r]
    /\ old \in Seated(connections[r])
    /\ connections[r][old].user_name = clients[c].user_name
    /\ PasswordAccepted(r, clients[c].user_id, password)
    /\ TakeSeat(c, r, [connections[r] EXCEPT ![old] = NONE])

--------------------------------------------------------------------------------
\* The handler of GAME_PREPARE from c: the room, and its seats once c's flag is
\* set; it is not asked whether a game is on.
PrepareRoom(c) == get_users_room_id(clients[c].user_id)
Prepared(c, prepare) == [connections[PrepareRoom(c)] EXCEPT ![c].prepared = prepare]

CanPrepare(c) ==
    /\ c \in open
    /\ PrepareRoom(c) \in rooms
    /\ c \in Seated(connections[PrepareRoom(c)])

\* The condition under which on_everyone_prepared runs and starts a game.
StartsGame(r, seats) ==
    /\ \A s \in Seated(seats) : seats[s].prepared
    /\ Cardinality(Seated(seats)) \in PlayerRange[room_type[r]]

GamePrepare(c, prepare) ==
    /\ CanPrepare(c)
    /\ ~StartsGame(PrepareRoom(c), Prepared(c, prepare))
    /\ connections' = [connections EXCEPT ![PrepareRoom(c)] = Prepared(c, prepare)]
    /\ UNCHANGED <<alive, netVars, rooms, room_type, is_game_on,
                   authorized_user_id, user_2_room_id, iterator>>

GamePrepareAndStart(c, prepare) ==
    LET r     == PrepareRoom(c)
        seats == Prepared(c, prepare)
    IN  /\ CanPrepare(c)
        /\ StartsGame(r, seats)
        /\ is_game_on' = [is_game_on EXCEPT ![r] = TRUE]
        /\ connections' = [connections EXCEPT ![r] =
                [s \in Conns |-> IF s \in Seated(seats)
                                 THEN [seats[s] EXCEPT !.prepared = FALSE]
                                 ELSE NONE]]
        /\ UNCHANGED <<alive, netVars, rooms, room_type,
                       authorized_user_id, user_2_room_id, iterator>>

\* A game reports its end: a handler of UnoRoom or SplendorRoom, or the
\* detached thread of GomokuRoom.  Seats that are offline stay where they are.
GameOver(r) ==
    /\ r \in rooms
    /\ is_game_on[r]
    /\ is_game_on' = [is_game_on EXCEPT ![r] = FALSE]
    /\ UNCHANGED <<alive, netVars, rooms, room_type, authorized_user_id,
                   connections, user_2_room_id, iterator>>

--------------------------------------------------------------------------------
\* Mutant: ~Room does not clear the registry.
EraseRoom_KeepsRegistry(r, seats, registry) ==
    /\ rooms' = rooms \ {r}
    /\ room_type' = [room_type EXCEPT ![r] = NONE]
    /\ is_game_on' = [is_game_on EXCEPT ![r] = FALSE]
    /\ authorized_user_id' = [authorized_user_id EXCEPT ![r] = {}]
    /\ connections' = [connections EXCEPT ![r] = NoSeats]
    /\ user_2_room_id' = registry

\* rooms.erase(r) and ~Room: the users at seats leave the registry.  A sweeper
\* that was holding an iterator to r now holds a dangling one.
EraseRoom(r, seats, registry) ==
    /\ rooms' = rooms \ {r}
    /\ room_type' = [room_type EXCEPT ![r] = NONE]
    /\ is_game_on' = [is_game_on EXCEPT ![r] = FALSE]
    /\ authorized_user_id' = [authorized_user_id EXCEPT ![r] = {}]
    /\ connections' = [connections EXCEPT ![r] = NoSeats]
    /\ user_2_room_id' = [u \in Users |-> IF u \in SeatedUsers(seats)
                                          THEN NONE ELSE registry[u]]

Unsubscribe(c) ==
    /\ c \in open
    /\ open' = open \ {c}
    /\ UNCHANGED <<alive, user_name, clients>>

\* Mutants: the seat is not marked; a seat is made up for a connection that
\* has none (operator[] on a map inserts a default entry).
CloseDuringGame_StaysOnline(c) ==
    LET r == get_users_room_id(clients[c].user_id)
    IN  /\ Unsubscribe(c)
        /\ r \in rooms
        /\ is_game_on[r]
        /\ c \in Seated(connections[r])
        /\ UNCHANGED <<roomVars, user_2_room_id, iterator>>

CloseDuringGame_InsertsSeat(c) ==
    LET r == get_users_room_id(clients[c].user_id)
    IN  /\ Unsubscribe(c)
        /\ r \in rooms
        /\ is_game_on[r]
        /\ connections' = [connections EXCEPT ![r][c] =
                IF c \in Seated(connections[r])
                THEN [@ EXCEPT !.offline = TRUE]
                ELSE [user_id |-> NONE, user_name |-> NONE,
                      offline |-> TRUE, prepared |-> FALSE]]
        /\ UNCHANGED <<rooms, room_type, is_game_on, authorized_user_id,
                       user_2_room_id, iterator>>

\* UNSUBSCRIBE during a game: the seat is kept and marked offline.
CloseDuringGame(c) ==
    LET r == get_users_room_id(clients[c].user_id)
    IN  /\ Unsubscribe(c)
        /\ r \in rooms
        /\ is_game_on[r]
        /\ c \in Seated(connections[r])
        /\ connections' = [connections EXCEPT ![r][c].offline = TRUE]
        /\ UNCHANGED <<rooms, room_type, is_game_on, authorized_user_id,
                       user_2_room_id, iterator>>

\* The state of room r once c has left it outside a game (c may have no seat).
SeatsAfter(c, r) == [connections[r] EXCEPT ![c] = NONE]
RegistryAfter(c, r) ==
    IF c \in Seated(connections[r])
    THEN [user_2_room_id EXCEPT ![connections[r][c].user_id] = NONE]
    ELSE user_2_room_id

\* UNSUBSCRIBE outside a game, somebody else being online in the room.
CloseAndLeave(c) ==
    LET r == get_users_room_id(clients[c].user_id)
    IN  /\ Unsubscribe(c)
        /\ r \in rooms
        /\ ~is_game_on[r]
        /\ ~have_no_one_online(SeatsAfter(c, r))
        /\ connections' = [connections EXCEPT ![r] = SeatsAfter(c, r)]
        /\ user_2_room_id' = RegistryAfter(c, r)
        /\ UNCHANGED <<rooms, room_type, is_game_on, authorized_user_id, iterator>>

\* UNSUBSCRIBE outside a game, nobody being online afterwards: the room closes.
CloseAndErase(c) ==
    LET r == get_users_room_id(clients[c].user_id)
    IN  /\ Unsubscribe(c)
        /\ r \in rooms
        /\ ~is_game_on[r]
        /\ have_no_one_online(SeatsAfter(c, r))
        /\ EraseRoom(r, SeatsAfter(c, r), RegistryAfter(c, r))
        /\ iterator' = IF iterator = r THEN DANGLING ELSE iterator

\* UNSUBSCRIBE of a connection that holds no seat in the room it is looked up
\* in, while a game is on there or there is no such room.
CloseElsewhere(c) ==
    LET r == get_users_room_id(clients[c].user_id)
    IN  /\ Unsubscribe(c)
        /\ \/ r \notin rooms
           \/ is_game_on[r] /\ c \notin Seated(connections[r])
        /\ UNCHANGED <<roomVars, user_2_room_id, iterator>>

Close(c) ==
    \/ CloseDuringGame(c)
    \/ CloseAndLeave(c)
    \/ CloseAndErase(c)
    \/ CloseElsewhere(c)

--------------------------------------------------------------------------------
\* Mutant: rooms with a game on are passed over.
SweepCheck_NotDuringGame(r) ==
    /\ iterator = NONE
    /\ r \in rooms
    /\ ~is_game_on[r]
    /\ have_no_one_online(connections[r])
    /\ iterator' = r
    /\ UNCHANGED <<alive, netVars, roomVars, user_2_room_id>>

\* check_empty_rooms, the test: rooms_mutex is not held.
SweepCheck(r) ==
    /\ iterator = NONE
    /\ r \in rooms
    /\ have_no_one_online(connections[r])
    /\ iterator' = r
    /\ UNCHANGED <<alive, netVars, roomVars, user_2_room_id>>

\* check_empty_rooms, the erasure: under rooms_mutex, without testing again.
SweepErase ==
    /\ iterator \in RoomIds
    /\ EraseRoom(iterator, connections[iterator], user_2_room_id)
    /\ iterator' = NONE
    /\ UNCHANGED <<alive, netVars>>

\* Erasing through an iterator whose room is gone: a double free.
SweepDangling ==
    /\ iterator = DANGLING
    /\ alive' = FALSE
    /\ UNCHANGED <<netVars, roomVars, user_2_room_id, iterator>>

--------------------------------------------------------------------------------
Handler ==
    \/ \E c \in Conns, u \in Users : Authorize(c, u)
    \/ \E c \in Conns, r \in RoomIds, t \in RoomTypes : CreateRoom(c, r, t)
    \/ \E c \in Conns, r \in RoomIds, password \in {"none", "right", "wrong"} :
          \/ JoinRoom(c, r, password)
          \/ \E old \in Conns : RejoinRoom(c, r, old, password)
    \/ \E c \in Conns, prepare \in BOOLEAN :
          GamePrepare(c, prepare) \/ GamePrepareAndStart(c, prepare)
    \/ \E r \in RoomIds : GameOver(r)
    \/ \E c \in Conns : Close(c)

Sweeper ==
    \/ \E r \in RoomIds : SweepCheck(r)
    \/ SweepErase
    \/ SweepDangling

\* Every thread but the HTTP server's: nobody changes name.
Next == alive /\ (Handler \/ Sweeper)

NextWithRenames ==
    \/ Next
    \/ alive /\ \E u \in Users, n \in Names : SetUserName(u, n)

Spec            == Init /\ [][Next]_vars
SpecWithRenames == Init /\ [][NextWithRenames]_vars

\* The sweeper's loop never ends and every pass visits every room there is.
SweeperFairness ==
    /\ \A r \in RoomIds : SF_vars(alive /\ SweepCheck(r))
    /\ WF_vars(alive /\ SweepErase)
    /\ WF_vars(alive /\ SweepDangling)

FairSpec == Spec /\ SweeperFairness

--------------------------------------------------------------------------------
(* Properties *)

TypeOK ==
    /\ alive \in BOOLEAN
    /\ user_name \in [Users -> Names]
    /\ clients \in [Conns -> Client \cup {NONE}]
    /\ open \in SUBSET Conns
    /\ rooms \in SUBSET RoomIds
    /\ room_type \in [RoomIds -> RoomTypes \cup {NONE}]
    /\ is_game_on \in [RoomIds -> BOOLEAN]
    /\ authorized_user_id \in [RoomIds -> SUBSET Users]
    /\ connections \in [RoomIds -> [Conns -> UserInfo \cup {NONE}]]
    /\ user_2_room_id \in [Users -> RoomIds \cup {NONE}]
    /\ iterator \in RoomIds \cup {NONE, DANGLING}

Seats(r) == Seated(connections[r])

\* A connection sits in a room only if the registry sends its user to that room.
SeatIsRegistered ==
    \A r \in RoomIds : \A c \in Seats(r) :
        /\ r \in rooms
        /\ user_2_room_id[connections[r][c].user_id] = r

\* Nobody is registered in a room without a seat there: such a user could
\* join no room until the server restarts.
RegisteredIsSeated ==
    \A u \in Users : user_2_room_id[u] # NONE =>
        u \in SeatedUsers(connections[user_2_room_id[u]])

\* A user has one seat, whatever the number of connections (browser tabs).
OneSeatPerUser ==
    \A r \in RoomIds : \A c, d \in Seats(r) :
        connections[r][c].user_id = connections[r][d].user_id => c = d

\* The static registry and the rooms' own maps tell one story, across joins,
\* reconnections during a game, departures, and the sweeper's erasures.
RegistryMatchesRooms ==
    SeatIsRegistered /\ RegisteredIsSeated /\ OneSeatPerUser

\* A seat counts as online exactly while the connection that took it is open
\* and belongs to the seat's user.  A stale online seat would receive the
\* room's broadcasts for ever and keep the room from being closed.
OnlineSeatsAreOpen ==
    \A r \in RoomIds : \A c \in Seats(r) :
        /\ connections[r][c].offline <=> c \notin open
        /\ clients[c] # NONE
        /\ clients[c].user_id = connections[r][c].user_id

\* However often players drop and reconnect, a running game keeps a head count
\* that its rules accept.
GameHasItsPlayers ==
    \A r \in rooms : is_game_on[r] =>
        Cardinality(Seats(r)) \in PlayerRange[room_type[r]]

\* What else the invariants above rest on.
\* Without renames a user's name identifies it, in connections and in seats.
NamesAreUsers ==
    /\ \A u, v \in Users : user_name[u] = user_name[v] => u = v
    /\ \A c \in Conns : clients[c] # NONE =>
          clients[c].user_name = user_name[clients[c].user_id]
    /\ \A r \in RoomIds : \A c \in Seats(r) :
          connections[r][c].user_name = user_name[connections[r][c].user_id]

OpenAreAuthorized == \A c \in open : clients[c] # NONE

NoGameWithoutRoom == \A r \in RoomIds : is_game_on[r] => r \in rooms

\* The inductive invariant behind the theorems of RoomManagerProofs.
IInv ==
    /\ TypeOK
    /\ NamesAreUsers
    /\ OpenAreAuthorized
    /\ OnlineSeatsAreOpen
    /\ RegistryMatchesRooms

\* While a game is on no user enters or leaves the room ("a game is on, a new
\* user cannot join", Room.hpp:85); only connections change.
RosterFrozen ==
    [][\A r \in rooms \cap rooms' :
          is_game_on[r] /\ is_game_on'[r] =>
            SeatedUsers(connections'[r]) = SeatedUsers(connections[r])]_vars

\* The rooms keep the promises of Registry: a user is where the static map says,
\* and no handler or erasure, in whatever order, moves anybody else, lets
\* anybody into a game, or starts one with the wrong head count.
Promised == INSTANCE Registry WITH
    kind <- room_type, home <- user_2_room_id, playing <- is_game_on,
    HeadCounts <- PlayerRange

ImplementsRegistry == Promised!Spec

\* A room is closed only when everybody has left ("when all players have left
\* and no game is on, close the room", RoomManager.hpp:113).
ClosedOnlyWhenDeserted ==
    [][\A r \in rooms \ rooms' : \A c \in Seats(r) :
          connections[r][c].offline \/ c \notin open']_vars

\* A room none of whose seats has an open connection is closed in the end, so
\* its id and its users are free again, also when its game was abandoned.
DesertedRoomIsClosed ==
    \A r \in RoomIds :
        (r \in rooms /\ Seats(r) \cap open = {})
            ~> (~alive \/ r \notin rooms \/ Seats(r) \cap open # {})

================================================================================
