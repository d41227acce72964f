--------------------------- MODULE RoomManagerProofs ---------------------------
(* Proofs about module RoomManager. *)
EXTENDS RoomManager, FiniteSetTheorems, TLAPS

USE DEF Seats, Seated, SeatedUsers

LEMMA InitInv == Init => IInv
BY RoomAssumption DEF Init, IInv, TypeOK, NamesAreUsers, OpenAreAuthorized, OnlineSeatsAreOpen,
  RegistryMatchesRooms, SeatIsRegistered, RegisteredIsSeated, OneSeatPerUser, NoSeats

LEMMA AuthorizeInv ==
    ASSUME IInv, NEW c \in Conns, NEW u \in Users, Authorize(c, u)
    PROVE  IInv'
<1> USE RoomAssumption DEF IInv, Authorize, roomVars, Client, UserInfo
<1>1. TypeOK'
  BY DEF TypeOK
<1>2. NamesAreUsers'
  BY DEF TypeOK, NamesAreUsers
<1>3. OpenAreAuthorized'
  BY DEF TypeOK, OpenAreAuthorized
<1>4. OnlineSeatsAreOpen'
  BY DEF TypeOK, OnlineSeatsAreOpen
<1>5. RegistryMatchesRooms'
  BY DEF TypeOK, RegistryMatchesRooms, SeatIsRegistered, RegisteredIsSeated, OneSeatPerUser
<1> QED
  BY <1>1, <1>2, <1>3, <1>4, <1>5

LEMMA TakeSeatInv ==
    ASSUME IInv,
           NEW c \in Conns, NEW r \in RoomIds, c \in open, r \in rooms,
           NEW seats \in [Conns -> UserInfo \cup {NONE}],
           \A s \in Seated(seats) :
               /\ seats[s] = connections[r][s]
               /\ seats[s].user_id # clients[c].user_id,
           \A s \in Seats(r) : s \in Seated(seats)
               \/ connections[r][s].user_id = clients[c].user_id,
           user_2_room_id[clients[c].user_id] \in {NONE, r},
           TakeSeat(c, r, seats)
    PROVE  IInv'
<1> USE RoomAssumption DEF IInv
<1> DEFINE u == clients[c].user_id
           seat == [user_id |-> u, user_name |-> clients[c].user_name,
                    offline |-> FALSE, prepared |-> FALSE]
<1>0. \A q \in RoomIds : q # NONE
  OBVIOUS
<1>1. /\ clients[c] \in Client /\ u \in Users
      /\ seat \in UserInfo
      /\ seat # NONE
  <2>1. clients[c] \in Client
    BY DEF TypeOK, OpenAreAuthorized
  <2>2. u \in Users /\ clients[c].user_name \in Names
    BY <2>1 DEF Client
  <2>3. seat \in UserInfo
    BY <2>2 DEF UserInfo
  <2> QED
    BY <2>1, <2>2, <2>3
<1> HIDE DEF seat
<1>2. /\ connections' = [connections EXCEPT ![r] = [seats EXCEPT ![c] = seat]]
      /\ user_2_room_id' = [user_2_room_id EXCEPT ![u] = r]
      /\ authorized_user_id' = [authorized_user_id EXCEPT ![r] = @ \cup {u}]
      /\ UNCHANGED <<alive, user_name, clients, open, rooms, room_type, is_game_on, iterator>>
  BY DEF TakeSeat, netVars, seat
<1>3. /\ seat.user_id = u /\ seat.user_name = clients[c].user_name /\ ~seat.offline
  BY DEF seat
<1>4. /\ connections'[r][c] = seat
      /\ \A s \in Conns \ {c} : connections'[r][s] = seats[s]
      /\ \A q \in RoomIds \ {r} : connections'[q] = connections[q]
  BY <1>2 DEF TypeOK
<1>10. TypeOK'
  BY <1>1, <1>2 DEF TypeOK
<1>11. NamesAreUsers'
  BY <1>1, <1>2, <1>3, <1>4 DEF NamesAreUsers, TypeOK
<1>12. OpenAreAuthorized'
  BY <1>2 DEF OpenAreAuthorized
<1>13. OnlineSeatsAreOpen'
  <2> SUFFICES ASSUME NEW q \in RoomIds, NEW s \in Conns, connections'[q][s] # NONE
               PROVE  /\ connections'[q][s].offline <=> s \notin open
                      /\ clients[s] # NONE
                      /\ clients[s].user_id = connections'[q][s].user_id
    BY <1>2 DEF OnlineSeatsAreOpen
  <2>1. CASE q = r /\ s = c
    BY <1>1, <1>3, <1>4, <2>1 DEF OpenAreAuthorized
  <2>2. CASE q # r \/ s # c
    <3>1. connections'[q][s] = connections[q][s] /\ connections[q][s] # NONE
      BY <1>4, <2>2
    <3> QED
      BY <3>1 DEF OnlineSeatsAreOpen
  <2> QED
    BY <2>1, <2>2
<1>14. SeatIsRegistered'
  <2> SUFFICES ASSUME NEW q \in RoomIds, NEW s \in Conns, connections'[q][s] # NONE
               PROVE  q \in rooms /\ user_2_room_id'[connections'[q][s].user_id] = q
    BY <1>2 DEF SeatIsRegistered
  <2>1. CASE q # r
    BY <1>0, <1>1, <1>2, <1>4, <2>1 DEF RegistryMatchesRooms, SeatIsRegistered, TypeOK, UserInfo
  <2>2. CASE q = r /\ s = c
    BY <1>1, <1>2, <1>3, <1>4, <2>2 DEF TypeOK
  <2>3. CASE q = r /\ s # c
    BY <1>1, <1>2, <1>4, <2>3 DEF RegistryMatchesRooms, SeatIsRegistered, TypeOK, UserInfo
  <2> QED
    BY <2>1, <2>2, <2>3
<1>15. RegisteredIsSeated'
  <2> SUFFICES ASSUME NEW v \in Users, user_2_room_id'[v] # NONE
               PROVE  \E s \in Conns : /\ connections'[user_2_room_id'[v]][s] # NONE
                                       /\ connections'[user_2_room_id'[v]][s].user_id = v
    BY DEF RegisteredIsSeated
  <2>1. CASE v = u
    BY <1>1, <1>2, <1>3, <1>4, <2>1 DEF TypeOK
  <2>2. CASE v # u
    <3>1. PICK s \in Conns : /\ connections[user_2_room_id[v]][s] # NONE
                             /\ connections[user_2_room_id[v]][s].user_id = v
      BY <1>2, <2>2 DEF TypeOK, RegistryMatchesRooms, RegisteredIsSeated
    <3>2. user_2_room_id'[v] = user_2_room_id[v] /\ user_2_room_id[v] \in RoomIds
      BY <1>2, <2>2 DEF TypeOK
    <3>3. CASE user_2_room_id[v] # r
      BY <1>4, <3>1, <3>2, <3>3
    <3>4. CASE user_2_room_id[v] = r
      BY <1>1, <1>4, <2>2, <3>1, <3>2, <3>4 DEF OnlineSeatsAreOpen
    <3> QED
      BY <3>3, <3>4
  <2> QED
    BY <2>1, <2>2
<1>16. OneSeatPerUser'
  <2> SUFFICES ASSUME NEW q \in RoomIds, NEW s \in Conns, NEW t \in Conns,
                      connections'[q][s] # NONE, connections'[q][t] # NONE,
                      connections'[q][s].user_id = connections'[q][t].user_id
               PROVE  s = t
    BY DEF OneSeatPerUser
  <2>1. CASE q # r
    BY <1>4, <2>1 DEF RegistryMatchesRooms, OneSeatPerUser
  <2>2. CASE q = r /\ (s = c \/ t = c)
    BY <1>3, <1>4, <2>2
  <2>3. CASE q = r /\ s # c /\ t # c
    BY <1>4, <2>3 DEF RegistryMatchesRooms, OneSeatPerUser
  <2> QED
    BY <2>1, <2>2, <2>3
<1> QED
  BY <1>10, <1>11, <1>12, <1>13, <1>14, <1>15, <1>16 DEF RegistryMatchesRooms

LEMMA SeatsKeptInv ==
    ASSUME IInv, TypeOK',
           UNCHANGED <<user_name, clients>>, open' \subseteq open,
           \A r \in RoomIds, c \in Conns : connections'[r][c] # NONE =>
               /\ connections[r][c] # NONE
               /\ connections'[r][c].user_id = connections[r][c].user_id
               /\ connections'[r][c].user_name = connections[r][c].user_name
               /\ connections'[r][c].offline <=> c \notin open'
               /\ r \in rooms',
           \A u \in Users : user_2_room_id'[u] \in {user_2_room_id[u], NONE},
           \A r \in RoomIds, c \in Conns : connections[r][c] # NONE =>
               (connections'[r][c] = NONE <=>
                    user_2_room_id'[connections[r][c].user_id] = NONE)
    PROVE  IInv'
<1> USE RoomAssumption
<1>1. NamesAreUsers'
  BY DEF IInv, NamesAreUsers
<1>2. OpenAreAuthorized'
  BY DEF IInv, OpenAreAuthorized
<1>3. OnlineSeatsAreOpen'
  BY DEF IInv, OnlineSeatsAreOpen
<1>4. SeatIsRegistered'
  <2> SUFFICES ASSUME NEW r \in RoomIds, NEW c \in Conns, connections'[r][c] # NONE
               PROVE  r \in rooms' /\ user_2_room_id'[connections'[r][c].user_id] = r
    BY DEF SeatIsRegistered
  <2>1. /\ connections[r][c] # NONE
        /\ connections[r][c].user_id \in Users
        /\ user_2_room_id[connections[r][c].user_id] = r
    BY DEF IInv, RegistryMatchesRooms, SeatIsRegistered, TypeOK, UserInfo
  <2>2. /\ user_2_room_id'[connections[r][c].user_id] # NONE
        /\ connections'[r][c].user_id = connections[r][c].user_id
        /\ r \in rooms'
    BY <2>1
  <2> QED
    BY <2>1, <2>2
<1>5. RegisteredIsSeated'
  <2> SUFFICES ASSUME NEW u \in Users, user_2_room_id'[u] # NONE
               PROVE  \E c \in Conns : /\ connections'[user_2_room_id'[u]][c] # NONE
                                       /\ connections'[user_2_room_id'[u]][c].user_id = u
    BY DEF RegisteredIsSeated
  <2>1. PICK r \in RoomIds : user_2_room_id[u] = r /\ user_2_room_id'[u] = r
    BY DEF IInv, TypeOK
  <2>2. PICK c \in Conns : connections[r][c] # NONE /\ connections[r][c].user_id = u
    BY <2>1 DEF IInv, RegistryMatchesRooms, RegisteredIsSeated
  <2>3. connections'[r][c] # NONE
    BY <2>1, <2>2
  <2>4. connections'[r][c].user_id = u
    BY <2>2, <2>3
  <2> QED
    BY <2>1, <2>3, <2>4
<1>6. OneSeatPerUser'
  BY DEF IInv, RegistryMatchesRooms, OneSeatPerUser
<1> QED
  BY <1>1, <1>2, <1>3, <1>4, <1>5, <1>6 DEF IInv, RegistryMatchesRooms

LEMMA JoinRoomInv ==
    ASSUME IInv, NEW c \in Conns, NEW r \in RoomIds, NEW password,
           JoinRoom(c, r, password)
    PROVE  IInv'
<1> USE RoomAssumption
<1>1. connections[r] \in [Conns -> UserInfo \cup {NONE}]
  BY DEF IInv, TypeOK
<1>2. \A s \in Seated(connections[r]) : connections[r][s].user_id # clients[c].user_id
  BY DEF IInv, RegistryMatchesRooms, SeatIsRegistered, JoinRoom
<1> QED
  BY <1>1, <1>2, TakeSeatInv DEF JoinRoom

LEMMA RejoinRoomInv ==
    ASSUME IInv, NEW c \in Conns, NEW r \in RoomIds, NEW old \in Conns, NEW password,
           RejoinRoom(c, r, old, password)
    PROVE  IInv'
<1> USE RoomAssumption
<1> DEFINE seats == [connections[r] EXCEPT ![old] = NONE]
<1>1. seats \in [Conns -> UserInfo \cup {NONE}] /\ connections[r] \in [Conns -> UserInfo \cup {NONE}]
  BY DEF IInv, TypeOK
<1>2. connections[r][old] # NONE /\ connections[r][old].user_id = clients[c].user_id
  BY <1>1 DEF IInv, TypeOK, NamesAreUsers, OpenAreAuthorized, RejoinRoom, Client, UserInfo
<1>3. \A s \in Conns : seats[s] # NONE =>
         seats[s] = connections[r][s] /\ seats[s].user_id # clients[c].user_id
  BY <1>1, <1>2 DEF IInv, RegistryMatchesRooms, OneSeatPerUser
<1>4. \A s \in Conns : connections[r][s] # NONE =>
         seats[s] # NONE \/ connections[r][s].user_id = clients[c].user_id
  BY <1>1, <1>2
<1>5. user_2_room_id[clients[c].user_id] = r
  BY <1>2 DEF IInv, RegistryMatchesRooms, SeatIsRegistered
<1>6. c \in open /\ r \in rooms /\ TakeSeat(c, r, seats)
  BY DEF RejoinRoom
<1> HIDE DEF seats
<1> QED
  BY <1>1, <1>3, <1>4, <1>5, <1>6, TakeSeatInv

LEMMA CreateRoomInv ==
    ASSUME IInv, NEW c \in Conns, NEW r \in RoomIds, NEW t \in RoomTypes,
           CreateRoom(c, r, t)
    PROVE  IInv'
<1> USE RoomAssumption
<1>1. clients[c] \in Client
  BY DEF IInv, TypeOK, OpenAreAuthorized, CreateRoom
<1>2. TypeOK'
  BY <1>1 DEF IInv, TypeOK, CreateRoom, netVars, Client
<1>3. \A q \in RoomIds, s \in Conns : connections[q][s] # NONE =>
         /\ connections[q][s].offline <=> s \notin open
         /\ q \in rooms
         /\ user_2_room_id[connections[q][s].user_id] = q
  BY DEF IInv, OnlineSeatsAreOpen, RegistryMatchesRooms, SeatIsRegistered
<1>4. \A q \in RoomIds : q # NONE
  OBVIOUS
<1> QED
  BY <1>2, <1>3, <1>4, SeatsKeptInv DEF CreateRoom, netVars

LEMMA PreparedSeats ==
    ASSUME IInv, NEW c \in Conns, NEW prepare \in BOOLEAN, CanPrepare(c),
           NEW r, r = PrepareRoom(c)
    PROVE  /\ r \in RoomIds /\ r \in rooms /\ connections[r][c] # NONE
           /\ Prepared(c, prepare) \in [Conns -> UserInfo \cup {NONE}]
           /\ \A s \in Conns : Prepared(c, prepare)[s] # NONE <=> connections[r][s] # NONE
           /\ \A s \in Conns : connections[r][s] # NONE =>
                /\ Prepared(c, prepare)[s] \in UserInfo
                /\ Prepared(c, prepare)[s].user_id = connections[r][s].user_id
                /\ Prepared(c, prepare)[s].user_name = connections[r][s].user_name
                /\ Prepared(c, prepare)[s].offline = connections[r][s].offline
<1> USE RoomAssumption
<1>1. r \in RoomIds /\ r \in rooms /\ connections[r][c] # NONE
  BY DEF IInv, TypeOK, CanPrepare
<1>2. connections \in [RoomIds -> [Conns -> UserInfo \cup {NONE}]]
  BY DEF IInv, TypeOK
<1>3. connections[r][c] \in UserInfo
  BY <1>1, <1>2
<1> QED
  BY <1>1, <1>2, <1>3 DEF Prepared, UserInfo

LEMMA StartOrPrepareInv ==
    ASSUME IInv, NEW c \in Conns, NEW prepare \in BOOLEAN,
           GamePrepare(c, prepare) \/ GamePrepareAndStart(c, prepare)
    PROVE  IInv'
<1> USE RoomAssumption
<1> DEFINE r == PrepareRoom(c)
<1>1. r \in RoomIds /\ r \in rooms /\ connections[r][c] # NONE
  BY PreparedSeats DEF GamePrepare, GamePrepareAndStart
<1>2. connections \in [RoomIds -> [Conns -> UserInfo \cup {NONE}]]
  BY DEF IInv, TypeOK
<1>3. /\ Prepared(c, prepare) \in [Conns -> UserInfo \cup {NONE}]
      /\ \A s \in Conns : Prepared(c, prepare)[s] # NONE <=> connections[r][s] # NONE
      /\ \A s \in Conns : connections[r][s] # NONE =>
           /\ Prepared(c, prepare)[s] \in UserInfo
           /\ Prepared(c, prepare)[s].user_id = connections[r][s].user_id
           /\ Prepared(c, prepare)[s].user_name = connections[r][s].user_name
           /\ Prepared(c, prepare)[s].offline = connections[r][s].offline
  BY PreparedSeats DEF GamePrepare, GamePrepareAndStart
<1>4. PICK seats \in [Conns -> UserInfo \cup {NONE}] :
         /\ connections' = [connections EXCEPT ![r] = seats]
         /\ \A s \in Conns : seats[s] # NONE <=> connections[r][s] # NONE
         /\ \A s \in Conns : connections[r][s] # NONE =>
              /\ seats[s].user_id = connections[r][s].user_id
              /\ seats[s].user_name = connections[r][s].user_name
              /\ seats[s].offline = connections[r][s].offline
  <2>1. CASE GamePrepare(c, prepare)
    BY <1>3, <2>1 DEF GamePrepare
  <2>2. CASE GamePrepareAndStart(c, prepare)
    <3> DEFINE seats == [s \in Conns |-> IF s \in Seated(Prepared(c, prepare))
                                 THEN [Prepared(c, prepare)[s] EXCEPT !.prepared = FALSE]
                                 ELSE NONE]
    <3>1. \A s \in Conns : connections[r][s] # NONE =>
              /\ seats[s] \in UserInfo /\ seats[s] # NONE
              /\ seats[s].user_id = connections[r][s].user_id
              /\ seats[s].user_name = connections[r][s].user_name
              /\ seats[s].offline = connections[r][s].offline
      BY <1>3 DEF UserInfo
    <3>2. seats \in [Conns -> UserInfo \cup {NONE}]
      BY <1>3, <3>1
    <3>3. connections' = [connections EXCEPT ![r] = seats]
      BY <2>2 DEF GamePrepareAndStart
    <3>4. \A s \in Conns : seats[s] # NONE <=> connections[r][s] # NONE
      BY <1>3, <3>1
    <3> HIDE DEF seats
    <3> QED
      BY <3>1, <3>2, <3>3, <3>4
  <2> QED
    BY <2>1, <2>2
<1> HIDE DEF r
<1>5. /\ UNCHANGED <<alive, user_name, clients, open, rooms, room_type,
                     authorized_user_id, user_2_room_id, iterator>>
      /\ is_game_on' \in {is_game_on, [is_game_on EXCEPT ![r] = TRUE]}
  BY DEF GamePrepare, GamePrepareAndStart, netVars, r
<1>6. TypeOK'
  BY <1>1, <1>4, <1>5 DEF IInv, TypeOK
<1>7. \A q \in RoomIds, s \in Conns : connections[q][s] # NONE =>
         /\ connections[q][s].offline <=> s \notin open
         /\ q \in rooms
         /\ user_2_room_id[connections[q][s].user_id] = q
  BY DEF IInv, OnlineSeatsAreOpen, RegistryMatchesRooms, SeatIsRegistered
<1>8. \A q \in RoomIds : q # NONE
  OBVIOUS
<1>9. \A q \in RoomIds, s \in Conns :
         /\ connections'[q][s] # NONE <=> connections[q][s] # NONE
         /\ connections[q][s] # NONE =>
              /\ connections'[q][s].user_id = connections[q][s].user_id
              /\ connections'[q][s].user_name = connections[q][s].user_name
              /\ connections'[q][s].offline = connections[q][s].offline
  BY <1>1, <1>2, <1>4
<1> QED
  BY <1>5, <1>6, <1>7, <1>8, <1>9, SeatsKeptInv

LEMMA GameOverInv ==
    ASSUME IInv, NEW r \in RoomIds, GameOver(r)
    PROVE  IInv'
<1> USE RoomAssumption
<1>1. TypeOK'
  BY DEF IInv, TypeOK, GameOver, netVars
<1>2. \A q \in RoomIds, s \in Conns : connections[q][s] # NONE =>
         /\ connections[q][s].offline <=> s \notin open
         /\ q \in rooms
         /\ user_2_room_id[connections[q][s].user_id] = q
  BY DEF IInv, OnlineSeatsAreOpen, RegistryMatchesRooms, SeatIsRegistered
<1>3. \A q \in RoomIds : q # NONE
  OBVIOUS
<1> QED
  BY <1>1, <1>2, <1>3, SeatsKeptInv DEF GameOver, netVars

LEMMA EraseRoomInv ==
    ASSUME IInv, NEW r \in RoomIds, NEW seats, NEW registry,
           EraseRoom(r, seats, registry),
           UNCHANGED <<alive, user_name, clients>>, open' \subseteq open,
           iterator' \in {NONE, DANGLING, iterator},
           \A u \in Users :
               /\ u \in SeatedUsers(connections[r]) =>
                      u \in SeatedUsers(seats) \/ registry[u] = NONE
               /\ u \notin SeatedUsers(connections[r]) =>
                      u \notin SeatedUsers(seats) /\ registry[u] = user_2_room_id[u],
           \A q \in RoomIds \ {r}, c \in Conns : connections[q][c] # NONE =>
               (c \in open => c \in open')
    PROVE  IInv'
<1> USE RoomAssumption
<1>1. \A q \in RoomIds : q # NONE
  OBVIOUS
<1>2. /\ rooms' = rooms \ {r}
      /\ connections' = [connections EXCEPT ![r] = NoSeats]
      /\ \A u \in Users : user_2_room_id'[u] =
            IF u \in SeatedUsers(connections[r]) THEN NONE ELSE user_2_room_id[u]
  BY DEF EraseRoom
<1>3. /\ \A c \in Conns : connections'[r][c] = NONE
      /\ \A q \in RoomIds \ {r} : connections'[q] = connections[q]
  BY <1>2 DEF IInv, TypeOK, NoSeats
<1>4. TypeOK'
  <2>1. user_2_room_id' \in [Users -> RoomIds \cup {NONE}]
    BY <1>2 DEF IInv, TypeOK, EraseRoom
  <2>2. connections' \in [RoomIds -> [Conns -> UserInfo \cup {NONE}]]
    BY <1>2 DEF IInv, TypeOK, NoSeats
  <2> QED
    BY <2>1, <2>2 DEF IInv, TypeOK, EraseRoom
<1>5. \A q \in RoomIds, c \in Conns : connections[q][c] # NONE =>
         /\ connections[q][c].offline <=> c \notin open
         /\ q \in rooms
         /\ connections[q][c].user_id \in Users
         /\ user_2_room_id[connections[q][c].user_id] = q
  BY DEF IInv, OnlineSeatsAreOpen, RegistryMatchesRooms, SeatIsRegistered, TypeOK, UserInfo
<1>6. ASSUME NEW q \in RoomIds, NEW c \in Conns, connections'[q][c] # NONE
      PROVE  /\ connections[q][c] # NONE
             /\ connections'[q][c] = connections[q][c]
             /\ connections'[q][c].offline <=> c \notin open'
             /\ q \in rooms'
  BY <1>2, <1>3, <1>5, <1>6
<1>7. ASSUME NEW q \in RoomIds, NEW c \in Conns, connections[q][c] # NONE
      PROVE  connections'[q][c] = NONE <=>
                user_2_room_id'[connections[q][c].user_id] = NONE
  <2>1. CASE q = r
    BY <1>2, <1>3, <1>5, <1>7, <2>1
  <2>2. CASE q # r
    <3>1. connections[q][c].user_id \notin SeatedUsers(connections[r])
      BY <1>5, <1>7, <2>2
    <3> QED
      BY <1>1, <1>2, <1>3, <1>5, <1>7, <2>2, <3>1
  <2> QED
    BY <2>1, <2>2
<1>8. \A u \in Users : user_2_room_id'[u] \in {user_2_room_id[u], NONE}
  BY <1>2
<1> QED
  BY <1>4, <1>6, <1>7, <1>8, SeatsKeptInv

\* What every case of UNSUBSCRIBE starts from: the connection being closed has
\* no seat but in the room its user is looked up in.
LEMMA ClosingConnection ==
    ASSUME IInv, NEW c \in Conns, Unsubscribe(c)
    PROVE  /\ UNCHANGED <<alive, user_name, clients>>
           /\ open' = open \ {c} /\ c \in open
           /\ clients[c] \in Client /\ clients[c].user_id \in Users
           /\ get_users_room_id(clients[c].user_id) \in RoomIds
           /\ \A q \in RoomIds, s \in Conns : connections[q][s] # NONE =>
                /\ connections[q][s] \in UserInfo
                /\ connections[q][s].user_id \in Users
                /\ connections[q][s].user_id = clients[s].user_id
                /\ connections[q][s].offline <=> s \notin open
                /\ q \in rooms /\ q # NONE
                /\ user_2_room_id[connections[q][s].user_id] = q
                /\ s = c => q = get_users_room_id(clients[c].user_id)
<1> USE RoomAssumption DEF IInv
<1>1. clients[c] \in Client /\ clients[c].user_id \in Users
  BY DEF Unsubscribe, OpenAreAuthorized, TypeOK, Client
<1>2. get_users_room_id(clients[c].user_id) \in RoomIds
  BY <1>1 DEF get_users_room_id, TypeOK
<1>3. ASSUME NEW q \in RoomIds, NEW s \in Conns, connections[q][s] # NONE
      PROVE  /\ connections[q][s] \in UserInfo
             /\ connections[q][s].user_id \in Users
             /\ connections[q][s].user_id = clients[s].user_id
             /\ connections[q][s].offline <=> s \notin open
             /\ q \in rooms /\ q # NONE
             /\ user_2_room_id[connections[q][s].user_id] = q
  <2>1. connections[q][s] \in UserInfo
    BY <1>3 DEF TypeOK
  <2>2. connections[q][s].user_id \in Users
    BY <2>1 DEF UserInfo
  <2>3. /\ connections[q][s].user_id = clients[s].user_id
        /\ connections[q][s].offline <=> s \notin open
    BY <1>3 DEF OnlineSeatsAreOpen
  <2>4. q \in rooms /\ user_2_room_id[connections[q][s].user_id] = q
    BY <1>3 DEF RegistryMatchesRooms, SeatIsRegistered
  <2> QED
    BY <2>1, <2>2, <2>3, <2>4
<1> QED
  BY <1>1, <1>2, <1>3 DEF Unsubscribe, get_users_room_id

LEMMA CloseDuringGameInv ==
    ASSUME IInv, NEW c \in Conns, CloseDuringGame(c)
    PROVE  IInv'
<1> USE RoomAssumption
<1> DEFINE r == get_users_room_id(clients[c].user_id)
<1>1. Unsubscribe(c)
  BY DEF CloseDuringGame
<1>2. /\ connections' = [connections EXCEPT ![r][c].offline = TRUE]
      /\ connections[r][c] # NONE
      /\ UNCHANGED <<rooms, room_type, is_game_on, authorized_user_id,
                     user_2_room_id, iterator>>
  BY DEF CloseDuringGame
<1>3. r \in RoomIds /\ connections[r][c] \in UserInfo
  BY <1>1, <1>2, ClosingConnection
<1> HIDE DEF r
<1>4. connections \in [RoomIds -> [Conns -> UserInfo \cup {NONE}]]
  BY DEF IInv, TypeOK
<1>5. connections' = [connections EXCEPT ![r] =
                        [connections[r] EXCEPT ![c] = [connections[r][c] EXCEPT !.offline = TRUE]]]
  BY <1>2, <1>3, <1>4
<1> DEFINE seat == [connections[r][c] EXCEPT !.offline = TRUE]
<1>6. /\ seat \in UserInfo
      /\ seat.user_id = connections[r][c].user_id
      /\ seat.user_name = connections[r][c].user_name
      /\ seat.offline
  BY <1>3 DEF UserInfo
<1>7. /\ connections'[r][c] = seat /\ seat # NONE
      /\ \A q \in RoomIds, s \in Conns : q # r \/ s # c =>
            connections'[q][s] = connections[q][s]
      /\ connections' \in [RoomIds -> [Conns -> UserInfo \cup {NONE}]]
  BY <1>3, <1>4, <1>5, <1>6
<1> HIDE DEF seat
<1>8. TypeOK'
  BY <1>1, <1>2, <1>7, ClosingConnection DEF IInv, TypeOK
<1>9. ASSUME NEW q \in RoomIds, NEW s \in Conns, connections'[q][s] # NONE
      PROVE  /\ connections[q][s] # NONE
             /\ connections'[q][s].user_id = connections[q][s].user_id
             /\ connections'[q][s].user_name = connections[q][s].user_name
             /\ connections'[q][s].offline <=> s \notin open'
             /\ q \in rooms'
  <2>1. CASE q = r /\ s = c
    BY <1>1, <1>2, <1>6, <1>7, <2>1, ClosingConnection
  <2>2. CASE s # c
    BY <1>1, <1>2, <1>7, <1>9, <2>2, ClosingConnection
  <2>3. CASE q # r /\ s = c
    BY <1>1, <1>7, <1>9, <2>3, ClosingConnection DEF r
  <2> QED
    BY <2>1, <2>2, <2>3
<1>10. ASSUME NEW q \in RoomIds, NEW s \in Conns, connections[q][s] # NONE
       PROVE  connections'[q][s] # NONE
              /\ user_2_room_id'[connections[q][s].user_id] # NONE
  <2>1. connections'[q][s] # NONE
    BY <1>7, <1>10
  <2>2. user_2_room_id[connections[q][s].user_id] # NONE
    BY <1>1, <1>10, ClosingConnection
  <2> QED
    BY <1>2, <2>1, <2>2
<1> QED
  BY <1>1, <1>2, <1>8, <1>9, <1>10, ClosingConnection, SeatsKeptInv

LEMMA CloseAndLeaveInv ==
    ASSUME IInv, NEW c \in Conns, CloseAndLeave(c)
    PROVE  IInv'
<1> USE RoomAssumption
<1> DEFINE r == get_users_room_id(clients[c].user_id)
<1>1. Unsubscribe(c)
  BY DEF CloseAndLeave
<1>2. /\ connections' = [connections EXCEPT ![r] = SeatsAfter(c, r)]
      /\ user_2_room_id' = RegistryAfter(c, r)
      /\ UNCHANGED <<rooms, room_type, is_game_on, authorized_user_id, iterator>>
  BY DEF CloseAndLeave
<1>3. r \in RoomIds
  BY <1>1, ClosingConnection
<1>4. connections[r][c] # NONE => connections[r][c].user_id = clients[c].user_id
  BY ONLY IInv, <1>1, <1>3, ClosingConnection
<1>5. connections \in [RoomIds -> [Conns -> UserInfo \cup {NONE}]]
  BY DEF IInv, TypeOK
<1> HIDE DEF r
<1>6. /\ connections'[r][c] = NONE
      /\ \A q \in RoomIds, s \in Conns : q # r \/ s # c =>
            connections'[q][s] = connections[q][s]
      /\ connections' \in [RoomIds -> [Conns -> UserInfo \cup {NONE}]]
  BY <1>2, <1>3, <1>5 DEF SeatsAfter
<1>7. user_2_room_id' = IF connections[r][c] # NONE
                        THEN [user_2_room_id EXCEPT ![clients[c].user_id] = NONE]
                        ELSE user_2_room_id
  BY <1>2, <1>4 DEF RegistryAfter
<1>8. user_2_room_id \in [Users -> RoomIds \cup {NONE}]
  BY DEF IInv, TypeOK
<1>9. TypeOK'
  <2>1. user_2_room_id' \in [Users -> RoomIds \cup {NONE}]
    BY <1>7, <1>8
  <2> QED
    BY <1>1, <1>2, <1>6, <2>1, ClosingConnection DEF IInv, TypeOK
<1>10. ASSUME NEW q \in RoomIds, NEW s \in Conns, connections'[q][s] # NONE
      PROVE  /\ connections[q][s] # NONE
             /\ connections'[q][s] = connections[q][s]
             /\ connections'[q][s].offline <=> s \notin open'
             /\ q \in rooms'
  <2>1. q # r \/ s # c
    BY <1>6, <1>10
  <2>2. connections'[q][s] = connections[q][s]
    BY <1>6, <2>1
  <2>3. s # c
    BY <1>1, <1>10, <2>1, <2>2, ClosingConnection DEF r
  <2>4. /\ connections[q][s].offline <=> s \notin open
        /\ q \in rooms
    BY <1>1, <1>10, <2>2, ClosingConnection
  <2>5. open' = open \ {c}
    BY <1>1 DEF Unsubscribe
  <2> QED
    BY <1>2, <1>10, <2>2, <2>3, <2>4, <2>5
<1>11. ASSUME NEW q \in RoomIds, NEW s \in Conns, connections[q][s] # NONE
       PROVE  connections'[q][s] = NONE <=>
                user_2_room_id'[connections[q][s].user_id] = NONE
  <2>1. CASE q = r /\ s = c
    BY <1>1, <1>4, <1>6, <1>7, <1>8, <1>11, <2>1, ClosingConnection
  <2>2. CASE ~(q = r /\ s = c)
    <3>1. connections'[q][s] # NONE
      BY <1>6, <1>11, <2>2
    <3>2. connections[r][c] # NONE => connections[q][s].user_id # clients[c].user_id
      BY <1>1, <1>3, <1>4, <1>11, <2>2, ClosingConnection
         DEF IInv, RegistryMatchesRooms, OneSeatPerUser
    <3>3. user_2_room_id[connections[q][s].user_id] # NONE /\ connections[q][s].user_id \in Users
      BY <1>1, <1>11, ClosingConnection
    <3> QED
      BY <1>7, <1>8, <3>1, <3>2, <3>3
  <2> QED
    BY <2>1, <2>2
<1>12. \A u \in Users : user_2_room_id'[u] \in {user_2_room_id[u], NONE}
  BY <1>7, <1>8
<1> QED
  BY <1>1, <1>9, <1>10, <1>11, <1>12, ClosingConnection, SeatsKeptInv

LEMMA CloseAndEraseInv ==
    ASSUME IInv, NEW c \in Conns, CloseAndErase(c)
    PROVE  IInv'
<1> USE RoomAssumption
<1> DEFINE r        == get_users_room_id(clients[c].user_id)
           seats    == SeatsAfter(c, r)
           registry == RegistryAfter(c, r)
<1>1. Unsubscribe(c)
  BY DEF CloseAndErase
<1>2. EraseRoom(r, seats, registry) /\ iterator' \in {NONE, DANGLING, iterator}
  BY DEF CloseAndErase
<1>3. r \in RoomIds
  BY <1>1, ClosingConnection
<1>4. connections[r][c] # NONE => connections[r][c].user_id = clients[c].user_id
  BY ONLY IInv, <1>1, <1>3, ClosingConnection
<1>5. connections[r] \in [Conns -> UserInfo \cup {NONE}]
      /\ user_2_room_id \in [Users -> RoomIds \cup {NONE}]
  BY <1>3 DEF IInv, TypeOK
<1>6. /\ seats[c] = NONE
      /\ \A s \in Conns \ {c} : seats[s] = connections[r][s]
      /\ registry = IF connections[r][c] # NONE
                    THEN [user_2_room_id EXCEPT ![clients[c].user_id] = NONE]
                    ELSE user_2_room_id
  BY <1>4, <1>5 DEF SeatsAfter, RegistryAfter
<1>7. clients[c].user_id \in Users
  BY <1>1, ClosingConnection
<1>8. ASSUME NEW q \in RoomIds \ {r}, NEW s \in Conns, connections[q][s] # NONE, s \in open
      PROVE  s \in open'
  <2>1. s = c => q = get_users_room_id(clients[c].user_id)
    BY <1>1, <1>8, ClosingConnection
  <2> QED
    BY <1>1, <1>8, <2>1 DEF Unsubscribe
<1> HIDE DEF r, seats, registry
<1>9. ASSUME NEW u \in Users
      PROVE  /\ u \in SeatedUsers(connections[r]) =>
                      u \in SeatedUsers(seats) \/ registry[u] = NONE
             /\ u \notin SeatedUsers(connections[r]) =>
                      u \notin SeatedUsers(seats) /\ registry[u] = user_2_room_id[u]
  <2>1. ASSUME NEW s \in Conns, connections[r][s] # NONE, connections[r][s].user_id = u
        PROVE  u \in SeatedUsers(seats) \/ registry[u] = NONE
    BY <1>4, <1>5, <1>6, <2>1
  <2>2. ASSUME NEW s \in Conns, seats[s] # NONE, seats[s].user_id = u
        PROVE  u \in SeatedUsers(connections[r])
    BY <1>6, <2>2
  <2>3. ASSUME u \notin SeatedUsers(connections[r])
        PROVE  registry[u] = user_2_room_id[u]
    BY <1>4, <1>5, <1>6, <1>7, <2>3
  <2> QED
    BY <2>1, <2>2, <2>3
<1>10. UNCHANGED <<alive, user_name, clients>> /\ open' \subseteq open
  BY <1>1 DEF Unsubscribe
<1>11. \A q \in RoomIds \ {r}, s \in Conns : connections[q][s] # NONE =>
          (s \in open => s \in open')
  BY <1>8
<1> QED
  BY ONLY IInv, <1>2, <1>3, <1>9, <1>10, <1>11, EraseRoomInv

LEMMA CloseElsewhereInv ==
    ASSUME IInv, NEW c \in Conns, CloseElsewhere(c)
    PROVE  IInv'
<1> USE RoomAssumption
<1> DEFINE r == get_users_room_id(clients[c].user_id)
<1>1. Unsubscribe(c)
  BY DEF CloseElsewhere
<1>2. /\ UNCHANGED <<rooms, room_type, is_game_on, authorized_user_id,
                     connections, user_2_room_id, iterator>>
      /\ r \notin rooms \/ connections[r][c] = NONE
  BY DEF CloseElsewhere, roomVars
<1>3. TypeOK'
  BY <1>1, <1>2, ClosingConnection DEF IInv, TypeOK
<1>4. \A q \in RoomIds, s \in Conns : connections[q][s] # NONE =>
         /\ s # c
         /\ connections[q][s].offline <=> s \notin open
         /\ q \in rooms /\ user_2_room_id[connections[q][s].user_id] # NONE
  BY <1>1, <1>2, ClosingConnection
<1>5. open' = open \ {c} /\ UNCHANGED <<user_name, clients>>
  BY <1>1 DEF Unsubscribe
<1> QED
  BY <1>2, <1>3, <1>4, <1>5, SeatsKeptInv

LEMMA SweeperInv ==
    ASSUME IInv, Sweeper
    PROVE  IInv'
<1> USE RoomAssumption
<1>1. CASE \E r \in RoomIds : SweepCheck(r)
  <2>1. TypeOK'
    BY <1>1 DEF IInv, TypeOK, SweepCheck, netVars, roomVars
  <2>2. UNCHANGED <<user_name, clients, open, connections, rooms, user_2_room_id>>
    BY <1>1 DEF SweepCheck, netVars, roomVars
  <2> QED
    BY <2>1, <2>2 DEF IInv, NamesAreUsers, OpenAreAuthorized, OnlineSeatsAreOpen,
       RegistryMatchesRooms, SeatIsRegistered, RegisteredIsSeated, OneSeatPerUser
<1>2. CASE SweepErase
  <2>1. iterator \in RoomIds /\ EraseRoom(iterator, connections[iterator], user_2_room_id)
        /\ UNCHANGED <<alive, user_name, clients, open>> /\ iterator' = NONE
    BY <1>2 DEF SweepErase, netVars
  <2> QED
    BY <2>1, EraseRoomInv
<1>3. CASE SweepDangling
  <2>1. TypeOK'
    BY <1>3 DEF IInv, TypeOK, SweepDangling, netVars, roomVars
  <2>2. UNCHANGED <<user_name, clients, open, connections, rooms, user_2_room_id>>
    BY <1>3 DEF SweepDangling, netVars, roomVars
  <2> QED
    BY <2>1, <2>2 DEF IInv, NamesAreUsers, OpenAreAuthorized, OnlineSeatsAreOpen,
       RegistryMatchesRooms, SeatIsRegistered, RegisteredIsSeated, OneSeatPerUser
<1> QED
  BY <1>1, <1>2, <1>3 DEF Sweeper

LEMMA NextInv ==
    ASSUME IInv, [Next]_vars
    PROVE  IInv'
<1>1. CASE Handler
  <2>1. CASE \E c \in Conns, u \in Users : Authorize(c, u)
    BY <2>1, AuthorizeInv
  <2>2. CASE \E c \in Conns, r \in RoomIds, t \in RoomTypes : CreateRoom(c, r, t)
    BY <2>2, CreateRoomInv
  <2>3. CASE \E c \in Conns, r \in RoomIds, password \in {"none", "right", "wrong"} :
                \/ JoinRoom(c, r, password)
                \/ \E old \in Conns : RejoinRoom(c, r, old, password)
    BY <2>3, JoinRoomInv, RejoinRoomInv
  <2>4. CASE \E c \in Conns, prepare \in BOOLEAN :
                GamePrepare(c, prepare) \/ GamePrepareAndStart(c, prepare)
    BY <2>4, StartOrPrepareInv
  <2>5. CASE \E r \in RoomIds : GameOver(r)
    BY <2>5, GameOverInv
  <2>6. CASE \E c \in Conns : Close(c)
    BY <2>6, CloseDuringGameInv, CloseAndLeaveInv, CloseAndEraseInv, CloseElsewhereInv DEF Close
  <2> QED
    BY <1>1, <2>1, <2>2, <2>3, <2>4, <2>5, <2>6 DEF Handler
<1>2. CASE Sweeper
  BY <1>2, SweeperInv
<1>3. CASE UNCHANGED vars
  BY <1>3 DEF vars, netVars, roomVars, IInv, TypeOK, NamesAreUsers, OpenAreAuthorized,
     OnlineSeatsAreOpen, RegistryMatchesRooms, SeatIsRegistered, RegisteredIsSeated,
     OneSeatPerUser
<1> QED
  BY <1>1, <1>2, <1>3 DEF Next

--------------------------------------------------------------------------------
\* Every reachable state of the rooms, whatever the number of users,
\* connections and rooms, satisfies the inductive invariant.
THEOREM Inductive == Spec => []IInv
<1>1. Init => IInv
  BY InitInv
<1>2. IInv /\ [Next]_vars => IInv'
  BY NextInv
<1> QED
  BY <1>1, <1>2, PTL DEF Spec

\* Type correctness of RoomManager's and Room's state.
THEOREM TypeCorrect == Spec => []TypeOK
BY Inductive, PTL DEF IInv

\* The registry user_2_room_id and the rooms' connections maps agree.
THEOREM RegistryConsistent == Spec => []RegistryMatchesRooms
BY Inductive, PTL DEF IInv

\* A seat is online exactly while its connection is open.
THEOREM OnlineIsOpen == Spec => []OnlineSeatsAreOpen
BY Inductive, PTL DEF IInv

--------------------------------------------------------------------------------
\* What a step does to a room r in which a game is on afterwards: either no
\* seat of r is taken or given up, or one seat passes to another connection of
\* the same user, or a game starts in r with an accepted number of players.
SeatsKept(r) ==
    /\ \A c \in Conns : connections'[r][c] # NONE <=> connections[r][c] # NONE
    /\ \A c \in Conns : connections[r][c] # NONE =>
          connections'[r][c].user_id = connections[r][c].user_id

SeatPasses(r) ==
    \E old, c \in Conns :
        /\ connections[r][old] # NONE
        /\ c = old \/ connections[r][c] = NONE
        /\ connections'[r][c] # NONE
        /\ connections'[r][c].user_id = connections[r][old].user_id
        /\ c # old => connections'[r][old] = NONE
        /\ \A s \in Conns \ {c, old} : connections'[r][s] = connections[r][s]

GameStarts(r) ==
    /\ SeatsKept(r)
    /\ Cardinality(Seats(r)) \in PlayerRange[room_type[r]]
    /\ r \in rooms /\ room_type' = room_type

GameGoesOn(r) ==
    /\ r \in rooms /\ is_game_on[r] /\ room_type'[r] = room_type[r]
    /\ SeatsKept(r) \/ SeatPasses(r)

LEMMA SameSeats ==
    ASSUME NEW r \in RoomIds, SeatsKept(r)
    PROVE  Seats(r)' = Seats(r) /\ SeatedUsers(connections'[r]) = SeatedUsers(connections[r])
BY DEF SeatsKept

LEMMA SeatedBound ==
    ASSUME NEW r \in RoomIds
    PROVE  IsFiniteSet(Seats(r)) /\ Cardinality(Seats(r)) \in Nat
BY RoomAssumption, FS_Subset, FS_CardinalityType

LEMMA SameCount ==
    ASSUME NEW r \in RoomIds, SeatPasses(r)
    PROVE  /\ Cardinality(Seats(r)') = Cardinality(Seats(r))
           /\ SeatedUsers(connections'[r]) = SeatedUsers(connections[r])
<1>1. PICK old \in Conns, c \in Conns :
        /\ connections[r][old] # NONE
        /\ c = old \/ connections[r][c] = NONE
        /\ connections'[r][c] # NONE
        /\ connections'[r][c].user_id = connections[r][old].user_id
        /\ c # old => connections'[r][old] = NONE
        /\ \A s \in Conns \ {c, old} : connections'[r][s] = connections[r][s]
  BY DEF SeatPasses
<1>2. Seats(r)' = (Seats(r) \ {old}) \cup {c}
  BY <1>1
<1> DEFINE S == Seats(r)
<1>3. old \in S /\ IsFiniteSet(S) /\ Cardinality(S) \in Nat /\ c \notin S \ {old}
  BY <1>1, SeatedBound
<1>4. Cardinality(Seats(r)') = Cardinality((S \ {old}) \cup {c})
  BY <1>2
<1> HIDE DEF S
<1>5. Cardinality((S \ {old}) \cup {c}) = Cardinality(S)
  <2>1. IsFiniteSet(S \ {old}) /\ Cardinality(S \ {old}) = Cardinality(S) - 1
    BY <1>3, FS_RemoveElement
  <2>2. Cardinality((S \ {old}) \cup {c}) = Cardinality(S \ {old}) + 1
    BY <1>3, <2>1, FS_AddElement
  <2> QED
    BY <1>3, <2>1, <2>2
<1>6. ASSUME NEW u PROVE u \in SeatedUsers(connections'[r]) <=> u \in SeatedUsers(connections[r])
  <2>1. ASSUME NEW s \in Conns, connections'[r][s] # NONE, connections'[r][s].user_id = u
        PROVE  \E t \in Conns : connections[r][t] # NONE /\ connections[r][t].user_id = u
    BY <1>1, <2>1
  <2>2. ASSUME NEW s \in Conns, connections[r][s] # NONE, connections[r][s].user_id = u
        PROVE  \E t \in Conns : connections'[r][t] # NONE /\ connections'[r][t].user_id = u
    BY <1>1, <2>2
  <2> QED
    BY <2>1, <2>2
<1> QED
  BY <1>4, <1>5, <1>6 DEF S

LEMMA GameStep ==
    ASSUME IInv, NoGameWithoutRoom, Next,
           NEW r \in RoomIds, is_game_on'[r]
    PROVE  r \in rooms' /\ (GameGoesOn(r) \/ GameStarts(r))
<1> USE RoomAssumption
<1> DEFINE Same == /\ r \in rooms' /\ r \in rooms /\ is_game_on[r]
                   /\ room_type'[r] = room_type[r] /\ connections'[r] = connections[r]
<1>0. Same => r \in rooms' /\ GameGoesOn(r)
  BY DEF GameGoesOn, SeatsKept
<1>1. /\ is_game_on \in [RoomIds -> BOOLEAN]
      /\ connections \in [RoomIds -> [Conns -> UserInfo \cup {NONE}]]
      /\ room_type \in [RoomIds -> RoomTypes \cup {NONE}]
      /\ is_game_on[r] => r \in rooms
  BY DEF IInv, TypeOK, NoGameWithoutRoom
<1>2. CASE \E c \in Conns, u \in Users : Authorize(c, u)
  BY <1>0, <1>1, <1>2 DEF Authorize, roomVars
<1>3. ASSUME NEW c \in Conns, NEW q \in RoomIds, NEW t \in RoomTypes, CreateRoom(c, q, t)
      PROVE  Same
  BY <1>1, <1>3 DEF CreateRoom
<1>4. ASSUME NEW c \in Conns, NEW q \in RoomIds, NEW password, JoinRoom(c, q, password)
      PROVE  Same
  BY <1>1, <1>4 DEF JoinRoom, TakeSeat
<1>5. ASSUME NEW c \in Conns, NEW q \in RoomIds, NEW old \in Conns, NEW password,
             RejoinRoom(c, q, old, password)
      PROVE  r \in rooms' /\ GameGoesOn(r)
  <2> DEFINE seat == [user_id |-> clients[c].user_id, user_name |-> clients[c].user_name,
                      offline |-> FALSE, prepared |-> FALSE]
  <2>1. /\ UNCHANGED <<rooms, room_type, is_game_on>>
        /\ connections' = [connections EXCEPT ![q] =
                             [[connections[q] EXCEPT ![old] = NONE] EXCEPT ![c] = seat]]
        /\ connections[q][old] # NONE
        /\ connections[q][old].user_name = clients[c].user_name
        /\ c \in open
    BY <1>5 DEF RejoinRoom, TakeSeat
  <2>2. CASE q # r
    BY <1>0, <1>1, <2>1, <2>2
  <2>3. CASE q = r
    <3>1. /\ clients[c] \in Client
          /\ connections[r][old] \in UserInfo
      BY <2>1, <2>3 DEF IInv, TypeOK, OpenAreAuthorized
    <3>2. connections[r][old].user_id = clients[c].user_id
      BY <2>1, <2>3, <3>1 DEF IInv, NamesAreUsers, OpenAreAuthorized, Client, UserInfo
    <3>3. c = old \/ connections[r][c] = NONE
      BY <2>1, <2>3, <3>2 DEF IInv, OnlineSeatsAreOpen, RegistryMatchesRooms, OneSeatPerUser
    <3>4. seat.user_id = clients[c].user_id /\ seat # NONE
      <4>1. clients[c].user_id \in Users /\ clients[c].user_name \in Names
        BY <3>1 DEF Client
      <4>2. seat \in UserInfo
        BY <4>1 DEF UserInfo
      <4> QED
        BY <4>2
    <3> HIDE DEF seat
    <3>5. /\ connections'[r][c] = seat
          /\ c # old => connections'[r][old] = NONE
          /\ \A s \in Conns \ {c, old} : connections'[r][s] = connections[r][s]
      <4>1. connections'[r] = [[connections[r] EXCEPT ![old] = NONE] EXCEPT ![c] = seat]
        BY <1>1, <2>1, <2>3
      <4>2. connections[r] \in [Conns -> UserInfo \cup {NONE}]
        BY <1>1
      <4> QED
        BY <4>1, <4>2
    <3>6. SeatPasses(r)
      <4>1. connections[r][old] # NONE
        BY <2>1, <2>3
      <4>2. /\ connections'[r][c] # NONE
            /\ connections'[r][c].user_id = connections[r][old].user_id
        BY ONLY <3>2, <3>4, <3>5
      <4> QED
        BY ONLY <3>3, <3>5, <4>1, <4>2, c \in Conns, old \in Conns DEF SeatPasses
    <3> QED
      BY <1>1, <2>1, <3>6 DEF GameGoesOn
  <2> QED
    BY <2>2, <2>3
<1>6. ASSUME NEW c \in Conns, NEW prepare \in BOOLEAN, GamePrepare(c, prepare)
      PROVE  r \in rooms' /\ GameGoesOn(r)
  <2> DEFINE q == PrepareRoom(c)
  <2>1. /\ UNCHANGED <<rooms, room_type, is_game_on>>
        /\ connections' = [connections EXCEPT ![q] = Prepared(c, prepare)]
        /\ q \in rooms /\ connections[q][c] # NONE
    BY <1>6 DEF GamePrepare, CanPrepare
  <2>2. q \in RoomIds
    BY <2>1 DEF IInv, TypeOK
  <2>4. /\ \A s \in Conns : Prepared(c, prepare)[s] # NONE <=> connections[q][s] # NONE
        /\ \A s \in Conns : connections[q][s] # NONE =>
             Prepared(c, prepare)[s].user_id = connections[q][s].user_id
    BY <1>6, PreparedSeats DEF GamePrepare
  <2> HIDE DEF q
  <2>5. SeatsKept(r)
    BY <1>1, <2>1, <2>2, <2>4 DEF SeatsKept
  <2> QED
    BY <1>1, <2>1, <2>5 DEF GameGoesOn
<1>7. ASSUME NEW c \in Conns, NEW prepare \in BOOLEAN, GamePrepareAndStart(c, prepare)
      PROVE  r \in rooms' /\ (GameGoesOn(r) \/ GameStarts(r))
  <2> DEFINE q     == PrepareRoom(c)
             ready == Prepared(c, prepare)
             seats == [s \in Conns |-> IF s \in Seated(ready)
                                       THEN [ready[s] EXCEPT !.prepared = FALSE]
                                       ELSE NONE]
  <2>1. /\ UNCHANGED <<rooms, room_type>>
        /\ is_game_on' = [is_game_on EXCEPT ![q] = TRUE]
        /\ connections' = [connections EXCEPT ![q] = seats]
        /\ q \in rooms /\ connections[q][c] # NONE
        /\ Cardinality(Seated(ready)) \in PlayerRange[room_type[q]]
    BY <1>7 DEF GamePrepareAndStart, CanPrepare, StartsGame
  <2>2. q \in RoomIds
    BY <2>1 DEF IInv, TypeOK
  <2>4. /\ \A s \in Conns : ready[s] # NONE <=> connections[q][s] # NONE
        /\ \A s \in Conns : connections[q][s] # NONE =>
             ready[s].user_id = connections[q][s].user_id /\ ready[s] \in UserInfo
    BY <1>7, PreparedSeats DEF GamePrepareAndStart
  <2> HIDE DEF ready, q
  <2>5. /\ \A s \in Conns : seats[s] # NONE <=> connections[q][s] # NONE
        /\ \A s \in Conns : connections[q][s] # NONE =>
             seats[s].user_id = connections[q][s].user_id
    <3>1. \A s \in Conns : connections[q][s] # NONE =>
             /\ seats[s] \in UserInfo
             /\ seats[s].user_id = connections[q][s].user_id
      BY <2>4 DEF UserInfo
    <3> QED
      BY <2>4, <3>1
  <2>6. Seated(ready) = Seats(q)
    BY <2>4
  <2> HIDE DEF seats
  <2>7. CASE q # r
    BY <1>0, <1>1, <2>1, <2>2, <2>7
  <2>8. CASE q = r
    BY <1>1, <2>1, <2>2, <2>5, <2>6, <2>8 DEF GameStarts, SeatsKept
  <2> QED
    BY <2>7, <2>8
<1>8. ASSUME NEW q \in RoomIds, GameOver(q)
      PROVE  Same
  BY <1>1, <1>8 DEF GameOver
<1>9. ASSUME NEW c \in Conns, CloseDuringGame(c)
      PROVE  r \in rooms' /\ GameGoesOn(r)
  <2> DEFINE q    == get_users_room_id(clients[c].user_id)
             seat == [connections[q][c] EXCEPT !.offline = TRUE]
  <2>1. /\ Unsubscribe(c) /\ connections[q][c] # NONE
        /\ UNCHANGED <<rooms, room_type, is_game_on>>
        /\ connections' = [connections EXCEPT ![q][c].offline = TRUE]
    BY <1>9 DEF CloseDuringGame
  <2>2. q \in RoomIds /\ connections[q][c] \in UserInfo
    BY <2>1, ClosingConnection
  <2>3. seat \in UserInfo /\ seat.user_id = connections[q][c].user_id
    BY <2>2 DEF UserInfo
  <2>4. connections' = [connections EXCEPT ![q] = [connections[q] EXCEPT ![c] = seat]]
    BY <1>1, <2>1, <2>2
  <2> HIDE DEF seat, q
  <2>5. /\ connections'[q][c] = seat /\ seat # NONE
        /\ \A p \in RoomIds, s \in Conns : p # q \/ s # c =>
              connections'[p][s] = connections[p][s]
    BY <1>1, <2>2, <2>3, <2>4
  <2>6. SeatsKept(r)
    BY <2>1, <2>3, <2>5 DEF SeatsKept
  <2> QED
    BY <1>1, <2>1, <2>6 DEF GameGoesOn
<1>10. ASSUME NEW c \in Conns, CloseAndLeave(c)
       PROVE  Same
  BY <1>1, <1>10 DEF CloseAndLeave
<1>11. ASSUME NEW q \in RoomIds, NEW seats, NEW registry, EraseRoom(q, seats, registry)
       PROVE  Same
  BY <1>1, <1>11 DEF EraseRoom
<1>12. ASSUME NEW c \in Conns, CloseAndErase(c)
       PROVE  Same
  BY <1>11, <1>12, ClosingConnection DEF CloseAndErase
<1>13. ASSUME NEW c \in Conns, CloseElsewhere(c)
       PROVE  Same
  BY <1>1, <1>13 DEF CloseElsewhere, roomVars
<1>14. ASSUME Sweeper
       PROVE  Same
  <2>1. CASE \E q \in RoomIds : SweepCheck(q)
    BY <1>1, <2>1 DEF SweepCheck, roomVars
  <2>2. CASE SweepErase
    BY <1>11, <2>2 DEF SweepErase
  <2>3. CASE SweepDangling
    BY <1>1, <2>3 DEF SweepDangling, roomVars
  <2> QED
    BY <1>14, <2>1, <2>2, <2>3 DEF Sweeper
<1> HIDE DEF Same
<1> QED
  BY <1>0, <1>2, <1>3, <1>4, <1>5, <1>6, <1>7, <1>8, <1>9, <1>10, <1>12, <1>13, <1>14
     DEF Next, Handler, Close

\* The invariant about running games, on top of IInv.
GameInv == NoGameWithoutRoom /\ GameHasItsPlayers

LEMMA GameInvStep ==
    ASSUME IInv, GameInv, [Next]_vars
    PROVE  GameInv'
<1>1. CASE Next
  <2>1. ASSUME NEW r \in RoomIds, is_game_on'[r]
        PROVE  r \in rooms' /\ (GameGoesOn(r) \/ GameStarts(r))
    BY <1>1, <2>1, GameStep DEF GameInv
  <2>2. ASSUME NEW r \in RoomIds, is_game_on'[r]
        PROVE  Cardinality(Seats(r)') \in PlayerRange[room_type'[r]]
    <3>1. CASE GameStarts(r)
      <4>1. Seats(r)' = Seats(r)
        BY <3>1, SameSeats DEF GameStarts
      <4>2. Cardinality(Seats(r)) \in PlayerRange[room_type[r]] /\ room_type' = room_type
        BY <3>1 DEF GameStarts
      <4> HIDE DEF Seats
      <4> QED
        BY <4>1, <4>2
    <3>2. CASE GameGoesOn(r)
      <4>1. Cardinality(Seats(r)) \in PlayerRange[room_type[r]] /\ room_type'[r] = room_type[r]
        BY <3>2 DEF GameGoesOn, GameInv, GameHasItsPlayers
      <4>2. Cardinality(Seats(r)') = Cardinality(Seats(r))
        BY <3>2, SameSeats, SameCount DEF GameGoesOn
      <4> HIDE DEF Seats
      <4> QED
        BY <4>1, <4>2
    <3> QED
      BY <2>1, <2>2, <3>1, <3>2
  <2>3. rooms' \subseteq RoomIds
    BY <1>1, NextInv DEF IInv, TypeOK
  <2> QED
    BY <2>1, <2>2, <2>3 DEF GameInv, NoGameWithoutRoom, GameHasItsPlayers
<1>2. CASE UNCHANGED vars
  BY <1>2 DEF vars, roomVars, GameInv, NoGameWithoutRoom, GameHasItsPlayers
<1> QED
  BY <1>1, <1>2

\* A running game always has a number of seats its rules accept.
THEOREM GamesAreStaffed == Spec => []GameHasItsPlayers
<1>1. Init => GameInv
  BY DEF Init, GameInv, NoGameWithoutRoom, GameHasItsPlayers
<1>2. IInv /\ GameInv /\ [Next]_vars => GameInv'
  BY GameInvStep
<1>3. GameInv => GameHasItsPlayers
  BY DEF GameInv
<1> QED
  BY <1>1, <1>2, <1>3, Inductive, PTL DEF Spec

\* While a game is on, nobody enters or leaves its room.
THEOREM RosterIsFrozen == Spec => RosterFrozen
<1>1. Init => GameInv
  BY DEF Init, GameInv, NoGameWithoutRoom, GameHasItsPlayers
<1>2. IInv /\ GameInv /\ [Next]_vars => GameInv'
  BY GameInvStep
<1>3. IInv /\ GameInv /\ [Next]_vars =>
        [\A r \in rooms \cap rooms' :
          is_game_on[r] /\ is_game_on'[r] =>
            SeatedUsers(connections'[r]) = SeatedUsers(connections[r])]_vars
  <2> SUFFICES ASSUME IInv, GameInv, Next, NEW r \in rooms \cap rooms', is_game_on'[r]
               PROVE  SeatedUsers(connections'[r]) = SeatedUsers(connections[r])
    OBVIOUS
  <2>1. r \in RoomIds
    BY DEF IInv, TypeOK
  <2>2. GameGoesOn(r) \/ GameStarts(r)
    BY <2>1, GameStep DEF GameInv
  <2> QED
    BY <2>1, <2>2, SameSeats, SameCount DEF GameGoesOn, GameStarts
<1> QED
  BY <1>1, <1>2, <1>3, Inductive, PTL DEF Spec, RosterFrozen

--------------------------------------------------------------------------------
(* The proof that RoomManager keeps the promise of Registry. *)

USE DEF Promised!Roster

\* What the refinement needs beside the invariants of RoomManagerProofs: a room
\* has a kind exactly while it exists, and the sweeper holds no iterator to a
\* room that is gone without its being DANGLING.
KindsKnown     == \A r \in RoomIds : r \in rooms <=> room_type[r] # NONE
IteratorIsRoom == iterator \in RoomIds => iterator \in rooms

RInv == GameInv /\ KindsKnown /\ IteratorIsRoom

\* The users that the registry sends to a room are those who sit in it.
LEMMA RosterIsSeated ==
    ASSUME IInv, NEW r \in RoomIds
    PROVE  Promised!Roster(r) = SeatedUsers(connections[r])
<1> USE RoomAssumption DEF IInv, RegistryMatchesRooms
<1>1. r # NONE
  OBVIOUS
<1>2. ASSUME NEW u \in Users, user_2_room_id[u] = r
      PROVE  \E s \in Conns : connections[r][s] # NONE /\ connections[r][s].user_id = u
  BY <1>1, <1>2 DEF RegisteredIsSeated
<1>3. ASSUME NEW s \in Conns, connections[r][s] # NONE
      PROVE  connections[r][s].user_id \in Users /\ user_2_room_id[connections[r][s].user_id] = r
  BY <1>3 DEF SeatIsRegistered, TypeOK, UserInfo
<1> QED
  BY <1>2, <1>3

\* Since nobody has two seats, there are as many users in a room as seats.
LEMMA RosterCount ==
    ASSUME IInv, NEW r \in RoomIds
    PROVE  Cardinality(Promised!Roster(r)) = Cardinality(Seated(connections[r]))
<1> DEFINE S == Seated(connections[r])
           R == Promised!Roster(r)
           f == [s \in S |-> connections[r][s].user_id]
<1>1. IsFiniteSet(S)
  <2>1. S \subseteq Conns
    OBVIOUS
  <2> QED
    BY <2>1, RoomAssumption, FS_Subset
<1>2. R = SeatedUsers(connections[r])
  BY RosterIsSeated
<1>3. \A s, t \in S : f[s] = f[t] => s = t
  BY DEF IInv, RegistryMatchesRooms, OneSeatPerUser
<1>4. f \in [S -> R] /\ \A u \in R : \E s \in S : f[s] = u
  BY <1>2
<1>5. f \in Bijection(S, R)
  <2> HIDE DEF S, R, f
  <2> QED
    BY <1>3, <1>4 DEF Bijection, Injection, Surjection, IsInjective
<1>6. Cardinality(S) = Cardinality(R)
  <2>1. ExistsBijection(S, R)
    BY <1>5 DEF ExistsBijection
  <2> HIDE DEF S, R, f
  <2> QED
    BY <1>1, <2>1, FS_Bijection
<1> QED
  BY <1>6

--------------------------------------------------------------------------------
\* What a step of RoomManager is in Registry.
registryVars == <<room_type, user_2_room_id, is_game_on>>
Promise == Promised!Next \/ UNCHANGED registryVars

\* CREATE_ROOM opens a room whose number is free.
LEMMA OpenStep ==
    ASSUME IInv, RInv, NEW c \in Conns, NEW r \in RoomIds, NEW t \in RoomTypes,
           CreateRoom(c, r, t)
    PROVE  Promise /\ KindsKnown' /\ IteratorIsRoom'
<1> USE RoomAssumption, KindAssumption DEF IInv, RInv, KindsKnown, IteratorIsRoom, CreateRoom
<1>1. Promised!Open(r, t)
  BY DEF Promised!Open
<1>2. KindsKnown' /\ IteratorIsRoom'
  BY DEF TypeOK
<1> QED
  BY <1>1, <1>2 DEF Promise, Promised!Next

\* JOIN_ROOM brings in a user who is registered nowhere, while no game is on.
LEMMA EnterStep ==
    ASSUME IInv, RInv, NEW c \in Conns, NEW r \in RoomIds, NEW password,
           JoinRoom(c, r, password)
    PROVE  Promise /\ KindsKnown' /\ IteratorIsRoom'
<1> USE RoomAssumption DEF IInv, RInv, KindsKnown, IteratorIsRoom, JoinRoom, TakeSeat
<1>1. clients[c].user_id \in Users
  BY DEF TypeOK, OpenAreAuthorized, Client
<1>2. Promised!Enter(clients[c].user_id, r)
  BY DEF Promised!Enter
<1>3. KindsKnown' /\ IteratorIsRoom'
  OBVIOUS
<1> QED
  BY <1>1, <1>2, <1>3 DEF Promise, Promised!Next

\* A player who comes back is registered in the room already.
LEMMA RejoinStep ==
    ASSUME IInv, RInv, NEW c \in Conns, NEW r \in RoomIds, NEW old \in Conns, NEW password,
           RejoinRoom(c, r, old, password)
    PROVE  Promise /\ KindsKnown' /\ IteratorIsRoom'
<1> USE RoomAssumption DEF IInv, RInv, KindsKnown, IteratorIsRoom
<1>1. /\ UNCHANGED <<rooms, room_type, is_game_on, iterator>>
      /\ user_2_room_id' = [user_2_room_id EXCEPT ![clients[c].user_id] = r]
      /\ connections[r][old] # NONE
      /\ connections[r][old].user_name = clients[c].user_name
      /\ c \in open
  BY DEF RejoinRoom, TakeSeat
<1>2. clients[c] \in Client /\ connections[r][old] \in UserInfo
  BY <1>1 DEF TypeOK, OpenAreAuthorized
<1>3. connections[r][old].user_id = clients[c].user_id
  BY <1>1, <1>2 DEF NamesAreUsers, OpenAreAuthorized, Client, UserInfo
<1>4. user_2_room_id[clients[c].user_id] = r
  BY <1>1, <1>3 DEF RegistryMatchesRooms, SeatIsRegistered
<1>5. user_2_room_id' = user_2_room_id
  BY <1>1, <1>4 DEF TypeOK
<1> QED
  BY <1>1, <1>5 DEF Promise, registryVars

\* Registry and RoomManager count with the same operator.
LEMMA SameCardinality == \A S : Promised!Cardinality(S) = Cardinality(S)
BY DEF Promised!Cardinality, Cardinality

\* The last one to prepare starts a game with the head count its rules accept.
LEMMA StartStep ==
    ASSUME IInv, RInv, NEW c \in Conns, NEW prepare \in BOOLEAN,
           GamePrepareAndStart(c, prepare)
    PROVE  Promise /\ KindsKnown' /\ IteratorIsRoom'
<1> DEFINE r == PrepareRoom(c)
<1> USE RoomAssumption DEF RInv, KindsKnown, IteratorIsRoom
<1>1. /\ UNCHANGED <<rooms, room_type, user_2_room_id, iterator>>
      /\ is_game_on' = [is_game_on EXCEPT ![r] = TRUE]
      /\ r \in rooms
      /\ Cardinality(Seated(Prepared(c, prepare))) \in PlayerRange[room_type[r]]
  BY DEF GamePrepareAndStart, CanPrepare, StartsGame
<1>2. r \in RoomIds
  BY <1>1 DEF IInv, TypeOK
<1>3. Seated(Prepared(c, prepare)) = Seated(connections[r])
  BY PreparedSeats DEF GamePrepareAndStart
<1> HIDE DEF r
<1>4. Cardinality(Promised!Roster(r)) \in PlayerRange[room_type[r]]
  <2>1. Cardinality(Promised!Roster(r)) = Cardinality(Seated(Prepared(c, prepare)))
    BY <1>2, <1>3, RosterCount
  <2> QED
    BY <1>1, <2>1
<1>5. Promised!Start(r)
  <2> HIDE DEF Promised!Roster
  <2> QED
    BY <1>1, <1>2, <1>4, SameCardinality DEF Promised!Start
<1> QED
  BY <1>1, <1>2, <1>5 DEF Promise, Promised!Next

\* The end of a game frees nobody from the room.
LEMMA FinishStep ==
    ASSUME IInv, RInv, NEW r \in RoomIds, GameOver(r)
    PROVE  Promise /\ KindsKnown' /\ IteratorIsRoom'
<1> USE DEF RInv, KindsKnown, IteratorIsRoom, GameOver
<1>1. Promised!Finish(r)
  BY DEF Promised!Finish
<1> QED
  BY <1>1 DEF Promise, Promised!Next

\* A user who leaves takes nobody along; a connection without a seat, nobody.
LEMMA DepartStep ==
    ASSUME IInv, RInv, NEW c \in Conns, CloseAndLeave(c)
    PROVE  Promise /\ KindsKnown' /\ IteratorIsRoom'
<1> DEFINE r == get_users_room_id(clients[c].user_id)
           u == connections[r][c].user_id
<1> USE RoomAssumption DEF RInv, KindsKnown, IteratorIsRoom
<1>1. /\ UNCHANGED <<rooms, room_type, is_game_on, iterator>>
      /\ r \in rooms /\ ~is_game_on[r]
      /\ user_2_room_id' = RegistryAfter(c, r)
  BY DEF CloseAndLeave
<1>2. r \in RoomIds
  BY <1>1 DEF IInv, TypeOK
<1> HIDE DEF r
<1>3. CASE connections[r][c] # NONE
  <2>1. u \in Users /\ user_2_room_id[u] = r
    BY <1>2, <1>3 DEF IInv, TypeOK, UserInfo, RegistryMatchesRooms, SeatIsRegistered
  <2>2. user_2_room_id' = [user_2_room_id EXCEPT ![u] = NONE]
    BY <1>1, <1>3 DEF RegistryAfter
  <2> HIDE DEF u
  <2>3. Promised!Depart(u)
    BY <1>1, <1>2, <2>1, <2>2 DEF Promised!Depart
  <2> QED
    BY <1>1, <2>1, <2>3 DEF Promise, Promised!Next
<1>4. CASE connections[r][c] = NONE
  BY <1>1, <1>4 DEF RegistryAfter, Promise, registryVars
<1> QED
  BY <1>3, <1>4

\* The erasure of a room, by a handler or the sweeper, frees who was in it.
LEMMA CloseStep ==
    ASSUME IInv, RInv, NEW r \in RoomIds, r \in rooms, NEW seats, NEW registry,
           EraseRoom(r, seats, registry),
           \A u \in Users : user_2_room_id[u] = r =>
               u \in SeatedUsers(seats) \/ registry[u] = NONE,
           \A u \in Users : user_2_room_id[u] # r =>
               u \notin SeatedUsers(seats) /\ registry[u] = user_2_room_id[u]
    PROVE  Promised!Next /\ KindsKnown'
<1> USE RoomAssumption DEF RInv, KindsKnown, EraseRoom
<1>1. user_2_room_id' = [u \in Users |-> IF user_2_room_id[u] = r THEN NONE
                                         ELSE user_2_room_id[u]]
  OBVIOUS
<1>2. Promised!Close(r)
  BY <1>1 DEF Promised!Close
<1>3. KindsKnown'
  BY DEF IInv, TypeOK
<1> QED
  BY <1>2, <1>3 DEF Promised!Next

\* The last connection of a deserted room closes: the room goes with all its users.
LEMMA CloseAndEraseStep ==
    ASSUME IInv, RInv, NEW c \in Conns, CloseAndErase(c)
    PROVE  Promise /\ KindsKnown' /\ IteratorIsRoom'
<1> DEFINE r        == get_users_room_id(clients[c].user_id)
           seats    == SeatsAfter(c, r)
           registry == RegistryAfter(c, r)
<1> USE RoomAssumption DEF IInv
<1>1. /\ EraseRoom(r, seats, registry)
      /\ iterator' = IF iterator = r THEN DANGLING ELSE iterator
      /\ r \in rooms
  BY DEF CloseAndErase
<1>2. r \in RoomIds
  BY <1>1 DEF TypeOK
<1> HIDE DEF r
<1>3. \A s \in Conns : seats[s] = IF s = c THEN NONE ELSE connections[r][s]
  BY <1>2 DEF SeatsAfter, TypeOK
<1>4. /\ connections[r][c] = NONE => registry = user_2_room_id
      /\ connections[r][c] # NONE =>
            registry = [user_2_room_id EXCEPT ![connections[r][c].user_id] = NONE]
  BY DEF RegistryAfter
<1>5. ASSUME NEW s \in Conns, connections[r][s] # NONE
      PROVE  connections[r][s].user_id \in Users /\ user_2_room_id[connections[r][s].user_id] = r
  BY <1>2, <1>5 DEF TypeOK, UserInfo, RegistryMatchesRooms, SeatIsRegistered
<1> HIDE DEF seats, registry
<1>6. ASSUME NEW u \in Users, user_2_room_id[u] = r
      PROVE  u \in SeatedUsers(seats) \/ registry[u] = NONE
  <2>1. PICK s \in Conns : connections[r][s] # NONE /\ connections[r][s].user_id = u
    BY <1>2, <1>6 DEF RegistryMatchesRooms, RegisteredIsSeated
  <2>2. CASE s = c
    BY <1>4, <2>1, <2>2 DEF TypeOK
  <2>3. CASE s # c
    BY <1>3, <2>1, <2>3
  <2> QED
    BY <2>2, <2>3
<1>7. ASSUME NEW u \in Users, user_2_room_id[u] # r
      PROVE  u \notin SeatedUsers(seats) /\ registry[u] = user_2_room_id[u]
  BY <1>3, <1>4, <1>5, <1>7 DEF TypeOK
<1>8. Promised!Next /\ KindsKnown'
  BY <1>1, <1>2, <1>6, <1>7, CloseStep
<1>9. IteratorIsRoom'
  BY <1>1, <1>2 DEF RInv, IteratorIsRoom, EraseRoom
<1> QED
  BY <1>8, <1>9 DEF Promise

\* The sweeper erases the room of its iterator, with whoever sits in it by then.
LEMMA SweepEraseStep ==
    ASSUME IInv, RInv, SweepErase
    PROVE  Promise /\ KindsKnown' /\ IteratorIsRoom'
<1> USE RoomAssumption DEF IInv
<1> DEFINE r == iterator
<1>1. /\ r \in RoomIds /\ r \in rooms
      /\ EraseRoom(r, connections[r], user_2_room_id)
      /\ iterator' = NONE
  BY DEF SweepErase, RInv, IteratorIsRoom
<1>2. ASSUME NEW u \in Users
      PROVE  u \in SeatedUsers(connections[r]) <=> user_2_room_id[u] = r
  BY <1>1, RosterIsSeated
<1>3. Promised!Next /\ KindsKnown'
  BY <1>1, <1>2, CloseStep
<1>4. IteratorIsRoom'
  BY <1>1 DEF IteratorIsRoom
<1> QED
  BY <1>3, <1>4 DEF Promise

\* Every step of the handlers and the sweeper is a promised one or a stutter.
LEMMA PromiseStep ==
    ASSUME IInv, RInv, [Next]_vars
    PROVE  Promise /\ RInv'
<1> DEFINE Good == Promise /\ KindsKnown' /\ IteratorIsRoom'
<1>1. ASSUME UNCHANGED registryVars, UNCHANGED rooms,
             iterator' = iterator \/ iterator' \in rooms \/ iterator' \notin RoomIds
      PROVE  Good
  BY <1>1 DEF Promise, registryVars, RInv, KindsKnown, IteratorIsRoom
<1>2. ASSUME UNCHANGED vars PROVE Good
  BY <1>1, <1>2 DEF vars, roomVars, registryVars
<1>3. ASSUME Next PROVE Good
  <2>1. ASSUME NEW c \in Conns, NEW u \in Users, Authorize(c, u)
        PROVE  Good
    BY <1>1, <2>1 DEF Authorize, roomVars, registryVars
  <2>2. ASSUME NEW c \in Conns, NEW prepare \in BOOLEAN, GamePrepare(c, prepare)
        PROVE  Good
    BY <1>1, <2>2 DEF GamePrepare, registryVars
  <2>3. ASSUME NEW c \in Conns, CloseDuringGame(c) \/ CloseElsewhere(c)
        PROVE  Good
    BY <1>1, <2>3 DEF CloseDuringGame, CloseElsewhere, roomVars, registryVars
  <2>4. ASSUME NEW r \in RoomIds, SweepCheck(r)
        PROVE  Good
    BY <1>1, <2>4 DEF SweepCheck, roomVars, registryVars
  <2>5. ASSUME SweepDangling
        PROVE  Good
    BY <1>1, <2>5 DEF SweepDangling, roomVars, registryVars
  <2> HIDE DEF Good
  <2>6. CASE Handler
    <3>1. ASSUME NEW c \in Conns, Close(c)
          PROVE  Good
      BY <2>3, <3>1, DepartStep, CloseAndEraseStep DEF Close, Good
    <3> QED
      BY <2>1, <2>2, <2>6, <3>1, OpenStep, EnterStep, RejoinStep, StartStep, FinishStep
         DEF Handler, Good
  <2>7. CASE Sweeper
    BY <2>4, <2>5, <2>7, SweepEraseStep DEF Sweeper, Good
  <2> QED
    BY <1>3, <2>6, <2>7 DEF Next
<1>4. GameInv'
  BY GameInvStep DEF RInv
<1> QED
  BY <1>2, <1>3, <1>4 DEF RInv

\* Every behaviour of the rooms, under all interleavings of handlers and the
\* sweeper, is one that Registry promises.
THEOREM RoomsKeepPromise == Spec => ImplementsRegistry
<1>1. Init => Promised!Init
  BY DEF Init, Promised!Init
<1>2. Init => RInv
  BY RoomAssumption, KindAssumption DEF Init, RInv, GameInv, NoGameWithoutRoom, GameHasItsPlayers,
     KindsKnown, IteratorIsRoom
<1>3. IInv /\ RInv /\ [Next]_vars => RInv'
  BY PromiseStep
<1>4. IInv /\ RInv /\ [Next]_vars => [Promised!Next]_(Promised!vars)
  BY PromiseStep DEF Promise, registryVars, Promised!vars
<1> QED
  BY <1>1, <1>2, <1>3, <1>4, Inductive, PTL DEF Spec, ImplementsRegistry, Promised!Spec

================================================================================
