-------------------------------- MODULE Registry -------------------------------
(***************************************************************************)
(* What the rooms promise their users, whatever connections are opened and *)
(* closed meanwhile: everybody is in one room at most, a game is played by *)
(* the users it began with, and its head count is one its rules accept.    *)
(* RoomManager implements this.                                            *)
(***************************************************************************)
EXTENDS Naturals, FiniteSets

CONSTANTS
    Users, RoomIds, RoomTypes,
    HeadCounts,     \* how many users each kind of game takes
    NONE

VARIABLES
    kind,           \* the kind of each room, NONE of an id that is free
    home,           \* the room each user is in
    playing         \* whether a game is on in a room

vars == <<kind, home, playing>>

Roster(r) == {u \in Users : home[u] = r}

Init ==
    /\ kind = [r \in RoomIds |-> NONE]
    /\ home = [u \in Users |-> NONE]
    /\ playing = [r \in RoomIds |-> FALSE]

Open(r, t) ==
    /\ kind[r] = NONE
    /\ kind' = [kind EXCEPT ![r] = t]
    /\ UNCHANGED <<home, playing>>

Enter(u, r) ==
    /\ kind[r] # NONE /\ ~playing[r]
    /\ home[u] = NONE
    /\ home' = [home EXCEPT ![u] = r]
    /\ UNCHANGED <<kind, playing>>

Depart(u) ==
    /\ home[u] # NONE /\ ~playing[home[u]]
    /\ home' = [home EXCEPT ![u] = NONE]
    /\ UNCHANGED <<kind, playing>>

Start(r) ==
    /\ kind[r] # NONE
    /\ Cardinality(Roster(r)) \in HeadCounts[kind[r]]
    /\ playing' = [playing EXCEPT ![r] = TRUE]
    /\ UNCHANGED <<kind, home>>

Finish(r) ==
    /\ playing[r]
    /\ playing' = [playing EXCEPT ![r] = FALSE]
    /\ UNCHANGED <<kind, home>>

\* A room goes with all who are in it.
Close(r) ==
    /\ kind[r] # NONE
    /\ kind' = [kind EXCEPT ![r] = NONE]
    /\ home' = [u \in Users |-> IF home[u] = r THEN NONE ELSE home[u]]
    /\ playing' = [playing EXCEPT ![r] = FALSE]

Next ==
    \/ \E r \in RoomIds :
          \/ \E t \in RoomTypes : Open(r, t)
          \/ \E u \in Users : Enter(u, r)
          \/ Start(r) \/ Finish(r) \/ Close(r)
    \/ \E u \in Users : Depart(u)

Spec == Init /\ [][Next]_vars
================================================================================
