-------------------------------- MODULE WsServer -------------------------------
(***************************************************************************)
(* The connections of the server: class WsServer.                          *)
(*                                                                         *)
(* Three threads meet here.  The I/O thread queues what happens to a       *)
(* connection and wakes the processor; the processor takes one action at a *)
(* time and runs its handler to the end; the sender empties the queue of   *)
(* responses, and looks up where each goes in a map of the processor's,    *)
(* without a lock.  Rooms, their broadcasts, and the threads of Gomoku     *)
(* push responses to connection ids that may be gone by then: a room keeps *)
(* the seats of players who are offline.                                   *)
(*                                                                         *)
(* User ids and connection ids are both numbers, and one handler takes the *)
(* one for the other.                                                      *)
(***************************************************************************)
EXTENDS Naturals, Sequences, SequencesExt, FiniteSets

CONSTANTS
    Hdls,           \* connection_hdl: connections as the library knows them
    Users,          \* user ids
    UserOf,         \* whose sessdata the client at the end of an hdl has
    MaxActions,     \* bound: actions in the queue
    MaxResponses,   \* bound: responses in the queue
    NONE            \* no entry; a connection_hdl made by operator[]

VARIABLES
    session,            \* of each hdl, in the library: "new", "open", "closed"
    actions,            \* WsServer::actions
    notifying,          \* the I/O thread has pushed and not yet notified
    waiting,            \* the processor waits for action_cond
    conn_id,            \* the static counter: the last id handed out
    connections,        \* WsServer::connections, without the user's name
    conn_id_2_hdl,      \* WsServer::conn_id_2_hdl
    user_id_2_conn_id,  \* WsServer::user_id_2_conn_id, as a set of pairs
    responses,          \* WsServer::responses; user is whom one is meant for
    holder              \* history variable: the user of each id handed out

maps  == <<connections, conn_id_2_hdl, user_id_2_conn_id>>
io    == <<session, notifying>>
vars  == <<io, actions, waiting, conn_id, maps, responses, holder>>

--------------------------------------------------------------------------------
\* What a client sends: sessdata that Authorizer accepts, a whisper, told by its
\* receiver, or a message for the rooms.
Message ==
    [type : {"WHISPER_MESSAGE"}, user : Users] \cup [type : {"AUTHORIZE", "ROOM"}]

Action ==
    [type : {"SUBSCRIBE", "UNSUBSCRIBE"}, hdl : Hdls]
      \cup [type : {"MESSAGE"}, hdl : Hdls, msg : Message]

ConnIds    == 1..Cardinality(Hdls)
Connection == [user_id : Users, conn_id : ConnIds]
Response   == [conn_id : ConnIds, user : Users]

ASSUME WsAssumption ==
    /\ IsFiniteSet(Hdls) /\ NONE \notin Hdls \cup Connection
    /\ Users \subseteq Nat \ {0}
    /\ UserOf \in [Hdls -> Users]
    /\ {MaxActions, MaxResponses} \subseteq Nat

Init ==
    /\ session = [h \in Hdls |-> "new"]
    /\ actions = <<>>
    /\ notifying = FALSE
    /\ waiting = FALSE
    /\ conn_id = 0
    /\ connections = [h \in Hdls |-> NONE]
    /\ conn_id_2_hdl = [c \in {} |-> NONE]
    /\ user_id_2_conn_id = {}
    /\ responses = <<>>
    /\ holder = <<>>

--------------------------------------------------------------------------------
(* The I/O thread.  The library calls nothing for a connection before on_open *)
(* or after on_close.                                                         *)

Push(a) ==
    /\ ~notifying
    /\ Len(actions) < MaxActions
    /\ actions' = Append(actions, a)
    /\ notifying' = TRUE
    /\ UNCHANGED <<waiting, conn_id, maps, responses, holder>>

OnOpen(h) ==
    /\ session[h] = "new"
    /\ session' = [session EXCEPT ![h] = "open"]
    /\ Push([type |-> "SUBSCRIBE", hdl |-> h])

\* Mutant: nobody is notified.
OnClose_Silently(h) ==
    /\ session[h] = "open"
    /\ session' = [session EXCEPT ![h] = "closed"]
    /\ ~notifying /\ Len(actions) < MaxActions
    /\ actions' = Append(actions, [type |-> "UNSUBSCRIBE", hdl |-> h])
    /\ UNCHANGED <<notifying, waiting, conn_id, maps, responses, holder>>

OnClose(h) ==
    /\ session[h] = "open"
    /\ session' = [session EXCEPT ![h] = "closed"]
    /\ Push([type |-> "UNSUBSCRIBE", hdl |-> h])

OnMessage(h, msg) ==
    /\ session[h] = "open"
    /\ UNCHANGED session
    /\ Push([type |-> "MESSAGE", hdl |-> h, msg |-> msg])

\* notify_one, after action_lock was released.
Notify ==
    /\ notifying
    /\ notifying' = FALSE
    /\ waiting' = FALSE
    /\ UNCHANGED <<session, actions, conn_id, maps, responses, holder>>

--------------------------------------------------------------------------------
(* The processor. *)

\* The queue is empty: wait gives action_lock back in the same moment.
Wait ==
    /\ ~waiting /\ actions = <<>>
    /\ waiting' = TRUE
    /\ UNCHANGED <<io, actions, conn_id, maps, responses, holder>>

\* A condition variable may wake without a cause.
WakeSpuriously ==
    /\ waiting
    /\ waiting' = FALSE
    /\ UNCHANGED <<io, actions, conn_id, maps, responses, holder>>

Pop(type) ==
    /\ ~waiting /\ actions # <<>>
    /\ Head(actions).type = type
    /\ actions' = Tail(actions)
    /\ UNCHANGED <<io, waiting>>

Sender == Head(actions).hdl     \* the connection the action is about
Msg    == Head(actions).msg

Authorized(h) == connections[h] # NONE

\* SUBSCRIBE does nothing, nor does a message of a connection that has not been
\* authorized, be it an AUTHORIZE with sessdata that is refused.
Ignore ==
    /\ \/ Pop("SUBSCRIBE")
       \/ Pop("MESSAGE") /\ ~Authorized(Sender)
       \/ Pop("UNSUBSCRIBE") /\ ~Authorized(Sender)
    /\ UNCHANGED <<conn_id, maps, responses, holder>>

\* Mutant: the next id is the number of connections, so that ids come back.
Authorize_ReusesIds ==
    /\ Pop("MESSAGE")
    /\ ~Authorized(Sender) /\ Msg.type = "AUTHORIZE"
    /\ LET id == 1 + Cardinality({h \in Hdls : Authorized(h)})
       IN  /\ conn_id' = id
           /\ connections' = [connections EXCEPT ![Sender] =
                                  [user_id |-> UserOf[Sender], conn_id |-> id]]
           /\ conn_id_2_hdl' = [c \in DOMAIN conn_id_2_hdl \cup {id} |->
                                  IF c = id THEN Sender ELSE conn_id_2_hdl[c]]
           /\ user_id_2_conn_id' = user_id_2_conn_id \cup {<<UserOf[Sender], id>>}
           /\ holder' = [c \in DOMAIN holder \cup {id} |->
                                  IF c = id THEN UserOf[Sender] ELSE holder[c]]
    /\ UNCHANGED responses

\* Mutant: AUTHORIZE is taken before the connection is looked up.
Authorize_Again ==
    /\ Pop("MESSAGE")
    /\ Msg.type = "AUTHORIZE"
    /\ LET id == conn_id + 1
       IN  /\ conn_id' = id
           /\ connections' = [connections EXCEPT ![Sender] =
                                  [user_id |-> UserOf[Sender], conn_id |-> id]]
           /\ conn_id_2_hdl' = [c \in DOMAIN conn_id_2_hdl \cup {id} |->
                                  IF c = id THEN Sender ELSE conn_id_2_hdl[c]]
           /\ user_id_2_conn_id' = user_id_2_conn_id \cup {<<UserOf[Sender], id>>}
    /\ holder' = Append(holder, UserOf[Sender])
    /\ UNCHANGED responses

Authorize ==
    /\ Pop("MESSAGE")
    /\ ~Authorized(Sender) /\ Msg.type = "AUTHORIZE"
    /\ LET id == conn_id + 1
       IN  /\ conn_id' = id
           /\ connections' = [connections EXCEPT ![Sender] =
                                  [user_id |-> UserOf[Sender], conn_id |-> id]]
           /\ conn_id_2_hdl' = [c \in DOMAIN conn_id_2_hdl \cup {id} |->
                                  IF c = id THEN Sender ELSE conn_id_2_hdl[c]]
           /\ user_id_2_conn_id' = user_id_2_conn_id \cup {<<UserOf[Sender], id>>}
    /\ holder' = Append(holder, UserOf[Sender])
    /\ UNCHANGED responses

PushMessages(rs) ==
    /\ Len(responses) + Len(rs) <= MaxResponses
    /\ responses' = responses \o rs

\* WHISPER_MESSAGE: to all connections listed for the receiver, in any order.
\* The echo to its sender goes out at once.
Whisper ==
    /\ Pop("MESSAGE")
    /\ Authorized(Sender) /\ Msg.type = "WHISPER_MESSAGE"
    /\ PushMessages(SetToSeq({[conn_id |-> p[2], user |-> Msg.user] :
                                p \in {q \in user_id_2_conn_id : q[1] = Msg.user}}))
    /\ UNCHANGED <<conn_id, maps, holder>>

\* RoomManager's answer or broadcast: to an id that is or was in a room. One
\* stands for all of them, which go out one by one as well.
Answers == {<<>>} \cup {<<[conn_id |-> c, user |-> holder[c]]>> : c \in DOMAIN holder}

\* Everything else goes to the rooms, a second AUTHORIZE too, which they ignore;
\* READ_WHISPER_MESSAGES changes nothing here either.
ToRooms ==
    /\ Pop("MESSAGE")
    /\ Authorized(Sender) /\ Msg.type # "WHISPER_MESSAGE"
    /\ \E rs \in Answers : PushMessages(rs)
    /\ UNCHANGED <<conn_id, maps, holder>>

\* Mutant: the entry in conn_id_2_hdl is kept.
Unsubscribe_KeepsHdl ==
    LET id == connections[Sender].conn_id
    IN  /\ Pop("UNSUBSCRIBE")
        /\ Authorized(Sender)
        /\ \E rs \in Answers : PushMessages(rs)
        /\ user_id_2_conn_id' = {p \in user_id_2_conn_id : p[1] # id}
        /\ connections' = [connections EXCEPT ![Sender] = NONE]
        /\ UNCHANGED <<conn_id, conn_id_2_hdl, holder>>

\* UNSUBSCRIBE: the room is told, and the maps are cleaned; the multimap, which
\* is keyed by user ids, by the connection's id.
Unsubscribe ==
    LET id == connections[Sender].conn_id
    IN  /\ Pop("UNSUBSCRIBE")
        /\ Authorized(Sender)
        /\ \E rs \in Answers : PushMessages(rs)
        /\ conn_id_2_hdl' = [c \in DOMAIN conn_id_2_hdl \ {id} |-> conn_id_2_hdl[c]]
        /\ user_id_2_conn_id' = {p \in user_id_2_conn_id : p[1] # id}
        /\ connections' = [connections EXCEPT ![Sender] = NONE]
        /\ UNCHANGED <<conn_id, holder>>

Process == Ignore \/ Authorize \/ Whisper \/ ToRooms \/ Unsubscribe

--------------------------------------------------------------------------------
\* The broadcast of a Gomoku thread. It may come at any time; the bound here, an
\* empty queue, leaves room for the processor.
ThreadPush ==
    /\ responses = <<>>
    /\ \E rs \in Answers \ {<<>>} : PushMessages(rs)
    /\ UNCHANGED <<io, actions, waiting, conn_id, maps, holder>>

\* The hdl that conn_id_2_hdl[c] yields.
HdlOf(c) == IF c \in DOMAIN conn_id_2_hdl THEN conn_id_2_hdl[c] ELSE NONE

\* send_message: operator[] inserts an entry for an id that has none.  A send
\* to a connection that is not open throws and is dropped.
SendMessage ==
    /\ responses # <<>>
    /\ LET c == Head(responses).conn_id
       IN  conn_id_2_hdl' = [d \in DOMAIN conn_id_2_hdl \cup {c} |-> HdlOf(d)]
    /\ responses' = Tail(responses)
    /\ UNCHANGED <<io, actions, waiting, conn_id, connections, user_id_2_conn_id, holder>>

--------------------------------------------------------------------------------
Next ==
    \/ \E h \in Hdls :
          \/ OnOpen(h)
          \/ OnClose(h)
          \/ \E msg \in Message : OnMessage(h, msg)
    \/ Notify
    \/ Wait \/ WakeSpuriously \/ Process
    \/ ThreadPush
    \/ SendMessage

Spec == Init /\ [][Next]_vars

\* The three threads go on while they can; nothing closes a connection for sure.
\* The code's queue of responses has no bound, so only MaxResponses can stop the
\* processor: the sender makes room, and the strong fairness of Process says no
\* more than that the processor of the code would not have waited for it.
FairSpec == Spec /\ WF_vars(Notify) /\ SF_vars(Process) /\ WF_vars(SendMessage)

--------------------------------------------------------------------------------
\* Types and bounds: a connection is authorized once at most.
TypeOK ==
    /\ session \in [Hdls -> {"new", "open", "closed"}]
    /\ actions \in Seq(Action) /\ Len(actions) <= MaxActions
    /\ {notifying, waiting} \subseteq BOOLEAN
    /\ conn_id \in 0..Cardinality(Hdls)
    /\ connections \in [Hdls -> Connection \cup {NONE}]
    /\ DOMAIN conn_id_2_hdl \subseteq ConnIds
    /\ \A c \in DOMAIN conn_id_2_hdl : conn_id_2_hdl[c] \in Hdls \cup {NONE}
    /\ user_id_2_conn_id \subseteq Users \X ConnIds
    /\ responses \in Seq(Response) /\ Len(responses) <= MaxResponses
    /\ holder \in Seq(Users) /\ Len(holder) = conn_id

\* A connection the server knows is open, or its UNSUBSCRIBE is in the queue:
\* also when it was closed before its AUTHORIZE was processed.
KnownIsOpen ==
    \A h \in Hdls : Authorized(h) =>
        \/ session[h] = "open"
        \/ \E i \in DOMAIN actions : actions[i] = [type |-> "UNSUBSCRIBE", hdl |-> h]

\* Both directions of the map agree, whatever the sender inserts meanwhile.
HdlsAreCurrent ==
    /\ \A h \in Hdls : Authorized(h) => HdlOf(connections[h].conn_id) = h
    /\ \A c \in DOMAIN conn_id_2_hdl : conn_id_2_hdl[c] # NONE =>
          connections[conn_id_2_hdl[c]] # NONE /\ connections[conn_id_2_hdl[c]].conn_id = c

\* A user's connection is missed by whispers only if a connection whose number
\* is the user's id has been unsubscribed; every listed one is or was the user's.
MissedOnlyByCollision ==
    /\ \A h \in Hdls : Authorized(h) =>
          \/ <<connections[h].user_id, connections[h].conn_id>> \in user_id_2_conn_id
          \/ connections[h].user_id \in
                1..conn_id \ {connections[k].conn_id : k \in {l \in Hdls : Authorized(l)}}
    /\ \A p \in user_id_2_conn_id : holder[p[2]] = p[1]

\* The three maps and the queue tell the same story, one known mistake apart.
MapsAgree == KnownIsOpen /\ HdlsAreCurrent /\ MissedOnlyByCollision

\* A response that arrives anywhere arrives at a connection of the user it is
\* meant for, however late it was pushed or sent.
NoMisdelivery ==
    responses # <<>> =>
        LET h == HdlOf(Head(responses).conn_id)
        IN  h # NONE /\ session[h] = "open" =>
                Authorized(h) /\ connections[h].user_id = Head(responses).user

\* A connection that was closed is unsubscribed in the end and for good: no
\* notification is lost.
ClosedIsForgotten ==
    \A h \in Hdls : session[h] = "closed" ~> [](connections[h] = NONE)

\* What the proofs need beside.  Actions come only from connections that were
\* opened; of a closed one the last is its UNSUBSCRIBE.
QueueIsOrdered ==
    \A i \in DOMAIN actions :
        LET h == actions[i].hdl
        IN  /\ session[h] # "new"
            /\ session[h] = "closed" =>
                  \E j \in DOMAIN actions : actions[j] = [type |-> "UNSUBSCRIBE", hdl |-> h]
            /\ actions[i].type = "UNSUBSCRIBE" =>
                  /\ session[h] = "closed"
                  /\ \A j \in DOMAIN actions : i < j => actions[j].hdl # h

\* Ids in use were handed out, and to the user they are used for.
IdsAreHeld ==
    /\ \A h \in Hdls : Authorized(h) =>
          /\ connections[h].conn_id \in 1..conn_id
          /\ holder[connections[h].conn_id] = connections[h].user_id
    /\ DOMAIN conn_id_2_hdl \subseteq 1..conn_id
    /\ \A p \in user_id_2_conn_id : p[2] \in 1..conn_id
    /\ \A i \in DOMAIN responses :
          /\ responses[i].conn_id \in 1..conn_id
          /\ holder[responses[i].conn_id] = responses[i].user

\* A connection that got an id keeps it or is gone; it does not get another.
Gone(h)  == session[h] = "closed" /\ \A i \in DOMAIN actions : actions[i].hdl # h
Served   == {h \in Hdls : Authorized(h) \/ Gone(h)}
OneIdEach == conn_id <= Cardinality(Served)

\* The inductive invariant behind the theorems of WsServerProofs.
IInv ==
    /\ TypeOK
    /\ KnownIsOpen
    /\ HdlsAreCurrent
    /\ MissedOnlyByCollision
    /\ QueueIsOrdered
    /\ IdsAreHeld
    /\ OneIdEach

================================================================================
