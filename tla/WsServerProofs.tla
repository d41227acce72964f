---------------------------- MODULE WsServerProofs ----------------------------
(* Proofs about module WsServer. *)
EXTENDS WsServer, FiniteSetTheorems, SequenceTheorems, TLAPS

USE DEF Authorized, Sender, Msg, maps, io

Bye(h) == [type |-> "UNSUBSCRIBE", hdl |-> h]

LEMMA ByeFields == \A h : Bye(h).type = "UNSUBSCRIBE" /\ Bye(h).hdl = h
BY DEF Bye

\* What QueueIsOrdered says of place i of a queue q with places D.
Fine(q, s, D, i) ==
    /\ s[q[i].hdl] # "new"
    /\ s[q[i].hdl] = "closed" => \E j \in D : q[j] = Bye(q[i].hdl)
    /\ q[i].type = "UNSUBSCRIBE" => s[q[i].hdl] = "closed"
    /\ q[i].type = "UNSUBSCRIBE" => \A j \in D : i < j => q[j].hdl # q[i].hdl

LEMMA OrderedQueue ==
    /\ QueueIsOrdered <=> \A i \in DOMAIN actions : Fine(actions, session, DOMAIN actions, i)
    /\ QueueIsOrdered' <=>
          \A i \in DOMAIN actions' : Fine(actions', session', DOMAIN actions', i)
BY DEF QueueIsOrdered, Fine, Bye

\* Whose ids the queue of responses names.
Addressed(rs) ==
    \A i \in DOMAIN rs : rs[i].conn_id \in 1..conn_id /\ holder[rs[i].conn_id] = rs[i].user

\* Types of the state taken apart.
LEMMA Numbers ==
    ASSUME TypeOK
    PROVE  /\ conn_id \in Nat /\ Cardinality(Hdls) \in Nat /\ conn_id <= Cardinality(Hdls)
           /\ ConnIds \subseteq Nat /\ 1..conn_id \subseteq ConnIds
           /\ DOMAIN holder = 1..conn_id
           /\ \A c \in 1..conn_id : holder[c] \in Users
<1>1. Cardinality(Hdls) \in Nat
  BY WsAssumption, FS_CardinalityType
<1>2. conn_id \in Nat /\ conn_id <= Cardinality(Hdls) /\ ConnIds \subseteq Nat
      /\ 1..conn_id \subseteq ConnIds
  BY <1>1 DEF TypeOK, ConnIds
<1>3. DOMAIN holder = 1..conn_id /\ \A c \in 1..conn_id : holder[c] \in Users
  BY LenProperties DEF TypeOK
<1> QED
  BY <1>1, <1>2, <1>3

\* An action is of a connection, and there are three types.
LEMMA ActionTypes ==
    ASSUME NEW a \in Action
    PROVE  /\ a.hdl \in Hdls /\ a.type \in {"SUBSCRIBE", "UNSUBSCRIBE", "MESSAGE"}
           /\ a.type = "UNSUBSCRIBE" => a = Bye(a.hdl)
           /\ a.type = "MESSAGE" => a.msg \in Message
<1>1. CASE a \in [type : {"SUBSCRIBE", "UNSUBSCRIBE"}, hdl : Hdls]
  BY <1>1 DEF Bye
<1>2. CASE a \in [type : {"MESSAGE"}, hdl : Hdls, msg : Message]
  BY <1>2
<1> QED
  BY <1>1, <1>2 DEF Action

LEMMA Queued ==
    ASSUME TypeOK
    PROVE  /\ Len(actions) \in Nat /\ DOMAIN actions = 1..Len(actions)
           /\ \A i \in DOMAIN actions : actions[i] \in Action /\ actions[i].hdl \in Hdls
BY ActionTypes DEF TypeOK

\* A set of responses to one user's connections, in some order.
LEMMA InSomeOrder ==
    ASSUME NEW S \in SUBSET Response, IsFiniteSet(S)
    PROVE  SetToSeq(S) \in Seq(S)
<1> DEFINE n == Cardinality(S)
           Orders == {f \in [1..n -> S] : IsInjective(f)}
<1>1. n \in Nat /\ ExistsBijection(1..n, S)
  BY FS_CardinalityType
<1>2. Orders # {}
  BY <1>1 DEF ExistsBijection, Bijection, Injection
<1>3. SetToSeq(S) \in [1..n -> S]
  <2>1. PICK g : g \in [1..n -> S] /\ IsInjective(g)
    BY <1>2
  <2>2. SetToSeq(S) = CHOOSE f \in [1..n -> S] : IsInjective(f)
    BY DEF SetToSeq
  <2> QED
    BY <2>1, <2>2
<1> QED
  BY <1>1, <1>3

\* Finitely many connections are listed for a user.
LEMMA ListedIsFinite ==
    ASSUME NEW u \in Users, NEW P \in SUBSET (Users \X ConnIds)
    PROVE  LET S == {[conn_id |-> p[2], user |-> u] : p \in {q \in P : q[1] = u}}
           IN  S \subseteq Response /\ IsFiniteSet(S)
<1> DEFINE S == {[conn_id |-> p[2], user |-> u] : p \in {q \in P : q[1] = u}}
           T == {[conn_id |-> c, user |-> u] : c \in ConnIds}
           f == [c \in ConnIds |-> [conn_id |-> c, user |-> u]]
<1>1. IsFiniteSet(ConnIds)
  <2>1. Cardinality(Hdls) \in Nat
    BY WsAssumption, FS_CardinalityType
  <2> QED
    BY <2>1, FS_Interval DEF ConnIds
<1>2. f \in Surjection(ConnIds, T)
  BY DEF Surjection
<1>3. IsFiniteSet(T)
  BY ONLY <1>1, <1>2, FS_Surjection
<1>4. S \subseteq T /\ S \subseteq Response
  BY DEF Response
<1> QED
  BY ONLY <1>3, <1>4, FS_Subset

--------------------------------------------------------------------------------
(* What happens to the queue of actions. *)

\* The I/O thread pushes an action of a connection that is not closed, and
\* closes it if and only if it is an UNSUBSCRIBE.
LEMMA Pushed ==
    ASSUME IInv, NEW a \in Action, TypeOK',
           actions' = Append(actions, a),
           connections' = connections, conn_id' = conn_id,
           \A h \in Hdls \ {a.hdl} : session'[h] = session[h],
           session[a.hdl] # "closed", session'[a.hdl] # "new",
           session'[a.hdl] = "closed" <=> a.type = "UNSUBSCRIBE"
    PROVE  QueueIsOrdered' /\ KnownIsOpen' /\ OneIdEach'
<1> DEFINE n == Len(actions)
<1>1. n \in Nat /\ DOMAIN actions = 1..n /\ actions \in Seq(Action)
      /\ \A i \in 1..n : actions[i] \in Action /\ actions[i].hdl \in Hdls
  BY Queued DEF IInv, TypeOK
<1>2. /\ DOMAIN actions' = 1..(n + 1)
      /\ \A i \in 1..n : actions'[i] = actions[i]
      /\ actions'[n + 1] = a
  BY <1>1, AppendProperties, LenProperties
<1>3. 1..(n + 1) = 1..n \cup {n + 1} /\ n + 1 \notin 1..n /\ \A i \in 1..n : i < n + 1
  BY <1>1
<1>4. a.hdl \in Hdls /\ (a.type = "UNSUBSCRIBE" => a = Bye(a.hdl))
  BY ActionTypes
<1> HIDE DEF n
<1>5. QueueIsOrdered'
  <2> SUFFICES ASSUME NEW i \in 1..(n + 1)
               PROVE  Fine(actions', session', 1..(n + 1), i)
    BY <1>2, OrderedQueue
  <2> DEFINE h == actions'[i].hdl
  <2>1. CASE i = n + 1
    <3>1. h = a.hdl /\ actions'[i] = a
      BY <1>2, <2>1
    <3>2. \A j \in 1..(n + 1) : ~(i < j)
      BY <1>1, <2>1
    <3>3. session'[a.hdl] = "closed" => actions'[n + 1] = Bye(a.hdl)
      BY ONLY <1>2, <1>4, session'[a.hdl] = "closed" <=> a.type = "UNSUBSCRIBE"
    <3> QED
      BY <1>3, <3>1, <3>2, <3>3 DEF Fine
  <2>2. CASE i \in 1..n
    <3>1. /\ actions'[i] = actions[i] /\ h = actions[i].hdl /\ h \in Hdls
      BY <1>1, <1>2, <2>2
    <3>2. /\ session[h] # "new"
          /\ session[h] = "closed" => \E j \in 1..n : actions[j] = Bye(h)
          /\ actions[i].type = "UNSUBSCRIBE" =>
                session[h] = "closed" /\ \A j \in 1..n : i < j => actions[j].hdl # h
      BY <1>1, <2>2, <3>1, OrderedQueue DEF IInv, Fine
    <3>3. CASE h = a.hdl
      BY <1>2, <1>3, <1>4, <3>1, <3>2, <3>3 DEF Fine
    <3>4. CASE h # a.hdl
      <4>1. session'[h] = session[h]
        BY <3>1, <3>4
      <4>2. \A j \in 1..(n + 1) : i < j /\ actions[i].type = "UNSUBSCRIBE" => actions'[j].hdl # h
        BY <1>2, <1>3, <3>2, <3>4
      <4> QED
        BY <1>2, <1>3, <3>1, <3>2, <4>1, <4>2 DEF Fine
    <3> QED
      BY <3>3, <3>4
  <2> QED
    BY <1>3, <2>1, <2>2
<1>6. KnownIsOpen'
  <2> SUFFICES ASSUME NEW h \in Hdls, connections[h] # NONE, session'[h] # "open"
               PROVE  \E i \in 1..(n + 1) : actions'[i] = Bye(h)
    BY <1>2 DEF KnownIsOpen, Bye
  <2>1. CASE h = a.hdl
    BY <1>2, <1>3, <1>4, <2>1 DEF TypeOK
  <2>2. CASE h # a.hdl
    <3>1. \E i \in 1..n : actions[i] = Bye(h)
      BY <1>1, <2>2 DEF IInv, KnownIsOpen, Bye
    <3> QED
      BY <1>2, <1>3, <3>1
  <2> QED
    BY <2>1, <2>2
<1>7. OneIdEach'
  <2>1. Served \subseteq Served'
    BY <1>2, <1>3, <1>1 DEF Served, Gone
  <2>2. IsFiniteSet(Served')
    BY WsAssumption, FS_Subset DEF Served
  <2>3. /\ IsFiniteSet(Served) /\ Cardinality(Served) <= Cardinality(Served')
    BY <2>1, <2>2, FS_Subset
  <2>4. Cardinality(Served) \in Nat /\ Cardinality(Served') \in Nat /\ conn_id \in Nat
    BY <2>2, <2>3, FS_CardinalityType, Numbers DEF IInv
  <2> QED
    BY <2>3, <2>4 DEF IInv, OneIdEach
<1> QED
  BY <1>5, <1>6, <1>7

\* The processor takes the first one.
LEMMA Popped ==
    ASSUME IInv, actions # <<>>, actions' = Tail(actions), session' = session
    PROVE  /\ Head(actions) \in Action /\ Head(actions) = actions[1] /\ 1 \in DOMAIN actions
           /\ actions' \in Seq(Action) /\ Len(actions') <= MaxActions
           /\ QueueIsOrdered'
           /\ \A h \in Hdls :
                 /\ \E i \in DOMAIN actions : actions[i] = Bye(h)
                 /\ Head(actions) # Bye(h)
                 => \E i \in DOMAIN actions' : actions'[i] = Bye(h)
           /\ \A h \in Hdls : Gone(h) => Gone(h)'
           /\ \A h \in Hdls : Head(actions) = Bye(h) => Gone(h)'
<1> DEFINE n == Len(actions)
<1>1. n \in Nat /\ DOMAIN actions = 1..n /\ actions \in Seq(Action) /\ n # 0
      /\ \A i \in 1..n : actions[i] \in Action /\ actions[i].hdl \in Hdls
  BY Queued, EmptySeq DEF IInv, TypeOK
<1>2. /\ Head(actions) = actions[1] /\ actions' \in Seq(Action)
      /\ Len(actions') = n - 1
      /\ \A i \in 1..(n - 1) : actions'[i] = actions[i + 1]
  BY <1>1, HeadTailProperties
<1>3. DOMAIN actions' = 1..(n - 1)
  BY <1>2, LenProperties
<1>4. \A i \in 1..n : i # 1 => i - 1 \in 1..(n - 1) /\ actions'[i - 1] = actions[i]
  <2> SUFFICES ASSUME NEW i \in 1..n, i # 1
               PROVE  i - 1 \in 1..(n - 1) /\ actions'[i - 1] = actions[i]
    OBVIOUS
  <2>1. i - 1 \in 1..(n - 1) /\ (i - 1) + 1 = i
    BY <1>1
  <2> QED
    BY <1>2, <2>1
<1>5. \A i \in 1..(n - 1) : i + 1 \in 1..n /\ 1 < i + 1
  BY <1>1
<1>6. 1 \in 1..n /\ n <= MaxActions /\ Len(actions') <= MaxActions
  BY <1>1, <1>2, WsAssumption DEF IInv, TypeOK
<1> HIDE DEF n
<1>7. \A h \in Hdls :
         /\ \E i \in DOMAIN actions : actions[i] = Bye(h)
         /\ Head(actions) # Bye(h)
         => \E i \in DOMAIN actions' : actions'[i] = Bye(h)
  BY <1>1, <1>2, <1>3, <1>4
<1>8. /\ \A i \in 1..n : /\ session[actions[i].hdl] # "new"
                         /\ actions[i].type = "UNSUBSCRIBE" =>
                              session[actions[i].hdl] = "closed"
      /\ \A i \in 1..n : session[actions[i].hdl] = "closed" =>
                           \E j \in 1..n : actions[j] = Bye(actions[i].hdl)
      /\ \A i, j \in 1..n : actions[i].type = "UNSUBSCRIBE" /\ i < j =>
                              actions[j].hdl # actions[i].hdl
  <2>1. \A i \in 1..n : Fine(actions, session, 1..n, i)
    BY <1>1, OrderedQueue DEF IInv
  <2> QED
    BY ONLY <2>1 DEF Fine
<1>9. QueueIsOrdered'
  <2> SUFFICES ASSUME NEW i \in 1..(n - 1)
               PROVE  Fine(actions', session', 1..(n - 1), i)
    BY <1>3, OrderedQueue
  <2> DEFINE h == actions'[i].hdl
  <2>1. actions'[i] = actions[i + 1] /\ i + 1 \in 1..n /\ h \in Hdls
    BY <1>1, <1>2, <1>5
  <2>2. session[h] = "closed" => \E j \in 1..(n - 1) : actions'[j] = Bye(h)
    <3> SUFFICES ASSUME session[h] = "closed"
                 PROVE  \E j \in 1..(n - 1) : actions'[j] = Bye(h)
      OBVIOUS
    <3>1. \E j \in 1..n : actions[j] = Bye(h)
      BY <1>8, <2>1
    <3>2. Head(actions) # Bye(h)
      <4> SUFFICES ASSUME actions[1] = Bye(h) PROVE FALSE
        BY <1>2
      <4>1. actions[1].type = "UNSUBSCRIBE" /\ actions[1].hdl = h
        BY ByeFields
      <4>2. \A j \in 1..n : 1 < j => actions[j].hdl # h
        BY ONLY <1>6, <1>8, <4>1
      <4> QED
        BY <1>5, <2>1, <4>2
    <3> QED
      BY <1>1, <1>3, <1>7, <2>1, <3>1, <3>2
  <2>3. ASSUME actions'[i].type = "UNSUBSCRIBE", NEW j \in 1..(n - 1), i < j
        PROVE  actions'[j].hdl # h
    <3>1. j + 1 \in 1..n /\ i + 1 < j + 1 /\ actions'[j] = actions[j + 1]
      BY <1>1, <1>2, <1>5, <2>3
    <3> QED
      BY ONLY <1>8, <2>1, <2>3, <3>1
  <2> QED
    BY <1>8, <2>1, <2>2, <2>3 DEF Fine
<1>10. \A h \in Hdls : Gone(h) => Gone(h)'
  BY <1>1, <1>2, <1>3, <1>5 DEF Gone
<1>11. \A h \in Hdls : Head(actions) = Bye(h) => Gone(h)'
  <2> SUFFICES ASSUME NEW h \in Hdls, actions[1] = Bye(h)
               PROVE  session[h] = "closed" /\ \A i \in 1..(n - 1) : actions'[i].hdl # h
    BY <1>2, <1>3 DEF Gone
  <2>1. session[h] = "closed" /\ \A j \in 1..n : 1 < j => actions[j].hdl # h
    BY <1>6, <1>8, ByeFields
  <2> QED
    BY <1>2, <1>5, <2>1
<1> QED
  BY <1>1, <1>2, <1>6, <1>7, <1>9, <1>10, <1>11

\* If nobody is forgotten but who is gone, and the id handed out went to
\* somebody who had none, there are ids enough.
LEMMA Counted ==
    ASSUME IInv, Served \subseteq Served',
           \/ conn_id' = conn_id
           \/ conn_id' = conn_id + 1 /\ \E h \in Hdls : h \in Served' \ Served
    PROVE  OneIdEach' /\ conn_id' \in 0..Cardinality(Hdls)
<1>1. IsFiniteSet(Served) /\ IsFiniteSet(Served') /\ Cardinality(Served') <= Cardinality(Hdls)
  BY WsAssumption, FS_Subset DEF Served
<1>2. Cardinality(Served) \in Nat /\ Cardinality(Served') \in Nat /\ conn_id \in Nat
      /\ Cardinality(Hdls) \in Nat
  BY <1>1, FS_CardinalityType, Numbers DEF IInv
<1>3. Cardinality(Served) <= Cardinality(Served')
  BY <1>1, FS_Subset
<1>4. ASSUME NEW h \in Served' \ Served
      PROVE  Cardinality(Served) + 1 <= Cardinality(Served')
  <2>1. Cardinality(Served \cup {h}) = Cardinality(Served) + 1
    BY <1>1, FS_AddElement
  <2>2. Served \cup {h} \subseteq Served'
    OBVIOUS
  <2> QED
    BY <1>1, <2>1, <2>2, FS_Subset
<1>5. conn_id <= Cardinality(Served)
  BY DEF IInv, OneIdEach
<1>6. conn_id' <= Cardinality(Served') /\ conn_id' \in Nat
  BY <1>2, <1>3, <1>4, <1>5
<1> QED
  BY <1>1, <1>2, <1>6 DEF OneIdEach

--------------------------------------------------------------------------------
(* What happens to the maps and the responses. *)

LEMMA MapsKept ==
    ASSUME IInv, UNCHANGED <<maps, conn_id, holder>>
    PROVE  HdlsAreCurrent' /\ MissedOnlyByCollision'
BY DEF IInv, HdlsAreCurrent, HdlOf, MissedOnlyByCollision

\* IdsAreHeld, its last part apart.
LEMMA HeldAndAddressed ==
    ASSUME IInv, UNCHANGED <<maps, conn_id, holder>>, Addressed(responses)'
    PROVE  IdsAreHeld'
BY DEF IInv, IdsAreHeld, Addressed

LEMMA ResponsesJoined ==
    ASSUME IInv, NEW rs \in Seq(Response), Addressed(rs), PushMessages(rs),
           UNCHANGED <<conn_id, holder>>
    PROVE  responses' \in Seq(Response) /\ Len(responses') <= MaxResponses /\ Addressed(responses)'
<1> DEFINE m == Len(responses)
           k == Len(rs)
<1>1. responses \in Seq(Response) /\ Addressed(responses)
  BY DEF IInv, TypeOK, IdsAreHeld, Addressed
<1>2. m \in Nat /\ k \in Nat /\ DOMAIN responses = 1..m /\ DOMAIN rs = 1..k
  BY <1>1, LenProperties
<1>3. responses' = responses \o rs /\ m + k <= MaxResponses
  BY DEF PushMessages
<1>4. /\ responses' \in Seq(Response) /\ Len(responses') = m + k
      /\ \A i \in 1..(m + k) : responses'[i] = IF i <= m THEN responses[i] ELSE rs[i - m]
  BY <1>1, <1>3, ConcatProperties
<1>5. DOMAIN responses' = 1..(m + k)
  BY <1>4, LenProperties
<1> HIDE DEF m, k
<1>6. ASSUME NEW i \in 1..(m + k)
      PROVE  responses'[i].conn_id \in 1..conn_id /\ holder[responses'[i].conn_id] = responses'[i].user
  <2>1. CASE i <= m
    <3>1. i \in 1..m /\ responses'[i] = responses[i]
      BY <1>2, <1>4, <2>1
    <3> QED
      BY <1>1, <1>2, <3>1 DEF Addressed
  <2>2. CASE ~(i <= m)
    <3>1. i - m \in 1..k /\ responses'[i] = rs[i - m]
      BY <1>2, <1>4, <2>2
    <3> QED
      BY <1>2, <3>1 DEF Addressed
  <2> QED
    BY <2>1, <2>2
<1> QED
  BY <1>3, <1>4, <1>5, <1>6 DEF Addressed

\* An answer goes to the user of the id it goes to.
LEMMA Answered ==
    ASSUME IInv, NEW rs \in Answers
    PROVE  rs \in Seq(Response) /\ Addressed(rs)
<1>1. CASE rs = <<>>
  BY <1>1 DEF Addressed
<1>2. CASE rs # <<>>
  <2>1. PICK c \in DOMAIN holder : rs = <<[conn_id |-> c, user |-> holder[c]]>>
    BY <1>2 DEF Answers
  <2>2. c \in 1..conn_id /\ c \in ConnIds /\ holder[c] \in Users
    BY Numbers DEF IInv
  <2>3. [conn_id |-> c, user |-> holder[c]] \in Response
    BY <2>2 DEF Response
  <2> QED
    BY <2>1, <2>2, <2>3 DEF Addressed
<1> QED
  BY <1>1, <1>2

\* Whoever is known stays so, unless he has just been unsubscribed.
LEMMA KnownStay ==
    ASSUME IInv, actions # <<>>, actions' = Tail(actions), session' = session,
           UNCHANGED <<connections, conn_id>>,
           Head(actions).type = "UNSUBSCRIBE" => ~Authorized(Sender)
    PROVE  KnownIsOpen' /\ OneIdEach'
<1>1. /\ Head(actions) \in Action
      /\ \A h \in Hdls :
            /\ \E i \in DOMAIN actions : actions[i] = Bye(h)
            /\ Head(actions) # Bye(h)
            => \E i \in DOMAIN actions' : actions'[i] = Bye(h)
      /\ \A h \in Hdls : Gone(h) => Gone(h)'
  BY Popped
<1>2. KnownIsOpen'
  <2> SUFFICES ASSUME NEW h \in Hdls, connections[h] # NONE, session[h] # "open"
               PROVE  \E i \in DOMAIN actions' : actions'[i] = Bye(h)
    BY DEF KnownIsOpen, Bye
  <2>1. \E i \in DOMAIN actions : actions[i] = Bye(h)
    BY DEF IInv, KnownIsOpen, Bye
  <2>2. Head(actions) # Bye(h)
    BY ByeFields
  <2> QED
    BY <1>1, <2>1, <2>2
<1>3. Served \subseteq Served'
  BY <1>1 DEF Served
<1> QED
  BY <1>2, <1>3, Counted

--------------------------------------------------------------------------------
(* The actions. *)

LEMMA InitInv == Init => IInv
<1> SUFFICES ASSUME Init PROVE IInv
  OBVIOUS
<1>1. Cardinality(Hdls) \in Nat
  BY WsAssumption, FS_CardinalityType
<1>2. \A h \in Hdls : ~Authorized(h)
  BY DEF Init
<1>3. TypeOK
  <2>1. DOMAIN conn_id_2_hdl = {} /\ Len(actions) = 0 /\ Len(responses) = 0 /\ Len(holder) = 0
    BY DEF Init
  <2>2. actions \in Seq(Action) /\ responses \in Seq(Response) /\ holder \in Seq(Users)
    BY DEF Init
  <2>3. conn_id = 0 /\ conn_id \in 0..Cardinality(Hdls)
    BY <1>1 DEF Init
  <2>4. MaxActions \in Nat /\ MaxResponses \in Nat
    BY WsAssumption
  <2>5. connections \in [Hdls -> Connection \cup {NONE}] /\ {notifying, waiting} \subseteq BOOLEAN
        /\ session \in [Hdls -> {"new", "open", "closed"}]
        /\ user_id_2_conn_id \subseteq Users \X ConnIds
    BY DEF Init
  <2> QED
    BY <2>1, <2>2, <2>3, <2>4, <2>5 DEF TypeOK
<1>4. DOMAIN actions = {} /\ DOMAIN responses = {} /\ DOMAIN conn_id_2_hdl = {}
  BY DEF Init
<1>5. KnownIsOpen /\ HdlsAreCurrent /\ MissedOnlyByCollision /\ QueueIsOrdered /\ IdsAreHeld
  BY <1>2, <1>4 DEF Init, KnownIsOpen, HdlsAreCurrent, MissedOnlyByCollision,
     QueueIsOrdered, IdsAreHeld
<1>6. OneIdEach
  <2>1. Cardinality(Served) \in Nat
    BY WsAssumption, FS_Subset, FS_CardinalityType DEF Served
  <2> QED
    BY <2>1 DEF Init, OneIdEach
<1> QED
  BY <1>3, <1>5, <1>6 DEF IInv

\* The I/O thread.
LEMMA PushInv ==
    ASSUME IInv, NEW a \in Action, Push(a),
           session' \in [Hdls -> {"new", "open", "closed"}],
           \A h \in Hdls \ {a.hdl} : session'[h] = session[h],
           session[a.hdl] # "closed", session'[a.hdl] # "new",
           session'[a.hdl] = "closed" <=> a.type = "UNSUBSCRIBE"
    PROVE  IInv'
<1>1. actions' \in Seq(Action) /\ Len(actions') = Len(actions) + 1
  BY AppendProperties DEF Push, IInv, TypeOK
<1>2. Len(actions') <= MaxActions
  BY <1>1, Queued, WsAssumption DEF Push, IInv
<1>3. TypeOK'
  BY <1>1, <1>2 DEF Push, IInv, TypeOK
<1>4. QueueIsOrdered' /\ KnownIsOpen' /\ OneIdEach'
  BY <1>3, Pushed DEF Push
<1>5. HdlsAreCurrent' /\ MissedOnlyByCollision'
  BY MapsKept DEF Push
<1>6. IdsAreHeld'
  BY DEF Push, IInv, IdsAreHeld
<1> QED
  BY <1>3, <1>4, <1>5, <1>6 DEF IInv

LEMMA OnOpenInv ==
    ASSUME IInv, NEW h \in Hdls, OnOpen(h)
    PROVE  IInv'
<1> DEFINE a == [type |-> "SUBSCRIBE", hdl |-> h]
<1>1. a \in Action /\ a.hdl = h /\ a.type = "SUBSCRIBE"
  BY DEF Action
<1>2. session' = [session EXCEPT ![h] = "open"] /\ session[h] = "new" /\ Push(a)
  BY DEF OnOpen
<1> HIDE DEF a
<1> QED
  BY <1>1, <1>2, PushInv DEF IInv, TypeOK

LEMMA OnCloseInv ==
    ASSUME IInv, NEW h \in Hdls, OnClose(h)
    PROVE  IInv'
<1> DEFINE a == [type |-> "UNSUBSCRIBE", hdl |-> h]
<1>1. a \in Action /\ a.hdl = h /\ a.type = "UNSUBSCRIBE"
  BY DEF Action
<1>2. session' = [session EXCEPT ![h] = "closed"] /\ session[h] = "open" /\ Push(a)
  BY DEF OnClose
<1> HIDE DEF a
<1> QED
  BY <1>1, <1>2, PushInv DEF IInv, TypeOK

LEMMA OnMessageInv ==
    ASSUME IInv, NEW h \in Hdls, NEW msg \in Message, OnMessage(h, msg)
    PROVE  IInv'
<1> DEFINE a == [type |-> "MESSAGE", hdl |-> h, msg |-> msg]
<1>1. a \in Action /\ a.hdl = h /\ a.type = "MESSAGE"
  BY DEF Action
<1>2. session' = session /\ session[h] = "open" /\ Push(a)
  BY DEF OnMessage
<1> HIDE DEF a
<1> QED
  BY <1>1, <1>2, PushInv DEF IInv, TypeOK

\* Who notifies, waits or wakes changes no data.
LEMMA WakingInv ==
    ASSUME IInv, notifying' \in BOOLEAN, waiting' \in BOOLEAN,
           UNCHANGED <<session, actions, conn_id, maps, responses, holder>>
    PROVE  IInv'
<1>1. TypeOK'
  BY DEF IInv, TypeOK
<1>2. HdlsAreCurrent' /\ MissedOnlyByCollision'
  BY MapsKept
<1>3. KnownIsOpen' /\ QueueIsOrdered' /\ IdsAreHeld'
  BY DEF IInv, KnownIsOpen, QueueIsOrdered, IdsAreHeld
<1>4. OneIdEach'
  BY DEF IInv, OneIdEach, Served, Gone
<1> QED
  BY <1>1, <1>2, <1>3, <1>4 DEF IInv

\* The processor: a message that concerns no map.
LEMMA AnswerInv ==
    ASSUME IInv, actions # <<>>, actions' = Tail(actions),
           UNCHANGED <<io, waiting, conn_id, maps, holder>>,
           Head(actions).type = "UNSUBSCRIBE" => ~Authorized(Sender),
           NEW rs \in Seq(Response), Addressed(rs), PushMessages(rs)
    PROVE  IInv'
<1>1. responses' \in Seq(Response) /\ Len(responses') <= MaxResponses /\ Addressed(responses)'
  BY ResponsesJoined
<1>2. actions' \in Seq(Action) /\ Len(actions') <= MaxActions /\ QueueIsOrdered'
  BY Popped
<1>3. TypeOK'
  BY <1>1, <1>2 DEF IInv, TypeOK
<1>4. KnownIsOpen' /\ OneIdEach'
  BY KnownStay
<1>5. HdlsAreCurrent' /\ MissedOnlyByCollision' /\ IdsAreHeld'
  BY <1>1, MapsKept, HeldAndAddressed
<1> QED
  BY <1>2, <1>3, <1>4, <1>5 DEF IInv

LEMMA IgnoreInv == IInv /\ Ignore => IInv'
<1> SUFFICES ASSUME IInv, Ignore PROVE IInv'
  OBVIOUS
<1>1. /\ actions # <<>> /\ actions' = Tail(actions)
      /\ UNCHANGED <<io, waiting, conn_id, maps, holder, responses>>
      /\ Head(actions).type = "UNSUBSCRIBE" => ~Authorized(Sender)
  BY DEF Ignore, Pop
<1>2. responses \in Seq(Response) /\ Len(responses) <= MaxResponses
  BY DEF IInv, TypeOK
<1>3. PushMessages(<<>>)
  <2>1. responses \o <<>> = responses /\ Len(responses) \in Nat /\ Len(<<>>) = 0
    BY <1>2, ConcatEmptySeq, LenProperties
  <2> QED
    BY <1>1, <1>2, <2>1 DEF PushMessages
<1>4. <<>> \in Seq(Response) /\ Addressed(<<>>)
  BY DEF Addressed
<1> QED
  BY <1>1, <1>3, <1>4, AnswerInv

LEMMA WhisperInv == IInv /\ Whisper => IInv'
<1> SUFFICES ASSUME IInv, Whisper PROVE IInv'
  OBVIOUS
<1> DEFINE S == {[conn_id |-> p[2], user |-> Msg.user] :
                    p \in {q \in user_id_2_conn_id : q[1] = Msg.user}}
           rs == SetToSeq(S)
<1>1. /\ actions # <<>> /\ actions' = Tail(actions)
      /\ UNCHANGED <<io, waiting, conn_id, maps, holder>>
      /\ Head(actions).type = "MESSAGE" /\ Msg.type = "WHISPER_MESSAGE"
      /\ PushMessages(rs)
  BY DEF Whisper, Pop
<1>2. Msg.user \in Users
  <2>1. Head(actions) \in Action
    BY <1>1, HeadTailProperties DEF IInv, TypeOK
  <2>2. Msg \in Message
    BY <1>1, <2>1, ActionTypes
  <2> QED
    BY <1>1, <2>2 DEF Message
<1>3. S \subseteq Response /\ IsFiniteSet(S)
  BY <1>2, ListedIsFinite DEF IInv, TypeOK
<1>4. \A r \in S : r.conn_id \in 1..conn_id /\ holder[r.conn_id] = r.user
  BY DEF IInv, IdsAreHeld, MissedOnlyByCollision
<1> HIDE DEF S
<1>5. rs \in Seq(S)
  BY <1>3, InSomeOrder
<1> HIDE DEF rs
<1>6. rs \in Seq(Response) /\ Addressed(rs)
  BY <1>3, <1>4, <1>5, SeqMonotonic, LenProperties DEF Addressed
<1> QED
  BY <1>1, <1>6, AnswerInv

LEMMA ToRoomsInv == IInv /\ ToRooms => IInv'
<1> SUFFICES ASSUME IInv, ToRooms PROVE IInv'
  OBVIOUS
<1>1. PICK rs \in Answers : PushMessages(rs)
  BY DEF ToRooms
<1>2. rs \in Seq(Response) /\ Addressed(rs)
  BY Answered
<1> QED
  BY <1>1, <1>2, AnswerInv DEF ToRooms, Pop

\* There are ids for those who have none yet.
LEMMA IdsLeft ==
    ASSUME IInv, NEW h \in Hdls \ Served
    PROVE  conn_id + 1 \in ConnIds
<1>1. IsFiniteSet(Served) /\ IsFiniteSet(Hdls)
  BY WsAssumption, FS_Subset DEF Served
<1>2. Cardinality(Served \cup {h}) = Cardinality(Served) + 1
  BY <1>1, FS_AddElement
<1>3. Served \cup {h} \subseteq Hdls
  BY DEF Served
<1>4. Cardinality(Served) + 1 <= Cardinality(Hdls)
  BY <1>1, <1>2, <1>3, FS_Subset
<1>5. Cardinality(Served) \in Nat /\ Cardinality(Hdls) \in Nat /\ conn_id \in Nat
  BY <1>1, FS_CardinalityType, Numbers DEF IInv
<1> QED
  BY <1>4, <1>5 DEF IInv, OneIdEach, ConnIds

\* AUTHORIZE: a new id, and all maps enter it.
LEMMA AuthorizeInv == IInv /\ Authorize => IInv'
<1> SUFFICES ASSUME IInv, Authorize PROVE IInv'
  OBVIOUS
<1> DEFINE h == Sender
           id == conn_id + 1
           u == UserOf[h]
           live == {connections[k].conn_id : k \in {l \in Hdls : Authorized(l)}}
<1>1. /\ actions # <<>> /\ actions' = Tail(actions) /\ Head(actions).type = "MESSAGE"
      /\ UNCHANGED <<io, waiting, responses>>
      /\ connections[h] = NONE
      /\ conn_id' = id
      /\ connections' = [connections EXCEPT ![h] = [user_id |-> u, conn_id |-> id]]
      /\ conn_id_2_hdl' = [c \in DOMAIN conn_id_2_hdl \cup {id} |->
                              IF c = id THEN h ELSE conn_id_2_hdl[c]]
      /\ user_id_2_conn_id' = user_id_2_conn_id \cup {<<u, id>>}
      /\ holder' = Append(holder, u)
  BY DEF Authorize, Pop
<1>2. /\ Head(actions) \in Action /\ Head(actions) = actions[1] /\ 1 \in DOMAIN actions
      /\ actions' \in Seq(Action) /\ Len(actions') <= MaxActions
      /\ QueueIsOrdered'
      /\ \A k \in Hdls :
            /\ \E i \in DOMAIN actions : actions[i] = Bye(k)
            /\ Head(actions) # Bye(k)
            => \E i \in DOMAIN actions' : actions'[i] = Bye(k)
      /\ \A k \in Hdls : Gone(k) => Gone(k)'
  BY <1>1, Popped
<1>3. h \in Hdls /\ u \in Users
  BY <1>2, ActionTypes, WsAssumption
<1>4. session[h] # "new" /\ (session[h] = "closed" => \E j \in DOMAIN actions : actions[j] = Bye(h))
  BY <1>2 DEF IInv, QueueIsOrdered, Bye
<1>5. conn_id \in Nat /\ id \in Nat /\ id \notin 1..conn_id /\ 1..id = 1..conn_id \cup {id}
      /\ DOMAIN holder = 1..conn_id
  BY Numbers DEF IInv
<1> HIDE DEF h, id, u
<1>6. /\ connections'[h] = [user_id |-> u, conn_id |-> id]
      /\ \A k \in Hdls \ {h} : connections'[k] = connections[k]
  BY <1>1, <1>3 DEF IInv, TypeOK
<1>7. connections'[h].user_id = u /\ connections'[h].conn_id = id
  BY <1>6
<1>8. h \notin Served
  BY <1>1, <1>2 DEF Served, Gone, h
<1>9. id \in ConnIds
  BY <1>3, <1>8, IdsLeft DEF id
<1>10. connections'[h] \in Connection /\ connections'[h] # NONE
  BY <1>3, <1>6, <1>9, WsAssumption DEF Connection
<1>11. OneIdEach' /\ conn_id' \in 0..Cardinality(Hdls)
  <2>1. Served \subseteq Served' /\ h \in Served'
    BY <1>2, <1>3, <1>6, <1>10 DEF Served
  <2> QED
    BY <1>1, <1>3, <1>8, <2>1, Counted DEF id
<1>12. holder' \in Seq(Users) /\ Len(holder') = id /\ DOMAIN holder' = 1..id
       /\ holder'[id] = u /\ \A c \in 1..conn_id : holder'[c] = holder[c]
  BY <1>1, <1>3, <1>5, AppendProperties, LenProperties DEF IInv, TypeOK, id
<1>13. DOMAIN conn_id_2_hdl' = DOMAIN conn_id_2_hdl \cup {id}
       /\ conn_id_2_hdl'[id] = h
       /\ \A c \in DOMAIN conn_id_2_hdl : c # id => conn_id_2_hdl'[c] = conn_id_2_hdl[c]
  BY <1>1
<1>14. TypeOK'
  <2>1. connections' \in [Hdls -> Connection \cup {NONE}]
    BY <1>1, <1>3, <1>6, <1>10 DEF IInv, TypeOK
  <2>2. /\ DOMAIN conn_id_2_hdl' \subseteq ConnIds
        /\ \A c \in DOMAIN conn_id_2_hdl' : conn_id_2_hdl'[c] \in Hdls \cup {NONE}
    BY <1>3, <1>9, <1>13 DEF IInv, TypeOK
  <2>3. user_id_2_conn_id' \subseteq Users \X ConnIds
    BY <1>1, <1>3, <1>9 DEF IInv, TypeOK
  <2> QED
    BY <1>1, <1>2, <1>11, <1>12, <2>1, <2>2, <2>3 DEF IInv, TypeOK
<1>15. KnownIsOpen'
  <2> SUFFICES ASSUME NEW k \in Hdls, connections'[k] # NONE, session[k] # "open"
               PROVE  \E i \in DOMAIN actions' : actions'[i] = Bye(k)
    BY <1>1 DEF KnownIsOpen, Bye
  <2>1. \E i \in DOMAIN actions : actions[i] = Bye(k)
    <3>1. CASE k = h
      BY <1>3, <1>4, <3>1 DEF IInv, TypeOK
    <3>2. CASE k # h
      BY <1>6, <3>2 DEF IInv, KnownIsOpen, Bye
    <3> QED
      BY <3>1, <3>2
  <2>2. Head(actions) # Bye(k)
    BY <1>1, ByeFields
  <2> QED
    BY <1>2, <2>1, <2>2
<1>16. \A k \in Hdls \ {h} : connections[k] # NONE =>
         connections[k].conn_id \in 1..conn_id /\ connections[k].conn_id # id
  BY <1>5 DEF IInv, IdsAreHeld
<1>17. id \notin DOMAIN conn_id_2_hdl /\ id \notin live
  BY <1>5, <1>1 DEF IInv, IdsAreHeld
<1>18. HdlsAreCurrent'
  <2>1. \A k \in Hdls : connections'[k] # NONE => HdlOf(connections[k].conn_id)' = k
    BY <1>6, <1>7, <1>13, <1>16 DEF IInv, HdlsAreCurrent, HdlOf
  <2>2. ASSUME NEW c \in DOMAIN conn_id_2_hdl', conn_id_2_hdl'[c] # NONE
        PROVE  /\ connections'[conn_id_2_hdl'[c]] # NONE
               /\ connections'[conn_id_2_hdl'[c]].conn_id = c
    <3>1. CASE c = id
      BY <1>7, <1>10, <1>13, <3>1
    <3>2. CASE c # id
      <4> DEFINE k == conn_id_2_hdl[c]
      <4>1. conn_id_2_hdl'[c] = k /\ k \in Hdls /\ connections[k] # NONE /\ connections[k].conn_id = c
        BY <1>13, <2>2, <3>2 DEF IInv, TypeOK, HdlsAreCurrent
      <4>2. k # h
        BY <1>1, <4>1
      <4> QED
        BY <1>6, <4>1, <4>2
    <3> QED
      BY <3>1, <3>2
  <2> QED
    BY <2>1, <2>2 DEF HdlsAreCurrent, HdlOf
<1>19. MissedOnlyByCollision'
  <2>1. \A p \in user_id_2_conn_id' : holder'[p[2]] = p[1]
    <3>1. \A p \in user_id_2_conn_id : p[2] \in 1..conn_id /\ holder[p[2]] = p[1]
      BY DEF IInv, IdsAreHeld, MissedOnlyByCollision
    <3>2. holder'[<<u, id>>[2]] = <<u, id>>[1]
      BY <1>12
    <3> QED
      BY <1>1, <1>12, <3>1, <3>2
  <2>2. {connections'[k].conn_id : k \in {l \in Hdls : connections'[l] # NONE}} = live \cup {id}
    BY <1>1, <1>3, <1>6, <1>7, <1>10
  <2>3. ASSUME NEW k \in Hdls, connections'[k] # NONE
        PROVE  \/ <<connections'[k].user_id, connections'[k].conn_id>> \in user_id_2_conn_id'
               \/ connections'[k].user_id \in 1..id \ (live \cup {id})
    <3>1. CASE k = h
      BY <1>1, <1>7, <3>1
    <3>2. CASE k # h
      <4>1. connections'[k] = connections[k]
        BY <1>6, <3>2
      <4>2. \/ <<connections[k].user_id, connections[k].conn_id>> \in user_id_2_conn_id
            \/ connections[k].user_id \in 1..conn_id \ live
        BY <2>3, <4>1 DEF IInv, MissedOnlyByCollision
      <4>3. 1..conn_id \ live \subseteq 1..id \ (live \cup {id})
        BY <1>5
      <4>4. user_id_2_conn_id \subseteq user_id_2_conn_id'
        BY <1>1
      <4> HIDE DEF live
      <4> QED
        BY ONLY <4>1, <4>2, <4>3, <4>4
    <3> QED
      BY <3>1, <3>2
  <2> QED
    BY <1>1, <2>1, <2>2, <2>3 DEF MissedOnlyByCollision
<1>20. IdsAreHeld'
  <2>1. ASSUME NEW k \in Hdls, connections'[k] # NONE
        PROVE  /\ connections'[k].conn_id \in 1..id
               /\ holder'[connections'[k].conn_id] = connections'[k].user_id
    <3>1. CASE k = h
      BY <1>5, <1>7, <1>12, <3>1
    <3>2. CASE k # h
      <4>1. connections'[k] = connections[k]
        BY <1>6, <3>2
      <4> QED
        BY <1>5, <1>12, <2>1, <4>1 DEF IInv, IdsAreHeld
    <3> QED
      BY <3>1, <3>2
  <2>2. DOMAIN conn_id_2_hdl' \subseteq 1..id
    BY <1>5, <1>13 DEF IInv, IdsAreHeld
  <2>3. \A p \in user_id_2_conn_id' : p[2] \in 1..id
    BY <1>1, <1>5 DEF IInv, IdsAreHeld
  <2>4. \A i \in DOMAIN responses' :
          responses'[i].conn_id \in 1..id /\ holder'[responses'[i].conn_id] = responses'[i].user
    BY <1>1, <1>5, <1>12 DEF IInv, IdsAreHeld
  <2> QED
    BY <1>1, <2>1, <2>2, <2>3, <2>4 DEF IdsAreHeld
<1> QED
  BY <1>2, <1>11, <1>14, <1>15, <1>18, <1>19, <1>20 DEF IInv

\* UNSUBSCRIBE: the maps that are keyed rightly forget the connection.
LEMMA UnsubscribeInv == IInv /\ Unsubscribe => IInv'
<1> SUFFICES ASSUME IInv, Unsubscribe PROVE IInv'
  OBVIOUS
<1> DEFINE h == Sender
           id == connections[h].conn_id
           live == {connections[k].conn_id : k \in {l \in Hdls : Authorized(l)}}
<1>1. /\ actions # <<>> /\ actions' = Tail(actions) /\ Head(actions).type = "UNSUBSCRIBE"
      /\ UNCHANGED <<io, waiting, conn_id, holder>>
      /\ connections[h] # NONE
      /\ conn_id_2_hdl' = [c \in DOMAIN conn_id_2_hdl \ {id} |-> conn_id_2_hdl[c]]
      /\ user_id_2_conn_id' = {p \in user_id_2_conn_id : p[1] # id}
      /\ connections' = [connections EXCEPT ![h] = NONE]
      /\ \E rs \in Answers : PushMessages(rs)
  BY DEF Unsubscribe, Pop
<1>2. /\ Head(actions) \in Action
      /\ actions' \in Seq(Action) /\ Len(actions') <= MaxActions
      /\ QueueIsOrdered'
      /\ \A k \in Hdls :
            /\ \E i \in DOMAIN actions : actions[i] = Bye(k)
            /\ Head(actions) # Bye(k)
            => \E i \in DOMAIN actions' : actions'[i] = Bye(k)
      /\ \A k \in Hdls : Gone(k) => Gone(k)'
      /\ \A k \in Hdls : Head(actions) = Bye(k) => Gone(k)'
  BY <1>1, Popped
<1>3. h \in Hdls /\ Head(actions) = Bye(h)
  BY <1>1, <1>2, ActionTypes
<1> HIDE DEF h
<1>4. /\ connections' \in [Hdls -> Connection \cup {NONE}]
      /\ connections'[h] = NONE /\ \A k \in Hdls \ {h} : connections'[k] = connections[k]
  BY <1>1, <1>3 DEF IInv, TypeOK
<1>5. id \in 1..conn_id /\ HdlOf(id) = h
  BY <1>1, <1>3 DEF IInv, IdsAreHeld, HdlsAreCurrent
<1>6. \A k \in Hdls \ {h} : connections[k] # NONE => connections[k].conn_id # id
  BY <1>5 DEF IInv, HdlsAreCurrent
<1> HIDE DEF id
<1>7. responses' \in Seq(Response) /\ Len(responses') <= MaxResponses /\ Addressed(responses)'
  BY <1>1, Answered, ResponsesJoined
<1>8. DOMAIN conn_id_2_hdl' = DOMAIN conn_id_2_hdl \ {id}
      /\ \A c \in DOMAIN conn_id_2_hdl' : conn_id_2_hdl'[c] = conn_id_2_hdl[c]
  BY <1>1
<1>9. TypeOK'
  BY <1>1, <1>2, <1>4, <1>7, <1>8 DEF IInv, TypeOK
<1>10. KnownIsOpen'
  <2> SUFFICES ASSUME NEW k \in Hdls, connections'[k] # NONE, session[k] # "open"
               PROVE  \E i \in DOMAIN actions' : actions'[i] = Bye(k)
    BY <1>1 DEF KnownIsOpen, Bye
  <2>1. k # h /\ connections[k] # NONE
    BY <1>4
  <2>2. \E i \in DOMAIN actions : actions[i] = Bye(k)
    BY <2>1 DEF IInv, KnownIsOpen, Bye
  <2>3. Head(actions) # Bye(k)
    BY <1>3, <2>1, ByeFields
  <2> QED
    BY <1>2, <2>2, <2>3
<1>11. OneIdEach'
  <2>1. Served \subseteq Served'
    BY <1>2, <1>3, <1>4 DEF Served
  <2> QED
    BY <1>1, <2>1, Counted
<1>12. HdlsAreCurrent'
  <2>1. \A k \in Hdls : connections'[k] # NONE => HdlOf(connections[k].conn_id)' = k
    BY <1>4, <1>6, <1>8 DEF IInv, HdlsAreCurrent, HdlOf
  <2>2. ASSUME NEW c \in DOMAIN conn_id_2_hdl', conn_id_2_hdl'[c] # NONE
        PROVE  /\ connections'[conn_id_2_hdl'[c]] # NONE
               /\ connections'[conn_id_2_hdl'[c]].conn_id = c
    <3> DEFINE k == conn_id_2_hdl[c]
    <3>1. c # id /\ conn_id_2_hdl'[c] = k /\ k \in Hdls /\ connections[k] # NONE
          /\ connections[k].conn_id = c
      BY <1>8, <2>2 DEF IInv, TypeOK, HdlsAreCurrent
    <3>2. k # h
      BY <3>1 DEF id
    <3> QED
      BY <1>4, <3>1, <3>2
  <2> QED
    BY <2>1, <2>2 DEF HdlsAreCurrent, HdlOf
<1>13. MissedOnlyByCollision'
  <2>1. \A p \in user_id_2_conn_id' : holder'[p[2]] = p[1]
    BY <1>1 DEF IInv, MissedOnlyByCollision
  <2>2. {connections'[k].conn_id : k \in {l \in Hdls : connections'[l] # NONE}} \subseteq live \ {id}
    BY <1>4, <1>6
  <2>3. ASSUME NEW k \in Hdls, connections'[k] # NONE
        PROVE  \/ <<connections'[k].user_id, connections'[k].conn_id>> \in user_id_2_conn_id'
               \/ connections'[k].user_id \in 1..conn_id \ (live \ {id})
    <3>1. k # h /\ connections'[k] = connections[k]
      BY <1>4, <2>3
    <3>2. \/ <<connections[k].user_id, connections[k].conn_id>> \in user_id_2_conn_id
          \/ connections[k].user_id \in 1..conn_id \ live
      BY <2>3, <3>1 DEF IInv, MissedOnlyByCollision
    <3>3. CASE connections[k].user_id = id
      BY <1>5, <3>1, <3>3
    <3>4. CASE connections[k].user_id # id
      BY <1>1, <3>1, <3>2, <3>4
    <3> QED
      BY <3>3, <3>4
  <2> QED
    BY <1>1, <2>1, <2>2, <2>3 DEF MissedOnlyByCollision
<1>14. IdsAreHeld'
  <2>1. \A k \in Hdls : connections'[k] # NONE =>
          /\ connections'[k].conn_id \in 1..conn_id
          /\ holder[connections'[k].conn_id] = connections'[k].user_id
    BY <1>4 DEF IInv, IdsAreHeld
  <2>2. DOMAIN conn_id_2_hdl' \subseteq 1..conn_id /\ \A p \in user_id_2_conn_id' : p[2] \in 1..conn_id
    BY <1>1, <1>8 DEF IInv, IdsAreHeld
  <2> QED
    BY <1>1, <1>7, <2>1, <2>2 DEF IdsAreHeld, Addressed
<1> QED
  BY <1>2, <1>9, <1>10, <1>11, <1>12, <1>13, <1>14 DEF IInv

\* A late broadcast goes to ids that were handed out.
LEMMA ThreadPushInv == IInv /\ ThreadPush => IInv'
<1> SUFFICES ASSUME IInv, ThreadPush PROVE IInv'
  OBVIOUS
<1>1. PICK rs \in Answers : PushMessages(rs)
  BY DEF ThreadPush
<1>2. responses' \in Seq(Response) /\ Len(responses') <= MaxResponses /\ Addressed(responses)'
  BY <1>1, Answered, ResponsesJoined DEF ThreadPush
<1>3. TypeOK'
  BY <1>2 DEF ThreadPush, IInv, TypeOK
<1>4. HdlsAreCurrent' /\ MissedOnlyByCollision' /\ IdsAreHeld'
  BY <1>2, MapsKept, HeldAndAddressed DEF ThreadPush
<1>5. KnownIsOpen' /\ QueueIsOrdered' /\ OneIdEach'
  BY DEF ThreadPush, IInv, KnownIsOpen, QueueIsOrdered, OneIdEach, Served, Gone
<1> QED
  BY <1>3, <1>4, <1>5 DEF IInv

\* What operator[] inserts stands for no connection, under an old id.
LEMMA SendMessageInv == IInv /\ SendMessage => IInv'
<1> SUFFICES ASSUME IInv, SendMessage PROVE IInv'
  OBVIOUS
<1> DEFINE c == Head(responses).conn_id
           m == Len(responses)
<1>1. /\ responses # <<>> /\ responses' = Tail(responses)
      /\ conn_id_2_hdl' = [d \in DOMAIN conn_id_2_hdl \cup {c} |-> HdlOf(d)]
      /\ UNCHANGED <<io, actions, waiting, conn_id, connections, user_id_2_conn_id, holder>>
  BY DEF SendMessage
<1>2. responses \in Seq(Response) /\ m \in Nat \ {0} /\ DOMAIN responses = 1..m
      /\ m <= MaxResponses
  BY <1>1, EmptySeq, LenProperties DEF IInv, TypeOK
<1>3. /\ responses' \in Seq(Response) /\ Len(responses') = m - 1
      /\ \A i \in 1..(m - 1) : responses'[i] = responses[i + 1]
      /\ Head(responses) = responses[1]
  BY <1>1, <1>2, HeadTailProperties
<1>4. DOMAIN responses' = 1..(m - 1)
  BY <1>3, LenProperties
<1>5. c \in 1..conn_id
  <2>1. 1 \in DOMAIN responses
    BY <1>2
  <2> QED
    BY <1>3, <2>1 DEF IInv, IdsAreHeld
<1> HIDE DEF c, m
<1>6. Len(responses') <= MaxResponses /\ \A i \in 1..(m - 1) : i + 1 \in 1..m
  BY <1>2, <1>3, WsAssumption
<1>7. /\ DOMAIN conn_id_2_hdl' = DOMAIN conn_id_2_hdl \cup {c}
      /\ \A d \in DOMAIN conn_id_2_hdl' : conn_id_2_hdl'[d] = HdlOf(d)
      /\ \A d : HdlOf(d)' = HdlOf(d)
  BY <1>1 DEF HdlOf
<1>8. TypeOK'
  <2>1. DOMAIN conn_id_2_hdl' \subseteq ConnIds
    BY <1>5, <1>7, Numbers DEF IInv, TypeOK
  <2>2. \A d \in DOMAIN conn_id_2_hdl' : conn_id_2_hdl'[d] \in Hdls \cup {NONE}
    BY <1>7 DEF IInv, TypeOK, HdlOf
  <2> QED
    BY <1>1, <1>3, <1>6, <2>1, <2>2 DEF IInv, TypeOK
<1>9. HdlsAreCurrent'
  BY <1>1, <1>7 DEF IInv, HdlsAreCurrent, HdlOf
<1>10. IdsAreHeld'
  <2>1. DOMAIN conn_id_2_hdl' \subseteq 1..conn_id
    BY <1>5, <1>7 DEF IInv, IdsAreHeld
  <2>2. \A i \in DOMAIN responses' :
          /\ responses'[i].conn_id \in 1..conn_id
          /\ holder[responses'[i].conn_id] = responses'[i].user
    <3>1. \A i \in 1..m : /\ responses[i].conn_id \in 1..conn_id
                          /\ holder[responses[i].conn_id] = responses[i].user
      BY <1>2 DEF IInv, IdsAreHeld
    <3> QED
      BY ONLY <1>3, <1>4, <1>6, <3>1
  <2> QED
    BY <1>1, <2>1, <2>2 DEF IInv, IdsAreHeld
<1>11. KnownIsOpen' /\ QueueIsOrdered' /\ MissedOnlyByCollision'
  BY <1>1 DEF IInv, KnownIsOpen, QueueIsOrdered, MissedOnlyByCollision
<1>12. OneIdEach'
  BY <1>1 DEF IInv, OneIdEach, Served, Gone
<1> QED
  BY <1>8, <1>9, <1>10, <1>11, <1>12 DEF IInv

LEMMA NextInv == IInv /\ [Next]_vars => IInv'
<1> SUFFICES ASSUME IInv, [Next]_vars PROVE IInv'
  OBVIOUS
<1>1. ASSUME NEW h \in Hdls, OnOpen(h) PROVE IInv'
  BY <1>1, OnOpenInv
<1>2. ASSUME NEW h \in Hdls, OnClose(h) PROVE IInv'
  BY <1>2, OnCloseInv
<1>3. ASSUME NEW h \in Hdls, NEW msg \in Message, OnMessage(h, msg) PROVE IInv'
  BY <1>3, OnMessageInv
<1>4. CASE Notify \/ Wait \/ WakeSpuriously
  BY <1>4, WakingInv DEF Notify, Wait, WakeSpuriously, IInv, TypeOK
<1>5. CASE Process
  BY <1>5, IgnoreInv, AuthorizeInv, WhisperInv, ToRoomsInv, UnsubscribeInv DEF Process
<1>6. CASE ThreadPush
  BY <1>6, ThreadPushInv
<1>7. CASE SendMessage
  BY <1>7, SendMessageInv
<1>8. CASE UNCHANGED vars
  BY <1>8, WakingInv DEF vars, IInv, TypeOK
<1> QED
  BY <1>1, <1>2, <1>3, <1>4, <1>5, <1>6, <1>7, <1>8 DEF Next

--------------------------------------------------------------------------------
\* What every state satisfies, from which the theorems below follow.
THEOREM Inductive == Spec => []IInv
<1>1. Init => IInv
  BY InitInv
<1>2. IInv /\ [Next]_vars => IInv'
  BY NextInv
<1> QED
  BY <1>1, <1>2, PTL DEF Spec

\* The variables keep their types, and no connection gets a second id: there
\* are never more ids than connections.
THEOREM TypeCorrect == Spec => []TypeOK
<1>1. IInv => TypeOK
  BY DEF IInv
<1> QED
  BY <1>1, Inductive, PTL

\* process_message, however late it is, and send_message, which inserts into
\* conn_id_2_hdl, leave maps that agree with each other and the queue.
THEOREM MapsAlwaysAgree == Spec => []MapsAgree
<1>1. IInv => MapsAgree
  BY DEF IInv, MapsAgree
<1> QED
  BY <1>1, Inductive, PTL

\* However late a response is pushed or sent, it reaches a connection of the
\* user it is meant for or none.
THEOREM NothingIsMisdelivered == Spec => []NoMisdelivery
<1>1. IInv => NoMisdelivery
  <2> SUFFICES ASSUME IInv, responses # <<>>, HdlOf(Head(responses).conn_id) # NONE
               PROVE  LET h == HdlOf(Head(responses).conn_id)
                      IN  Authorized(h) /\ connections[h].user_id = Head(responses).user
    BY DEF NoMisdelivery
  <2> DEFINE r == Head(responses)
             h == HdlOf(r.conn_id)
  <2>1. r = responses[1] /\ 1 \in DOMAIN responses
    BY EmptySeq, LenProperties, HeadTailProperties DEF IInv, TypeOK
  <2>2. holder[r.conn_id] = r.user
    BY <2>1 DEF IInv, IdsAreHeld
  <2>3. h \in Hdls /\ connections[h] # NONE /\ connections[h].conn_id = r.conn_id
    BY DEF IInv, HdlsAreCurrent, HdlOf, TypeOK
  <2> QED
    BY <2>2, <2>3 DEF IInv, IdsAreHeld
<1> QED
  BY <1>1, Inductive, PTL

================================================================================
