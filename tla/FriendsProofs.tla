----------------------------- MODULE FriendsProofs -----------------------------
(***************************************************************************)
(* Theorems about Friends, for every number of users, of workers and of    *)
(* unread messages.                                                        *)
(***************************************************************************)
EXTENDS Friends, TLAPS

USE FriendsAssumption

\* Pairs have two users, and a pair and its mirror are each other's mirror.
LEMMA Mirrors ==
    \A p \in Pairs : Mirror(p) \in Pairs /\ Mirror(Mirror(p)) = p
BY DEF Pairs, Mirror

\* What the kind of a task tells of its pair.
LEMMA TaskFacts ==
    ASSUME TasksAreTyped
    PROVE  /\ \A w \in Workers :
                /\ doing[w].at \in {"idle", "raise", "remove", "between", "insert", "list", "other"}
                /\ doing[w].at \in {"raise", "remove", "between", "insert"} => doing[w].pair \in Pairs
           /\ loop.at \in {"idle", "cleared", "clearing"}
           /\ loop.at = "idle" <=> loop = IDLE
           /\ loop # IDLE => loop.pair \in Pairs /\ loop = [at |-> loop.at, pair |-> loop.pair]
<1>1. ASSUME NEW w \in Workers
      PROVE  /\ doing[w].at \in {"idle", "raise", "remove", "between", "insert", "list", "other"}
             /\ doing[w].at \in {"raise", "remove", "between", "insert"} => doing[w].pair \in Pairs
  <2>1. CASE doing[w] = IDLE
    BY <2>1 DEF IDLE
  <2>2. CASE doing[w] \in [at : {"list", "other"}]
    BY <2>2
  <2>3. CASE doing[w] \in [at : {"raise", "between", "insert"}, pair : Pairs]
    BY <2>3
  <2>4. CASE doing[w] \in [at : {"remove"}, pair : Pairs, accept : BOOLEAN]
    BY <2>4
  <2> QED
    BY <2>1, <2>2, <2>3, <2>4 DEF TasksAreTyped, Task
<1>2. /\ loop.at \in {"idle", "cleared", "clearing"}
      /\ loop.at = "idle" <=> loop = IDLE
      /\ loop # IDLE => loop.pair \in Pairs /\ loop = [at |-> loop.at, pair |-> loop.pair]
  <2>1. CASE loop = IDLE
    BY <2>1 DEF IDLE
  <2>2. CASE loop \in [at : {"cleared", "clearing"}, pair : Pairs]
    BY <2>2 DEF IDLE
  <2> QED
    BY <2>1, <2>2 DEF TasksAreTyped
<1> QED
  BY <1>1, <1>2

\* The invariant holds in the beginning.
LEMMA InitInv == Init => IInv
<1> SUFFICES ASSUME Init PROVE IInv
  OBVIOUS
<1>1. TypeOK
  BY DEF Init, TypeOK, NoCounts, IDLE, Threads
<1>2. TasksAreTyped
  BY DEF Init, TasksAreTyped, Task
<1>3. CountsAreBounded /\ ClearedIsZero /\ FriendshipIsMutual
  BY DEF Init, CountsAreBounded, ClearedIsZero, FriendshipIsMutual, IDLE
<1> QED
  BY <1>1, <1>2, <1>3 DEF IInv

\* A worker's step that changes its task, the locks, and requests at most
\* preserves the invariant.
LEMMA WorkerInv ==
    ASSUME IInv, NEW w \in Workers, NEW from, NEW to \in Task, Worker(w, from, to),
           friend_request' \subseteq Pairs, raised' \subseteq Pairs,
           {db_mutex, cache_mutex, transaction}' \subseteq Threads \cup {NOBODY},
           UNCHANGED <<relation, cache, loop, writes, up>>
    PROVE  IInv'
<1>1. TasksAreTyped'
  BY DEF IInv, TasksAreTyped, Worker, Task
<1>2. \A v \in Workers :
        doing'[v].at \in {"idle", "raise", "remove", "between", "insert", "list", "other"}
  <2> SUFFICES ASSUME NEW v \in Workers
               PROVE  doing'[v].at \in {"idle", "raise", "remove", "between", "insert", "list", "other"}
    OBVIOUS
  <2>1. CASE v = w
    <3>1. doing'[v] = to
      BY <2>1 DEF IInv, TasksAreTyped, Worker
    <3>2. CASE to = IDLE
      BY <3>1, <3>2 DEF IDLE
    <3>3. CASE to \in [at : {"list", "other"}]
      BY <3>1, <3>3
    <3>4. CASE to \in [at : {"raise", "between", "insert"}, pair : Pairs]
      BY <3>1, <3>4
    <3>5. CASE to \in [at : {"remove"}, pair : Pairs, accept : BOOLEAN]
      BY <3>1, <3>5
    <3> QED
      BY <3>2, <3>3, <3>4, <3>5 DEF Task
  <2>2. CASE v # w
    BY <2>2 DEF IInv, TypeOK, TasksAreTyped, Worker
  <2> QED
    BY <2>1, <2>2
<1>3. TypeOK'
  BY <1>2 DEF IInv, TypeOK, writes
<1>4. CountsAreBounded' /\ ClearedIsZero' /\ FriendshipIsMutual'
  BY DEF IInv, CountsAreBounded, ClearedIsZero, FriendshipIsMutual, Unread
<1> QED
  BY <1>1, <1>3, <1>4 DEF IInv

\* The first step of a request preserves the invariant.
LEMMA RequestInv ==
    ASSUME IInv, NEW w \in Workers, Request(w)
    PROVE  IInv'
<1>0. w \in Threads /\ friend_request \subseteq Pairs /\ raised \subseteq Pairs
      /\ {db_mutex, cache_mutex, transaction} \subseteq Threads \cup {NOBODY}
  BY DEF IInv, TypeOK, Threads
<1>1. ASSUME NEW u \in Users, NEW v \in Users, RaiseBegin(w, u, v)
      PROVE  IInv'
  <2>1. [at |-> "raise", pair |-> <<u, v>>] \in Task
    BY <1>1 DEF RaiseBegin, Task, Pairs
  <2> QED
    BY <1>0, <1>1, <2>1, WorkerInv DEF RaiseBegin, Begin, tables
<1>2. ASSUME NEW u \in Users, NEW v \in Users, NEW accept \in BOOLEAN,
             AnswerBegin(w, u, v, accept)
      PROVE  IInv'
  <2>0. <<u, v>> \in Pairs
    BY <1>0, <1>2 DEF AnswerBegin, Pairs
  <2>1. [at |-> "remove", pair |-> <<u, v>>, accept |-> accept] \in Task
    BY <2>0 DEF Task
  <2> QED
    BY <1>0, <1>2, <2>1, WorkerInv DEF AnswerBegin, Begin, tables
<1>3. CASE ListBegin(w)
  <2>1. [at |-> "list"] \in Task
    BY DEF Task
  <2> QED
    BY <1>0, <1>3, <2>1, WorkerInv DEF ListBegin, tables
<1>4. CASE OtherBegin(w)
  <2>1. [at |-> "other"] \in Task
    BY DEF Task
  <2> QED
    BY <1>0, <1>4, <2>1, WorkerInv DEF OtherBegin, Begin, tables
<1> QED
  BY <1>1, <1>2, <1>3, <1>4 DEF Request

\* The end of an acceptance inserts two rows or none: friendship stays mutual.
LEMMA AcceptEndInv ==
    ASSUME IInv, NEW w \in Workers, AcceptEnd(w)
    PROVE  IInv'
<1> DEFINE q == doing[w].pair
<1> DEFINE D == DOMAIN relation
<1>1. q \in Pairs /\ Mirror(q) \in Pairs /\ Mirror(Mirror(q)) = q
  BY TaskFacts, Mirrors DEF IInv, AcceptEnd
<1>2. DOMAIN relation' \subseteq D \cup {q, Mirror(q)}
  BY DEF AcceptEnd, WithRows
<1>3. \A p \in DOMAIN relation' : relation'[p] = IF p \in D THEN relation[p] ELSE 0
  BY DEF AcceptEnd, WithRows
<1>4. D \subseteq Pairs /\ \A p \in D : relation[p] \in 0..MaxUnread
  BY DEF IInv, TypeOK
<1>5. \A p \in DOMAIN relation' : relation'[p] \in 0..MaxUnread
  BY <1>3, <1>4
<1>6. FriendshipIsMutual'
  <2>1. CASE q \in D
    BY <2>1 DEF AcceptEnd, IInv, FriendshipIsMutual
  <2>2. CASE q \notin D
    <3>1. DOMAIN relation' = D \cup {q, Mirror(q)}
      BY <2>2 DEF AcceptEnd, WithRows
    <3>2. \A p \in D : Mirror(p) \in D
      BY DEF IInv, FriendshipIsMutual
    <3> QED
      BY <1>1, <3>1, <3>2 DEF FriendshipIsMutual
  <2> QED
    BY <2>1, <2>2
<1>7. TasksAreTyped'
  BY DEF IInv, TasksAreTyped, Task, Worker, AcceptEnd
<1>8. TypeOK'
  <2>1. \A v \in Workers :
          doing'[v].at \in {"idle", "raise", "remove", "between", "insert", "list", "other"}
    BY DEF IInv, TypeOK, TasksAreTyped, Task, Worker, AcceptEnd, IDLE
  <2>2. DOMAIN relation' \subseteq Pairs
    BY <1>1, <1>2, <1>4
  <2> QED
    BY <1>5, <2>1, <2>2 DEF IInv, TypeOK, AcceptEnd, End, writes
<1>9. CountsAreBounded'
  <2> SUFFICES ASSUME NEW p \in DOMAIN relation' PROVE relation'[p] + cache'[p] <= MaxUnread
    BY DEF CountsAreBounded, Unread
  <2>1. p \in Pairs /\ cache' = cache /\ cache[p] \in 0..MaxUnread
    BY <1>1, <1>2, <1>4 DEF AcceptEnd, IInv, TypeOK
  <2>2. CASE p \in D
    BY <1>3, <2>1, <2>2 DEF IInv, CountsAreBounded, Unread
  <2>3. CASE p \notin D
    BY <1>3, <2>1, <2>3
  <2> QED
    BY <2>2, <2>3
<1>10. ClearedIsZero'
  BY DEF AcceptEnd, IInv, ClearedIsZero
<1> QED
  BY <1>6, <1>7, <1>8, <1>9, <1>10 DEF IInv

\* The other steps of a worker preserve the invariant.
LEMMA WorkerStepInv ==
    ASSUME IInv, NEW w \in Workers, WorkerStep(w)
    PROVE  IInv'
<1>0. /\ w \in Threads /\ friend_request \subseteq Pairs /\ raised \subseteq Pairs
      /\ {db_mutex, cache_mutex, transaction} \subseteq Threads \cup {NOBODY}
      /\ IDLE \in Task
  BY DEF IInv, TypeOK, Threads, Task
<1>p. doing[w].at \in {"raise", "remove", "between", "insert"} => doing[w].pair \in Pairs
  BY TaskFacts DEF IInv
<1>1. CASE RaiseEnd(w)
  BY <1>0, <1>p, <1>1, WorkerInv DEF RaiseEnd, End
<1>2. CASE AnswerEnd(w)
  <2>1. (IF doing[w].accept THEN [at |-> "between", pair |-> doing[w].pair] ELSE IDLE) \in Task
    BY <1>p, <1>2 DEF AnswerEnd, Task
  <2> QED
    BY <1>0, <1>2, <2>1, WorkerInv DEF AnswerEnd, End
<1>3. CASE AcceptBegin(w)
  <2>1. [at |-> "insert", pair |-> doing[w].pair] \in Task
    BY <1>p, <1>3 DEF AcceptBegin, Task
  <2> QED
    BY <1>0, <1>3, <2>1, WorkerInv DEF AcceptBegin, Begin, tables
<1>4. CASE AcceptFails(w)
  BY <1>0, <1>4, WorkerInv DEF AcceptFails, tables, locks
<1>5. CASE AcceptEnd(w)
  BY <1>5, AcceptEndInv
<1>6. CASE ListEnd(w)
  BY <1>0, <1>6, WorkerInv DEF ListEnd, tables
<1>7. CASE OtherEnd(w)
  BY <1>0, <1>7, WorkerInv DEF OtherEnd, End, tables
<1> QED
  BY <1>1, <1>2, <1>3, <1>4, <1>5, <1>6, <1>7 DEF WorkerStep

\* The end of the process preserves the invariant: what is left are the tables.
LEMMA DieInv == IInv /\ Die => IInv'
<1> SUFFICES ASSUME IInv, Die PROVE IInv'
  OBVIOUS
<1>1. TypeOK'
  <2>1. cache' \in [Pairs -> 0..MaxUnread]
    BY DEF Die, NoCounts
  <2>2. \A w \in Workers : doing'[w].at = "idle"
    BY DEF Die, IDLE
  <2>3. loop'.at = "idle" /\ writer' = "asleep" /\ failed' = {} /\ up' = FALSE
    BY DEF Die, IDLE
  <2>4. UNCHANGED tables /\ {db_mutex, cache_mutex, transaction}' = {NOBODY}
    BY DEF Die
  <2> QED
    BY <2>1, <2>2, <2>3, <2>4 DEF IInv, TypeOK, tables
<1>2. TasksAreTyped' /\ ClearedIsZero' /\ FriendshipIsMutual'
  BY DEF IInv, Die, tables, TasksAreTyped, Task, ClearedIsZero, FriendshipIsMutual, IDLE
<1>3. CountsAreBounded'
  <2> SUFFICES ASSUME NEW p \in DOMAIN relation PROVE relation[p] + cache'[p] <= MaxUnread
    BY DEF CountsAreBounded, Unread, Die, tables
  <2>1. p \in Pairs /\ relation[p] \in 0..MaxUnread
    BY DEF IInv, TypeOK
  <2> QED
    BY <2>1 DEF Die, NoCounts
<1> QED
  BY <1>1, <1>2, <1>3 DEF IInv

\* A step of the message loop that counts or clears in the cache preserves the
\* invariant.
LEMMA MessageInv ==
    ASSUME IInv, NEW q \in Pairs, AddOneUnread(q) \/ ClearCached(q)
    PROVE  IInv'
<1>0. /\ cache \in [Pairs -> 0..MaxUnread] /\ DOMAIN relation \subseteq Pairs
      /\ \A p \in DOMAIN relation : relation[p] \in 0..MaxUnread
      /\ UNCHANGED <<tables, locks, doing, writes, up>>
  BY DEF IInv, TypeOK, AddOneUnread, ClearCached
<1>1. CASE AddOneUnread(q)
  <2>1. cache[q] + 1 <= MaxUnread /\ cache' = [cache EXCEPT ![q] = cache[q] + 1] /\ loop' = loop
    BY <1>0, <1>1 DEF AddOneUnread
  <2>2. cache' \in [Pairs -> 0..MaxUnread]
    BY <1>0, <2>1
  <2>3. CountsAreBounded'
    <3> SUFFICES ASSUME NEW p \in DOMAIN relation PROVE relation[p] + cache'[p] <= MaxUnread
      BY <1>0 DEF CountsAreBounded, Unread, tables
    <3>1. relation[p] + cache[p] <= MaxUnread
      BY DEF IInv, CountsAreBounded, Unread
    <3>2. p = q => cache'[p] = cache[p] + 1 /\ cache[p] + relation[p] < MaxUnread
      BY <1>0, <1>1 DEF AddOneUnread
    <3>3. p # q => cache'[p] = cache[p]
      BY <1>0, <2>1
    <3> QED
      BY <1>0, <3>1, <3>2, <3>3
  <2>4. ClearedIsZero'
    BY <1>1 DEF AddOneUnread, ClearedIsZero, IDLE
  <2> QED
    BY <1>0, <2>1, <2>2, <2>3, <2>4
    DEF IInv, TypeOK, TasksAreTyped, FriendshipIsMutual, tables, locks, writes
<1>2. CASE ClearCached(q)
  <2>1. cache' = [cache EXCEPT ![q] = 0] /\ loop' = [at |-> "cleared", pair |-> q]
    BY <1>2 DEF ClearCached
  <2>2. cache' \in [Pairs -> 0..MaxUnread]
    BY <1>0, <2>1
  <2>3. CountsAreBounded'
    <3> SUFFICES ASSUME NEW p \in DOMAIN relation PROVE relation[p] + cache'[p] <= MaxUnread
      BY <1>0 DEF CountsAreBounded, Unread, tables
    <3>1. relation[p] + cache[p] <= MaxUnread
      BY DEF IInv, CountsAreBounded, Unread
    <3>2. cache'[p] = 0 \/ cache'[p] = cache[p]
      BY <1>0, <2>1
    <3> QED
      BY <1>0, <3>1, <3>2
  <2>4. ClearedIsZero' /\ loop'.at = "cleared"
    BY <1>0, <2>1 DEF ClearedIsZero
  <2>5. TasksAreTyped'
    BY <1>0, <2>1 DEF IInv, TasksAreTyped
  <2> QED
    BY <1>0, <2>2, <2>3, <2>4, <2>5 DEF IInv, TypeOK, FriendshipIsMutual, tables, locks, writes
<1> QED
  BY <1>1, <1>2

\* A step of clear_unread in the table preserves the invariant.
LEMMA LoopStepInv == IInv /\ LoopStep => IInv'
<1> SUFFICES ASSUME IInv, LoopStep PROVE IInv'
  OBVIOUS
<1>1. CASE ClearBegin
  <2>1. loop # IDLE /\ loop.pair \in Pairs /\ loop = [at |-> loop.at, pair |-> loop.pair]
    BY <1>1, TaskFacts DEF ClearBegin, IDLE, IInv
  <2>2. loop' = [at |-> "clearing", pair |-> loop.pair]
    BY <1>1, <2>1 DEF ClearBegin
  <2>3. TasksAreTyped'
    BY <1>1, <2>1, <2>2 DEF IInv, TasksAreTyped, ClearBegin
  <2>4. ClearedIsZero' /\ loop'.at = "clearing"
    BY <1>1, <2>2 DEF IInv, ClearedIsZero, ClearBegin
  <2> QED
    BY <1>1, <2>3, <2>4
    DEF IInv, TypeOK, ClearBegin, Begin, tables, writes, Threads, CountsAreBounded, Unread,
        FriendshipIsMutual
<1>2. CASE ClearDies
  BY <1>2, DieInv DEF ClearDies
<1>3. CASE ClearEnd
  <2>1. /\ DOMAIN relation' = DOMAIN relation /\ cache' = cache
        /\ \A p \in DOMAIN relation : relation'[p] = 0 \/ relation'[p] = relation[p]
    BY <1>3 DEF ClearEnd
  <2>2. /\ cache \in [Pairs -> 0..MaxUnread] /\ DOMAIN relation \subseteq Pairs
        /\ \A p \in DOMAIN relation : relation[p] \in 0..MaxUnread /\ Unread(p) <= MaxUnread
    BY DEF IInv, TypeOK, CountsAreBounded
  <2>3. \A p \in DOMAIN relation' : relation'[p] \in 0..MaxUnread
    BY <2>1, <2>2
  <2>4. CountsAreBounded'
    <3> SUFFICES ASSUME NEW p \in DOMAIN relation PROVE relation'[p] + cache[p] <= MaxUnread
      BY <2>1 DEF CountsAreBounded, Unread
    <3> QED
      BY <2>1, <2>2 DEF Unread
  <2>5. TasksAreTyped' /\ ClearedIsZero' /\ FriendshipIsMutual' /\ loop'.at = "idle"
    BY <1>3, <2>1 DEF IInv, ClearEnd, TasksAreTyped, ClearedIsZero, FriendshipIsMutual, IDLE
  <2> QED
    BY <1>3, <2>1, <2>3, <2>4, <2>5 DEF IInv, TypeOK, ClearEnd, End, writes
<1> QED
  BY <1>1, <1>2, <1>3 DEF LoopStep

\* The writer preserves the invariant.
LEMMA WriterInv ==
    ASSUME IInv,
           WriterWakes \/ WriterBegins \/ WriterEnds \/ \E p \in Pairs : UpdateThrows(p)
    PROVE  IInv'
<1>1. CASE WriterWakes
  BY <1>1 DEF IInv, WriterWakes, tables, TypeOK, TasksAreTyped, CountsAreBounded, Unread,
              ClearedIsZero, FriendshipIsMutual, Threads
<1>2. CASE WriterBegins
  <2>1. CASE Die
    BY <2>1, DieInv
  <2>2. CASE ~Die
    BY <1>2, <2>2 DEF IInv, WriterBegins, tables, TypeOK, TasksAreTyped, CountsAreBounded,
                      Unread, ClearedIsZero, FriendshipIsMutual, Threads
  <2> QED
    BY <2>1, <2>2
<1>3. CASE WriterEnds
  <2>1. /\ DOMAIN relation' = DOMAIN relation /\ cache' = NoCounts
        /\ \A p \in DOMAIN relation :
              relation'[p] = relation[p] \/ relation'[p] = relation[p] + cache[p]
    BY <1>3 DEF WriterEnds, AddedUp, Unread
  <2>2. /\ cache \in [Pairs -> 0..MaxUnread] /\ DOMAIN relation \subseteq Pairs
        /\ \A p \in DOMAIN relation :
              relation[p] \in 0..MaxUnread /\ relation[p] + cache[p] <= MaxUnread
    BY DEF IInv, TypeOK, CountsAreBounded, Unread
  <2>3. \A p \in DOMAIN relation' : relation'[p] \in 0..MaxUnread
    BY <2>1, <2>2
  <2>4. CountsAreBounded'
    <3> SUFFICES ASSUME NEW p \in DOMAIN relation PROVE relation'[p] + cache'[p] <= MaxUnread
      BY <2>1 DEF CountsAreBounded, Unread
    <3>1. cache'[p] = 0
      BY <2>1, <2>2 DEF NoCounts
    <3> QED
      BY <2>1, <2>2, <3>1
  <2>5. ClearedIsZero'
    <3> SUFFICES ASSUME loop.at # "idle" PROVE cache'[loop.pair] = 0
      BY <1>3 DEF WriterEnds, ClearedIsZero
    <3>1. loop.pair \in Pairs
      BY TaskFacts DEF IInv
    <3> QED
      BY <2>1, <3>1 DEF NoCounts
  <2>6. TasksAreTyped' /\ FriendshipIsMutual'
    BY <1>3, <2>1 DEF IInv, WriterEnds, TasksAreTyped, FriendshipIsMutual
  <2>7. cache' \in [Pairs -> 0..MaxUnread]
    BY <2>1 DEF NoCounts
  <2> QED
    BY <1>3, <2>1, <2>3, <2>4, <2>5, <2>6, <2>7 DEF IInv, TypeOK, WriterEnds
<1>4. ASSUME NEW p \in Pairs, UpdateThrows(p) PROVE IInv'
  BY <1>4 DEF IInv, UpdateThrows, tables, locks, TypeOK, TasksAreTyped, CountsAreBounded,
              Unread, ClearedIsZero, FriendshipIsMutual
<1> QED
  BY <1>1, <1>2, <1>3, <1>4

\* Every step preserves the invariant.
LEMMA NextInv == IInv /\ [Next]_vars => IInv'
<1> SUFFICES ASSUME IInv, [Next]_vars PROVE IInv'
  OBVIOUS
<1>1. ASSUME NEW w \in Workers, Request(w) PROVE IInv'
  BY <1>1, RequestInv
<1>2. ASSUME NEW w \in Workers, WorkerStep(w) PROVE IInv'
  BY <1>2, WorkerStepInv
<1>3. CASE Message
  BY <1>3, MessageInv DEF Message
<1>4. CASE LoopStep
  BY <1>4, LoopStepInv
<1>5. CASE WriterWakes \/ WriterBegins \/ WriterEnds \/ \E p \in Pairs : UpdateThrows(p)
  BY <1>5, WriterInv
<1>6. CASE Stop
  BY <1>6, DieInv DEF Stop
<1>7. CASE Boot
  BY <1>7 DEF Boot, IInv, tables, locks, writes, TypeOK, TasksAreTyped, CountsAreBounded, Unread,
              ClearedIsZero, FriendshipIsMutual
<1>8. CASE UNCHANGED vars
  BY <1>8 DEF vars, IInv, tables, locks, writes, TypeOK, TasksAreTyped, CountsAreBounded, Unread,
              ClearedIsZero, FriendshipIsMutual
<1> QED
  BY <1>1, <1>2, <1>3, <1>4, <1>5, <1>6, <1>7, <1>8 DEF Next

--------------------------------------------------------------------------------
\* The inductive invariant holds in every reachable state: tasks have pairs,
\* counts stay within the bound, and what is being cleared stays zero.
THEOREM Inductive == Spec => []IInv
<1> QED
  BY InitInv, NextInv, PTL DEF Spec

\* The tables, the cache, the mutexes and the tasks keep their types, wherever
\* the process dies.
THEOREM TypeCorrect == Spec => []TypeOK
<1>1. IInv => TypeOK
  BY DEF IInv
<1> QED
  BY <1>1, Inductive, PTL

\* Friendship is mutual, however requests cross: accept_friend_request inserts
\* both rows or, by the UNIQUE constraint, none.
THEOREM FriendsAreMutual == Spec => []FriendshipIsMutual
<1>1. IInv => FriendshipIsMutual
  BY DEF IInv
<1> QED
  BY <1>1, Inductive, PTL

--------------------------------------------------------------------------------
\* One step and the counts: only a message adds one to what a user sees, and
\* only clear_unread, or an UPDATE that threw, takes from it, while the process
\* lives.
LEMMA CountStep ==
    ASSUME IInv, [Next]_vars, up', NEW p \in DOMAIN relation
    PROVE  \/ Unread(p)' = Unread(p)
           \/ Unread(p)' = Unread(p) + 1 /\ cache'[p] = cache[p] + 1
           \/ Unread(p)' < Unread(p) /\ Reading(p)
           \/ p \in failed /\ Unread(p)' = relation[p]
<1>0. p \in Pairs /\ relation[p] \in Nat /\ cache[p] \in Nat /\ cache \in [Pairs -> 0..MaxUnread]
  BY DEF IInv, TypeOK
<1>1. CASE relation'[p] = relation[p] /\ cache' = cache
  BY <1>1 DEF Unread
<1>2. ASSUME NEW w \in Workers, Request(w) PROVE relation' = relation /\ cache' = cache
  BY <1>2 DEF Request, RaiseBegin, AnswerBegin, ListBegin, OtherBegin, tables
<1>3. ASSUME NEW w \in Workers, WorkerStep(w)
      PROVE  relation'[p] = relation[p] /\ cache' = cache
  <2>1. CASE AcceptEnd(w)
    BY <2>1 DEF AcceptEnd, WithRows
  <2>2. CASE ~AcceptEnd(w)
    BY <1>3, <2>2
    DEF WorkerStep, RaiseEnd, AnswerEnd, AcceptBegin, AcceptFails, ListEnd, OtherEnd, tables
  <2> QED
    BY <2>1, <2>2
<1>4. ASSUME NEW q \in Pairs, AddOneUnread(q)
      PROVE  \/ Unread(p)' = Unread(p)
             \/ Unread(p)' = Unread(p) + 1 /\ cache'[p] = cache[p] + 1
  <2>1. relation' = relation /\ cache' = [cache EXCEPT ![q] = cache[q] + 1]
    BY <1>4 DEF AddOneUnread, tables
  <2>2. cache'[p] = IF p = q THEN cache[p] + 1 ELSE cache[p]
    BY <1>0, <2>1
  <2> QED
    BY <1>0, <2>1, <2>2 DEF Unread
<1>5. ASSUME NEW q \in Pairs, ClearCached(q)
      PROVE  \/ Unread(p)' = Unread(p)
             \/ Unread(p)' < Unread(p) /\ Reading(p)
  <2>1. relation' = relation /\ cache' = [cache EXCEPT ![q] = 0]
    BY <1>5 DEF ClearCached, tables
  <2>2. CASE p # q
    BY <1>0, <2>1, <2>2 DEF Unread
  <2>3. CASE p = q
    <3>1. Unread(p)' = relation[p]
      BY <1>0, <2>1, <2>3 DEF Unread
    <3>2. Reading(p)
      BY <1>5, <2>3 DEF ClearCached, Reading, IDLE
    <3> QED
      BY <1>0, <3>1, <3>2 DEF Unread
  <2> QED
    BY <2>2, <2>3
<1>6. CASE ClearEnd
  <2>1. cache' = cache /\ relation'[p] = IF p = loop.pair THEN 0 ELSE relation[p]
    BY <1>6 DEF ClearEnd
  <2>2. CASE p # loop.pair
    BY <1>1, <2>1, <2>2
  <2>3. CASE p = loop.pair
    <3>1. Unread(p)' = cache[p]
      BY <1>0, <2>1, <2>3 DEF Unread
    <3>2. Reading(p)
      BY <1>6, <2>3 DEF ClearEnd, Reading, IDLE
    <3> QED
      BY <1>0, <3>1, <3>2 DEF Unread
  <2> QED
    BY <2>2, <2>3
<1>7. CASE WriterEnds
  <2>1. /\ relation'[p] = IF p \in failed THEN relation[p] ELSE relation[p] + cache[p]
        /\ cache'[p] = 0
    BY <1>0, <1>7 DEF WriterEnds, AddedUp, Unread, NoCounts
  <2>2. Unread(p)' = IF p \in failed THEN relation[p] ELSE Unread(p)
    BY <1>0, <2>1 DEF Unread
  <2> QED
    BY <2>2
<1>8. ~Die
  BY DEF Die
<1>9. CASE UNCHANGED <<relation, cache>>
  BY <1>9 DEF Unread
<1>10. CASE \/ WriterWakes \/ WriterBegins \/ \E q \in Pairs : UpdateThrows(q)
            \/ Boot \/ ClearBegin \/ UNCHANGED vars
  BY <1>8, <1>9, <1>10
  DEF WriterWakes, WriterBegins, UpdateThrows, Boot, ClearBegin, vars, tables
<1> QED
  BY <1>1, <1>2, <1>3, <1>4, <1>5, <1>6, <1>7, <1>8, <1>10
  DEF Next, Message, LoopStep, ClearDies, Stop

\* The count a user sees for a friend changes by one message, by a reading of
\* that friend's messages, or with the process; write_cache_to_database moves
\* counts, and loses of a pair whose UPDATE throws what was cached, and nothing
\* of any other.
THEOREM UnreadIsExact == Spec => UnreadNeverJumps
<1>1. IInv /\ [Next]_vars =>
        [up' => \A p \in DOMAIN relation :
            \/ Unread(p)' = Unread(p)
            \/ Unread(p)' = Unread(p) + 1 /\ cache'[p] = cache[p] + 1
            \/ Unread(p)' < Unread(p) /\ Reading(p)
            \/ p \in failed /\ Unread(p)' = relation[p]]_vars
  BY CountStep
<1> QED
  BY <1>1, Inductive, PTL DEF Spec, UnreadNeverJumps

\* When clear_unread returns, the count is zero in the cache and in the table,
\* although the writer may have run between its two halves.
THEOREM ClearedWhenRead == Spec => ReadingClears
<1>1. IInv /\ [Next]_vars =>
        [up' /\ loop.at = "clearing" /\ loop' = IDLE /\ loop.pair \in DOMAIN relation
            => relation'[loop.pair] + cache'[loop.pair] = 0]_vars
  <2> SUFFICES ASSUME IInv, Next, up', loop.at = "clearing", loop' = IDLE,
                      loop.pair \in DOMAIN relation
               PROVE  relation'[loop.pair] + cache'[loop.pair] = 0
    OBVIOUS
  <2>0. loop # IDLE /\ loop' # loop
    BY DEF IDLE
  <2>1. ClearEnd
    BY <2>0 DEF Next, Request, RaiseBegin, AnswerBegin, ListBegin, OtherBegin, WorkerStep,
                RaiseEnd, AnswerEnd, AcceptBegin, AcceptFails, AcceptEnd, ListEnd, OtherEnd,
                Message, AddOneUnread, ClearCached, LoopStep, ClearBegin, ClearDies, Die,
                WriterWakes, WriterBegins, UpdateThrows, WriterEnds, Stop, Boot
  <2> QED
    BY <2>1 DEF ClearEnd, IInv, ClearedIsZero
<1> QED
  BY <1>1, Inductive, PTL DEF Spec, ReadingClears

================================================================================
