--------------------------------- MODULE Friends -------------------------------
(***************************************************************************)
(* Friend requests, friendships and the counters of unread messages: the   *)
(* part of class Authorizer that threads contend for.  The threads are the *)
(* workers of the HTTP server, which run the handlers of friend-request,   *)
(* handle-friend-request, get-friend-list and of everything else that      *)
(* writes to users.db; the message loop, which counts messages and clears  *)
(* the counts; and the writer, which moves the counts to the table.        *)
(*                                                                         *)
(* All of them share one SQLite connection, on which a second BEGIN fails  *)
(* while a transaction is open.  The writer does not take db_mutex.  Since *)
(* nobody reads what an open transaction has changed, a transaction is its *)
(* BEGIN and its COMMIT, and its statements take effect with the latter.   *)
(* A handler that throws before it has changed anything is no step.        *)
(***************************************************************************)
EXTENDS Integers

CONSTANTS
    Users,
    Workers,    \* threads of the HTTP server
    MaxUnread,  \* bound: unread messages counted for a pair
    LOOP, WRITER, NOBODY

ASSUME FriendsAssumption ==
    /\ MaxUnread \in Nat
    /\ LOOP # WRITER /\ {LOOP, WRITER} \cap Workers = {}
    /\ NOBODY \notin Workers \cup {LOOP, WRITER}

Pairs   == {p \in Users \X Users : p[1] # p[2]}
Mirror(p) == <<p[2], p[1]>>
Threads == Workers \cup {LOOP, WRITER}

VARIABLES
    friend_request, \* table friend_request: <<requester, requestee>>
    relation,       \* table relation: the column unread of the rows there are
    raised,         \* every request there has been: what clients may have listed
    cache,          \* Authorizer::cache; 0 also stands for no entry
    db_mutex, cache_mutex,  \* who holds it
    transaction,    \* who has a transaction open
    doing,          \* what a worker is in the middle of
    loop, writer,   \* the same of the message loop and of the writer
    failed,         \* pairs whose UPDATE has thrown in the writer's transaction
    up              \* FALSE between the end of the process and its next start

tables == <<friend_request, relation, raised>>
locks  == <<db_mutex, cache_mutex, transaction>>
writes == <<writer, failed>>
vars   == <<tables, cache, locks, doing, loop, writes, up>>

IDLE == [at |-> "idle"]

NoCounts == [p \in Pairs |-> 0]

Init ==
    /\ friend_request = {} /\ raised = {}
    /\ relation = [p \in {} |-> 0]
    /\ cache = NoCounts
    /\ db_mutex = NOBODY /\ cache_mutex = NOBODY /\ transaction = NOBODY
    /\ doing = [w \in Workers |-> IDLE]
    /\ loop = IDLE
    /\ writer = "asleep" /\ failed = {}
    /\ up = TRUE

--------------------------------------------------------------------------------
\* db_mutex and BEGIN, and COMMIT and the end of the lock's scope.
Begin(t) ==
    /\ up /\ db_mutex = NOBODY /\ transaction = NOBODY
    /\ db_mutex' = t /\ transaction' = t
    /\ UNCHANGED cache_mutex

End == db_mutex' = NOBODY /\ transaction' = NOBODY /\ UNCHANGED cache_mutex

Worker(w, from, to) == doing[w] = from /\ doing' = [doing EXCEPT ![w] = to]

\* The process ends: open transactions are rolled back, the cache is gone.
Die ==
    /\ cache' = NoCounts
    /\ db_mutex' = NOBODY /\ cache_mutex' = NOBODY /\ transaction' = NOBODY
    /\ doing' = [w \in Workers |-> IDLE]
    /\ loop' = IDLE
    /\ writer' = "asleep" /\ failed' = {}
    /\ up' = FALSE
    /\ UNCHANGED tables

\* The process is stopped.
Stop == up /\ Die

Boot ==
    /\ ~up
    /\ up' = TRUE
    /\ UNCHANGED <<tables, cache, locks, doing, loop, writes>>

--------------------------------------------------------------------------------
\* Mutant: users may ask themselves.
RaiseBegin_ToSelf(w, u, v) ==
    /\ <<u, v>> \notin DOMAIN relation
    /\ Begin(w)
    /\ Worker(w, IDLE, [at |-> "raise", pair |-> <<u, v>>])
    /\ UNCHANGED <<tables, cache, loop, writes, up>>

\* raise_friend_request: u asks v.
RaiseBegin(w, u, v) ==
    /\ u # v
    /\ <<u, v>> \notin DOMAIN relation
    /\ Begin(w)
    /\ Worker(w, IDLE, [at |-> "raise", pair |-> <<u, v>>])
    /\ UNCHANGED <<tables, cache, loop, writes, up>>

\* The UNIQUE constraint turns a second request into ALREADY_REQUESTED.
RaiseEnd(w) ==
    /\ doing[w].at = "raise"
    /\ friend_request' = friend_request \cup {doing[w].pair}
    /\ raised' = raised \cup {doing[w].pair}
    /\ End
    /\ Worker(w, doing[w], IDLE)
    /\ UNCHANGED <<relation, cache, loop, writes, up>>

\* remove_friend_request, alone or as the first half of accept_friend_request:
\* u answers a request of v that some list has shown.
AnswerBegin(w, u, v, accept) ==
    /\ <<v, u>> \in raised
    /\ Begin(w)
    /\ Worker(w, IDLE, [at |-> "remove", pair |-> <<u, v>>, accept |-> accept])
    /\ UNCHANGED <<tables, cache, loop, writes, up>>

AnswerEnd(w) ==
    /\ doing[w].at = "remove"
    /\ friend_request' = friend_request \ {doing[w].pair, Mirror(doing[w].pair)}
    /\ End
    /\ Worker(w, doing[w],
              IF doing[w].accept THEN [at |-> "between", pair |-> doing[w].pair] ELSE IDLE)
    /\ UNCHANGED <<relation, raised, cache, loop, writes, up>>

\* The second half of accept_friend_request.
AcceptBegin(w) ==
    /\ doing[w].at = "between"
    /\ Begin(w)
    /\ Worker(w, doing[w], [at |-> "insert", pair |-> doing[w].pair])
    /\ UNCHANGED <<tables, cache, loop, writes, up>>

\* BEGIN fails in the writer's transaction, and the answer is FAILED.
AcceptFails(w) ==
    /\ doing[w].at = "between"
    /\ db_mutex = NOBODY /\ transaction # NOBODY
    /\ Worker(w, doing[w], IDLE)
    /\ UNCHANGED <<tables, cache, locks, loop, writes, up>>

\* Both rows, or with the UNIQUE constraint violated none.
WithRows(pairs) ==
    [p \in DOMAIN relation \cup pairs |-> IF p \in DOMAIN relation THEN relation[p] ELSE 0]

\* Mutant: the second INSERT is missing.
AcceptEnd_OneRow(w) ==
    /\ doing[w].at = "insert"
    /\ relation' = WithRows({doing[w].pair})
    /\ End
    /\ Worker(w, doing[w], IDLE)
    /\ UNCHANGED <<friend_request, raised, cache, loop, writes, up>>

AcceptEnd(w) ==
    /\ doing[w].at = "insert"
    /\ relation' = IF doing[w].pair \in DOMAIN relation THEN relation
                   ELSE WithRows({doing[w].pair, Mirror(doing[w].pair)})
    /\ End
    /\ Worker(w, doing[w], IDLE)
    /\ UNCHANGED <<friend_request, raised, cache, loop, writes, up>>

\* get_friend_list: db_mutex, then cache_mutex.
ListBegin(w) ==
    /\ up /\ db_mutex = NOBODY /\ db_mutex' = w
    /\ Worker(w, IDLE, [at |-> "list"])
    /\ UNCHANGED <<tables, cache, cache_mutex, transaction, loop, writes, up>>

ListEnd(w) ==
    /\ doing[w].at = "list"
    /\ cache_mutex = NOBODY
    /\ db_mutex' = NOBODY
    /\ Worker(w, doing[w], IDLE)
    /\ UNCHANGED <<tables, cache, cache_mutex, transaction, loop, writes, up>>

\* What get_friend_list reports for the row p.
Unread(p) == relation[p] + cache[p]

\* Any other transaction: log in, log out, register, set-name, set-slogan.
OtherBegin(w) ==
    /\ Begin(w)
    /\ Worker(w, IDLE, [at |-> "other"])
    /\ UNCHANGED <<tables, cache, loop, writes, up>>

OtherEnd(w) ==
    /\ doing[w].at = "other"
    /\ End
    /\ Worker(w, doing[w], IDLE)
    /\ UNCHANGED <<tables, cache, loop, writes, up>>

--------------------------------------------------------------------------------
\* WHISPER_MESSAGE: add_one_unread, for friends or not.
AddOneUnread(p) ==
    /\ up /\ loop = IDLE /\ cache_mutex = NOBODY
    /\ cache[p] + (IF p \in DOMAIN relation THEN relation[p] ELSE 0) < MaxUnread
    /\ cache' = [cache EXCEPT ![p] = @ + 1]
    /\ UNCHANGED <<tables, locks, doing, loop, writes, up>>

\* Mutant: only the table is cleared.
ClearCached_Nothing(p) ==
    /\ up /\ loop = IDLE /\ cache_mutex = NOBODY
    /\ loop' = [at |-> "cleared", pair |-> p]
    /\ UNCHANGED <<tables, cache, locks, doing, writes, up>>

\* READ_WHISPER_MESSAGES: clear_unread, first in the cache.
ClearCached(p) ==
    /\ up /\ loop = IDLE /\ cache_mutex = NOBODY
    /\ cache' = [cache EXCEPT ![p] = 0]
    /\ loop' = [at |-> "cleared", pair |-> p]
    /\ UNCHANGED <<tables, locks, doing, writes, up>>

\* Then in the table.  Nothing catches the exception of a failed BEGIN.
ClearBegin ==
    /\ loop.at = "cleared"
    /\ Begin(LOOP)
    /\ loop' = [loop EXCEPT !.at = "clearing"]
    /\ UNCHANGED <<tables, cache, doing, writes, up>>

ClearDies ==
    /\ loop.at = "cleared"
    /\ db_mutex = NOBODY /\ transaction # NOBODY
    /\ Die

ClearEnd ==
    /\ loop.at = "clearing"
    /\ relation' = [p \in DOMAIN relation |-> IF p = loop.pair THEN 0 ELSE relation[p]]
    /\ End
    /\ loop' = IDLE
    /\ UNCHANGED <<friend_request, raised, cache, doing, writes, up>>

--------------------------------------------------------------------------------
\* write_cache_to_database, when it has slept: cache_mutex, then BEGIN.
WriterWakes ==
    /\ up /\ writer = "asleep" /\ cache_mutex = NOBODY
    /\ writer' = "awake"
    /\ cache_mutex' = WRITER
    /\ UNCHANGED <<tables, cache, db_mutex, transaction, doing, loop, failed, up>>

\* Mutant: the writer takes db_mutex as well, in the other order than the lists.
WriterBegins_TakesDbMutex ==
    /\ writer = "awake" /\ db_mutex = NOBODY /\ transaction = NOBODY
    /\ writer' = "writing"
    /\ transaction' = WRITER
    /\ UNCHANGED <<tables, cache, db_mutex, cache_mutex, doing, loop, failed, up>>

\* Nothing catches the exception of a BEGIN in somebody's transaction.
WriterBegins ==
    /\ writer = "awake"
    /\ \/ /\ transaction = NOBODY
          /\ writer' = "writing"
          /\ transaction' = WRITER
          /\ UNCHANGED <<tables, cache, db_mutex, cache_mutex, doing, loop, failed, up>>
       \/ transaction # NOBODY /\ Die

\* An UPDATE throws: the row keeps its count, and the loop goes on.  One that
\* would have added nothing is left out.
UpdateThrows(p) ==
    /\ writer = "writing"
    /\ p \in DOMAIN relation /\ cache[p] > 0
    /\ p \notin failed
    /\ failed' = failed \cup {p}
    /\ UNCHANGED <<tables, cache, locks, doing, loop, writer, up>>

\* The UPDATEs that did not throw.
AddedUp ==
    [p \in DOMAIN relation |-> IF p \in failed THEN relation[p] ELSE Unread(p)]

\* Mutant: the cache is written but not emptied.
WriterEnds_KeepsCache ==
    /\ writer = "writing"
    /\ relation' = AddedUp
    /\ cache_mutex' = NOBODY /\ transaction' = NOBODY
    /\ writer' = "asleep" /\ failed' = {}
    /\ UNCHANGED <<friend_request, raised, cache, db_mutex, doing, loop, up>>

\* The COMMIT, and the cache is emptied whatever has thrown.  Counts of users who
\* are not friends update no row and are forgotten.
WriterEnds ==
    /\ writer = "writing"
    /\ relation' = AddedUp
    /\ cache' = NoCounts
    /\ cache_mutex' = NOBODY /\ transaction' = NOBODY
    /\ writer' = "asleep" /\ failed' = {}
    /\ UNCHANGED <<friend_request, raised, db_mutex, doing, loop, up>>

--------------------------------------------------------------------------------
WorkerStep(w) ==
    \/ RaiseEnd(w)
    \/ AnswerEnd(w)
    \/ AcceptBegin(w)
    \/ AcceptFails(w)
    \/ AcceptEnd(w)
    \/ ListEnd(w)
    \/ OtherEnd(w)

Request(w) ==
    \/ \E u, v \in Users : \/ RaiseBegin(w, u, v)
                           \/ \E accept \in BOOLEAN : AnswerBegin(w, u, v, accept)
    \/ ListBegin(w)
    \/ OtherBegin(w)

LoopStep == ClearBegin \/ ClearDies \/ ClearEnd

Message == \E p \in Pairs : AddOneUnread(p) \/ ClearCached(p)

Next ==
    \/ \E w \in Workers : Request(w) \/ WorkerStep(w)
    \/ Message
    \/ LoopStep
    \/ WriterWakes \/ WriterBegins \/ WriterEnds
    \/ \E p \in Pairs : UpdateThrows(p)
    \/ Stop
    \/ Boot

Spec == Init /\ [][Next]_vars

\* A thread that holds a lock goes on, and a list gets cache_mutex in the end:
\* the writer, which alone keeps it for long, sleeps ten minutes in between.
FairSpec ==
    /\ Spec
    /\ WF_vars(WriterBegins) /\ WF_vars(WriterEnds)
    /\ \A w \in Workers : SF_vars(ListEnd(w))

--------------------------------------------------------------------------------
TypeOK ==
    /\ friend_request \subseteq Pairs /\ raised \subseteq Pairs
    /\ DOMAIN relation \subseteq Pairs
    /\ \A p \in DOMAIN relation : relation[p] \in 0..MaxUnread
    /\ cache \in [Pairs -> 0..MaxUnread]
    /\ {db_mutex, cache_mutex, transaction} \subseteq Threads \cup {NOBODY}
    /\ \A w \in Workers :
          doing[w].at \in {"idle", "raise", "remove", "between", "insert", "list", "other"}
    /\ loop.at \in {"idle", "cleared", "clearing"}
    /\ writer \in {"asleep", "awake", "writing"}
    /\ failed \subseteq Pairs
    /\ up \in BOOLEAN

\* Friendship is mutual, whatever requests cross, are accepted twice or are
\* raised again between the two halves of an acceptance, and wherever the
\* process dies.
FriendshipIsMutual == \A p \in DOMAIN relation : Mirror(p) \in DOMAIN relation

\* A step of clear_unread for the pair p.
Reading(p) == /\ loop' # loop
              /\ \E l \in {loop, loop'} : l.at # "idle" /\ l.pair = p

\* While the process lives, the count a user sees for a friend changes with a
\* message, with a reading of that friend's messages, and when the UPDATE of this
\* very pair has thrown: then what was cached of it is lost, and what the table
\* has of it stays.  Otherwise writing the cache down moves counts and neither
\* loses nor repeats any, whatever else has thrown in the transaction.
UnreadNeverJumps ==
    [][up' => \A p \in DOMAIN relation :
          \/ Unread(p)' = Unread(p)
          \/ Unread(p)' = Unread(p) + 1 /\ cache'[p] = cache[p] + 1
          \/ Unread(p)' < Unread(p) /\ Reading(p)
          \/ p \in failed /\ Unread(p)' = relation[p]]_vars

\* When clear_unread returns, the friend's count is zero, although the writer
\* may have run between its two halves.
ReadingClears ==
    [][up' /\ loop.at = "clearing" /\ loop' = IDLE /\ loop.pair \in DOMAIN relation
          => relation'[loop.pair] + cache'[loop.pair] = 0]_vars

\* A request for the list of friends, which holds one mutex while it waits for
\* the other, is answered.
EveryListReturns == \A w \in Workers : doing[w].at = "list" ~> doing[w].at # "list"

\* What the proofs need beside.  Every task that has a pair has a pair of users.
Task == {IDLE} \cup [at : {"list", "other"}]
               \cup [at : {"raise", "between", "insert"}, pair : Pairs]
               \cup [at : {"remove"}, pair : Pairs, accept : BOOLEAN]

TasksAreTyped ==
    /\ doing \in [Workers -> Task]
    /\ loop \in {IDLE} \cup [at : {"cleared", "clearing"}, pair : Pairs]

\* The two halves of a count stay within the bound when they are added up.
CountsAreBounded == \A p \in DOMAIN relation : Unread(p) <= MaxUnread

\* Nothing is counted for the pair whose count is being cleared.
ClearedIsZero == loop.at # "idle" => cache[loop.pair] = 0

\* The inductive invariant behind the theorems of FriendsProofs.
IInv ==
    /\ TypeOK
    /\ TasksAreTyped
    /\ CountsAreBounded
    /\ ClearedIsZero
    /\ FriendshipIsMutual

================================================================================
