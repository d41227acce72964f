------------------------------ MODULE ChatHistory ------------------------------
(***************************************************************************)
(* The history of private messages: class ChatHistory.                     *)
(*                                                                         *)
(* New messages go to a cache in memory, which a thread moves to the table *)
(* chat every ten minutes.  The processor thread adds messages; the HTTP   *)
(* threads read.  get_chat_message reads the cache under cache_mutex and   *)
(* then the table under db_mutex: two actions, between which the other     *)
(* threads run.  Everything else holds its mutexes throughout.             *)
(***************************************************************************)
EXTENDS Naturals, FiniteSets, SequencesExt

CONSTANTS
    Users,
    Readers,        \* HTTP threads (a client that scrolls back is one reader)
    PageSize,       \* the most rows of a friend that one call reads: 20
    MaxMessages,    \* bound: messages ever sent
    MaxTime,        \* bound: the clock, in seconds, since the first message
    IDLE            \* a reader with no call

VARIABLES
    clock,      \* get_timestamp()
    cache,      \* ChatHistory::cache
    index,      \* ChatHistory::index, the positions recorded for each user
    chat,       \* the table chat: how many rows hold each message in it
    call,       \* what each reader has asked and received
    sent,       \* history variable: how many messages were accepted
    lost        \* history variable: messages no longer stored anywhere

vars == <<clock, cache, index, chat, call, sent, lost>>

--------------------------------------------------------------------------------
ChatMessage == [id : 1..MaxMessages, sender_id : Users, receiver_id : Users,
                timestamp : 0..MaxTime]

Parties(m) == {m.sender_id, m.receiver_id}

\* What a client may send for latest_timestamp: any number, and one that is
\* earlier or later than all messages does for all such numbers.
Latest == 0..(MaxTime + 1)

\* A call of get_chat_message, between its halves or answered.  known tells
\* which messages were accepted before it began; got is what it returned.
Call == [half : BOOLEAN, user_id : Users, latest_timestamp : Latest,
         known : 0..MaxMessages, got : SUBSET ChatMessage]

ASSUME ChatAssumption ==
    /\ {PageSize, MaxMessages, MaxTime} \subseteq Nat
    /\ PageSize > 0
    /\ IDLE \notin Call

EmptyIndex == [u \in Users |-> <<>>]

\* The messages of the table.
Rows == DOMAIN chat

Init ==
    /\ clock = 0
    /\ cache = <<>>
    /\ index = EmptyIndex
    /\ chat = [m \in {} |-> 0]
    /\ call = [p \in Readers |-> IDLE]
    /\ sent = 0
    /\ lost = {}

\* system_clock in whole seconds; it is taken never to go back.
Tick ==
    /\ clock < MaxTime
    /\ clock' = clock + 1
    /\ UNCHANGED <<cache, index, chat, call, sent, lost>>

\* Mutant: the receiver is not indexed.
NewChatMessage_SenderOnly(sender, receiver) ==
    LET m == [id |-> sent + 1, sender_id |-> sender, receiver_id |-> receiver,
              timestamp |-> clock]
    IN  /\ sent < MaxMessages
        /\ sent' = sent + 1
        /\ cache' = Append(cache, m)
        /\ index' = [index EXCEPT ![sender] = Append(@, Len(cache) + 1)]
        /\ UNCHANGED <<clock, chat, call, lost>>

\* The new position is recorded for the sender and for the receiver: twice for
\* a message to oneself.
NewChatMessage(sender, receiver) ==
    LET m == [id |-> sent + 1, sender_id |-> sender, receiver_id |-> receiver,
              timestamp |-> clock]
        Positions(u) == (IF u = sender THEN <<Len(cache) + 1>> ELSE <<>>)
                        \o (IF u = receiver THEN <<Len(cache) + 1>> ELSE <<>>)
    IN  /\ sent < MaxMessages
        /\ sent' = sent + 1
        /\ cache' = Append(cache, m)
        /\ index' = [u \in Users |-> index[u] \o Positions(u)]
        /\ UNCHANGED <<clock, chat, call, lost>>

\* The table with one row more for each of these positions of the cache.
Inserted(stored) ==
    [m \in Rows \cup {cache[i] : i \in stored} |->
        (IF m \in Rows THEN chat[m] ELSE 0) + Cardinality({i \in stored : cache[i] = m})]

\* Mutants: the cache is not cleared; the index is not; a short cache waits.
WriteDatabase_KeepsCache(stored) ==
    /\ chat' = Inserted(stored)
    /\ lost' = lost \cup {cache[i].id : i \in DOMAIN cache \ stored}
    /\ index' = EmptyIndex
    /\ UNCHANGED <<clock, cache, call, sent>>

WriteDatabase_KeepsIndex(stored) ==
    /\ chat' = Inserted(stored)
    /\ lost' = lost \cup {cache[i].id : i \in DOMAIN cache \ stored}
    /\ cache' = <<>>
    /\ UNCHANGED <<clock, index, call, sent>>

WriteDatabase_InBatches(stored) ==
    /\ Len(cache) > 1
    /\ chat' = Inserted(stored)
    /\ lost' = lost \cup {cache[i].id : i \in DOMAIN cache \ stored}
    /\ cache' = <<>>
    /\ index' = EmptyIndex
    /\ UNCHANGED <<clock, call, sent>>

\* One round of write_database: the cached messages are inserted.  An INSERT
\* that throws is skipped and its message is gone: only the positions in stored
\* become rows.
WriteDatabase(stored) ==
    /\ chat' = Inserted(stored)
    /\ lost' = lost \cup {cache[i].id : i \in DOMAIN cache \ stored}
    /\ cache' = <<>>
    /\ index' = EmptyIndex
    /\ UNCHANGED <<clock, call, sent>>

\* The process dies and is started again: the cache and the calls are gone.
Restart ==
    /\ lost' = lost \cup {cache[i].id : i \in DOMAIN cache}
    /\ cache' = <<>>
    /\ index' = EmptyIndex
    /\ call' = [p \in Readers |-> IDLE]
    /\ UNCHANGED <<clock, chat, sent>>

--------------------------------------------------------------------------------
\* First half of get_chat_message: the user's cached messages.
FromCache(u, latest) ==
    {m \in {cache[i] : i \in ToSet(index[u])} : m.timestamp < latest}

GetFromCache(p, u, latest) ==
    /\ call[p] = IDLE
    /\ call' = [call EXCEPT ![p] =
            [half |-> TRUE, user_id |-> u, latest_timestamp |-> latest,
             known |-> sent, got |-> FromCache(u, latest)]]
    /\ UNCHANGED <<clock, cache, index, chat, sent, lost>>

\* Mutant: ORDER BY timestamp without DESC.
Pages_OldestFirst(u, f, latest) ==
    LET rows == {m \in Rows : Parties(m) = {u, f} /\ m.timestamp < latest}
    IN  {page \in SUBSET rows :
            /\ \/ Cardinality(page) = PageSize
               \/ Cardinality(page) < PageSize /\ page = rows
            /\ \A m \in page, n \in rows \ page : m.timestamp <= n.timestamp}

\* The query both functions make: at most PageSize rows of the conversation of
\* u and f before latest, newest first.  Rows of one second come in any order.
Pages(u, f, latest) ==
    LET rows == {m \in Rows : Parties(m) = {u, f} /\ m.timestamp < latest}
    IN  {page \in SUBSET rows :
            /\ \/ Cardinality(page) = PageSize
               \/ Cardinality(page) < PageSize /\ page = rows
            /\ \A m \in page, n \in rows \ page : m.timestamp >= n.timestamp}

\* Second half of get_chat_message: a page for each friend found in the table.
\* (page is indexed by every user; the page of a stranger is empty.)
GetFromDatabase(p) ==
    /\ call[p] # IDLE
    /\ call[p].half
    /\ LET c == call[p]
       IN  \E page \in [Users -> SUBSET Rows] :
             /\ \A f \in Users : page[f] \in Pages(c.user_id, f, c.latest_timestamp)
             /\ call' = [call EXCEPT ![p].half = FALSE,
                                     ![p].got = @ \cup UNION {page[f] : f \in Users}]
    /\ UNCHANGED <<clock, cache, index, chat, sent, lost>>

\* The messages of S between users u and f.
Conversation(u, f, S) == {m \in S : Parties(m) = {u, f}}

\* get_20_chat_messages, asked by a client that scrolls back beyond the oldest
\* message it has of friend f.
Get20ChatMessages(p, f) ==
    /\ call[p] # IDLE
    /\ ~call[p].half
    /\ \E oldest \in Conversation(call[p].user_id, f, call[p].got) :
         /\ \A m \in Conversation(call[p].user_id, f, call[p].got) :
                oldest.timestamp <= m.timestamp
         /\ \E page \in Pages(call[p].user_id, f, oldest.timestamp) :
                call' = [call EXCEPT ![p].got = @ \cup page]
    /\ UNCHANGED <<clock, cache, index, chat, sent, lost>>

\* The client is done with what it got.
Finish(p) ==
    /\ call[p] # IDLE
    /\ ~call[p].half
    /\ call' = [call EXCEPT ![p] = IDLE]
    /\ UNCHANGED <<clock, cache, index, chat, sent, lost>>

--------------------------------------------------------------------------------
Write == \E stored \in SUBSET DOMAIN cache : WriteDatabase(stored)

Next ==
    \/ Tick
    \/ \E sender, receiver \in Users : NewChatMessage(sender, receiver)
    \/ Write
    \/ Restart
    \/ \E p \in Readers :
          \/ \E u \in Users, latest \in Latest : GetFromCache(p, u, latest)
          \/ GetFromDatabase(p)
          \/ \E f \in Users : Get20ChatMessages(p, f)
          \/ Finish(p)

Spec == Init /\ [][Next]_vars

\* The writer thread sleeps ten minutes and writes, for ever.
FairSpec == Spec /\ WF_vars(Write)

--------------------------------------------------------------------------------
(* Properties *)

TypeOK ==
    /\ clock \in 0..MaxTime
    /\ sent \in 0..MaxMessages
    /\ lost \in SUBSET (1..sent)
    /\ cache \in Seq(ChatMessage)
    /\ index \in [Users -> Seq(1..Len(cache))]
    /\ Rows \subseteq ChatMessage /\ \A m \in Rows : chat[m] \in Nat
    /\ call \in [Readers -> Call \cup {IDLE}]

\* How often a message is stored, in the cache and in the table together.
Copies(m) ==
    Cardinality({i \in DOMAIN cache : cache[i] = m}) + (IF m \in Rows THEN chat[m] ELSE 0)

Stored == ToSet(cache) \cup Rows

\* A message is stored exactly once, from the moment it is accepted, unless its
\* INSERT failed or the process died while it was only in the cache; and under
\* its number nothing else is stored.
KeptExactlyOnce ==
    \A k \in 1..sent :
        LET found == {m \in Stored : m.id = k}
        IN  IF k \in lost THEN found = {} ELSE \E m \in found : found = {m} /\ Copies(m) = 1

\* The index finds exactly the cached messages a user sent or received; a
\* position left over from before a write would read outside the vector.
IndexMatchesCache ==
    \A u \in Users :
        ToSet(index[u]) = {i \in DOMAIN cache : u \in Parties(cache[i])}

\* What a client holds of a conversation has no gaps: between its newest and
\* its oldest message it has every stored one that was there when it asked,
\* though messages were moved from the cache to the table meanwhile, except
\* one sent in the same second as one it has.
HistoryHasNoGaps ==
    \A p \in Readers : call[p] # IDLE /\ ~call[p].half =>
        \A f \in Users :
            LET c     == call[p]
                stored == Conversation(c.user_id, f, Stored)
                held   == Conversation(c.user_id, f, c.got)
            IN  \A m \in stored :
                    /\ m.id <= c.known
                    /\ m.timestamp < c.latest_timestamp
                    /\ held = {} \/ \E n \in held : n.timestamp < m.timestamp
                    => \/ m \in held
                       \/ \E n \in held : n.timestamp = m.timestamp

\* Every message reaches the table in the end, unless it is lost.
CachedIsWritten ==
    \A k \in 1..MaxMessages :
        (sent >= k) ~> (k \in lost \/ \E m \in Rows : m.id = k)

\* What the proofs need beside.  Messages are numbered as they come, and later
\* ones are not older; each has one place.
InOrder ==
    /\ \A m \in Stored : m.id \in (1..sent) \ lost /\ m.timestamp <= clock
    /\ \A i, j \in DOMAIN cache : i < j =>
          cache[i].id < cache[j].id /\ cache[i].timestamp <= cache[j].timestamp
    /\ \A m \in Rows, i \in DOMAIN cache :
          m.id < cache[i].id /\ m.timestamp <= cache[i].timestamp
    /\ \A m, n \in Rows : m.id = n.id => m = n
    /\ \A m \in Rows : chat[m] = 1

NoneForgotten == \A k \in 1..sent : k \in lost \/ \E m \in Stored : m.id = k

\* The messages a call asks for, as far as they were there when it began.
Wanted(c) == {m \in ChatMessage : /\ m.id <= c.known
                                  /\ c.user_id \in Parties(m)
                                  /\ m.timestamp < c.latest_timestamp}

\* A call has all it wants of the cache, for its messages were there when the
\* call looked; and between its halves it lacks only messages older than those.
CallsAreAhead ==
    \A p \in Readers : call[p] # IDLE =>
        LET c == call[p]
        IN  /\ c.known <= sent
            /\ ToSet(cache) \cap Wanted(c) \subseteq c.got
            /\ c.half => \A m \in (Stored \cap Wanted(c)) \ c.got, n \in c.got :
                            m.timestamp <= n.timestamp

\* The inductive invariant behind the theorems of ChatHistoryProofs.
IInv ==
    /\ TypeOK
    /\ IndexMatchesCache
    /\ InOrder
    /\ NoneForgotten
    /\ CallsAreAhead
    /\ HistoryHasNoGaps

================================================================================
