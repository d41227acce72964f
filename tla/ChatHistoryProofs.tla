-------------------------- MODULE ChatHistoryProofs ----------------------------
(* Proofs about module ChatHistory. *)
EXTENDS ChatHistory, FiniteSetTheorems, SequenceTheorems, TLAPS

\* What CallsAreAhead and HistoryHasNoGaps say of one call.
Ahead(c) ==
    /\ c.known <= sent
    /\ ToSet(cache) \cap Wanted(c) \subseteq c.got
    /\ c.half => \A m \in (Stored \cap Wanted(c)) \ c.got, n \in c.got :
                    m.timestamp <= n.timestamp

Gapless(c) ==
    \A f \in Users :
        \A m \in Conversation(c.user_id, f, Stored) :
            LET held == Conversation(c.user_id, f, c.got)
            IN  /\ m.id <= c.known
                /\ m.timestamp < c.latest_timestamp
                /\ held = {} \/ \E n \in held : n.timestamp < m.timestamp
                => \/ m \in held
                   \/ \E n \in held : n.timestamp = m.timestamp

GoodCall(c) == Ahead(c) /\ (~c.half => Gapless(c))

\* The two invariants about calls, call by call.
LEMMA CallByCall ==
    (CallsAreAhead /\ HistoryHasNoGaps) <=> \A p \in Readers : call[p] # IDLE => GoodCall(call[p])
BY DEF CallsAreAhead, HistoryHasNoGaps, GoodCall, Ahead, Gapless

LEMMA CallByCallNext ==
    (CallsAreAhead /\ HistoryHasNoGaps)' <=>
        \A p \in Readers : call'[p] # IDLE => GoodCall(call[p])'
BY DEF CallsAreAhead, HistoryHasNoGaps, GoodCall, Ahead, Gapless

\* The elements of a sequence.
LEMMA ElementsOf ==
    ASSUME NEW S, NEW s \in Seq(S)
    PROVE  ToSet(s) \subseteq S /\ ToSet(s) = {s[i] : i \in DOMAIN s}
BY DEF ToSet

LEMMA ElementsOfConcat ==
    ASSUME NEW S, NEW s \in Seq(S), NEW t \in Seq(S)
    PROVE  s \o t \in Seq(S) /\ ToSet(s \o t) = ToSet(s) \cup ToSet(t)
<1>1. s \o t \in Seq(S)
  BY ConcatProperties
<1>2. \A q : ToSet(q) = Range(q)
  BY DEF ToSet, Range
<1>3. Range(s \o t) = Range(s) \cup Range(t)
  BY RangeConcatenation
<1> QED
  BY <1>1, <1>2, <1>3

\* The cache is a sequence of messages, and what is stored are messages.
LEMMA Messages ==
    ASSUME TypeOK
    PROVE  /\ Len(cache) \in Nat /\ DOMAIN cache = 1..Len(cache)
           /\ \A i \in DOMAIN cache : cache[i] \in ChatMessage
           /\ ToSet(cache) = {cache[i] : i \in DOMAIN cache}
           /\ Stored \subseteq ChatMessage
           /\ \A m \in ChatMessage :
                /\ m.id \in Nat /\ m.timestamp \in Nat
                /\ m.sender_id \in Users /\ m.receiver_id \in Users
           /\ sent \in Nat /\ clock \in Nat
<1>1. /\ Len(cache) \in Nat /\ DOMAIN cache = 1..Len(cache)
      /\ \A i \in DOMAIN cache : cache[i] \in ChatMessage
  BY DEF TypeOK
<1>2. ToSet(cache) = {cache[i] : i \in DOMAIN cache}
  BY DEF ToSet
<1>3. Stored \subseteq ChatMessage
  BY <1>1, <1>2 DEF TypeOK, Stored
<1>4. \A m \in ChatMessage :
         /\ m.id \in Nat /\ m.timestamp \in Nat
         /\ m.sender_id \in Users /\ m.receiver_id \in Users
  BY ChatAssumption DEF ChatMessage
<1>5. sent \in Nat /\ clock \in Nat
  BY ChatAssumption DEF TypeOK
<1> QED
  BY <1>1, <1>2, <1>3, <1>4, <1>5

\* What a step leaves of the calls, if it stores nothing that was there before
\* somewhere else.
LEMMA CallsKept ==
    ASSUME IInv, TypeOK', call' = call, sent <= sent',
           \A m \in Stored' : m \in Stored \/ m.id > sent,
           \A m \in ToSet(cache)' : m \in ToSet(cache) \/ m.id > sent
    PROVE  CallsAreAhead' /\ HistoryHasNoGaps'
<1> SUFFICES ASSUME NEW p \in Readers, call[p] # IDLE
             PROVE  GoodCall(call[p])'
  BY CallByCallNext
<1> DEFINE c == call[p]
<1>1. GoodCall(c)
  BY CallByCall DEF IInv
<1>2. c \in Call /\ sent \in Nat /\ sent' \in Nat
  BY ChatAssumption DEF IInv, TypeOK
<1>3. c.known \in Nat /\ c.known <= sent
  BY <1>1, <1>2, ChatAssumption DEF GoodCall, Ahead, Call
<1>4. Stored' \cap Wanted(c) \subseteq Stored /\ ToSet(cache)' \cap Wanted(c) \subseteq ToSet(cache)
  BY <1>2, <1>3, ChatAssumption DEF Wanted, ChatMessage
<1>5. Ahead(c)'
  BY <1>1, <1>2, <1>3, <1>4 DEF GoodCall, Ahead, Wanted
<1>6. ~c.half => Gapless(c)'
  <2> SUFFICES ASSUME ~c.half, NEW f \in Users, NEW m \in Conversation(c.user_id, f, Stored)',
                      m.id <= c.known
               PROVE  m \in Conversation(c.user_id, f, Stored)
    BY <1>1 DEF GoodCall, Gapless, Conversation
  <2>1. m \in Stored' /\ Parties(m) = {c.user_id, f}
    BY DEF Conversation
  <2>2. m.id \in Nat
    <3>1. cache' \in Seq(ChatMessage) /\ Rows' \subseteq ChatMessage
      BY DEF TypeOK
    <3>2. m \in ChatMessage
      BY <2>1, <3>1, ElementsOf DEF Stored
    <3> QED
      BY <3>2, ChatAssumption DEF ChatMessage
  <2> QED
    BY <1>2, <1>3, <2>1, <2>2 DEF Conversation
<1> QED
  BY <1>5, <1>6 DEF GoodCall

--------------------------------------------------------------------------------
LEMMA InitInv == Init => IInv
<1> SUFFICES ASSUME Init PROVE IInv
  OBVIOUS
<1>1. DOMAIN cache = {} /\ ToSet(cache) = {} /\ Rows = {} /\ Stored = {}
  BY DEF Init, ToSet, Rows, Stored
<1>2. TypeOK
  BY <1>1, ChatAssumption DEF Init, TypeOK, EmptyIndex
<1>3. IndexMatchesCache
  BY <1>1 DEF Init, IndexMatchesCache, EmptyIndex, ToSet
<1> QED
  BY <1>1, <1>2, <1>3, ChatAssumption
     DEF Init, IInv, InOrder, NoneForgotten, CallsAreAhead, HistoryHasNoGaps

\* Time only has to stay ahead of the messages.
LEMMA TickInv == IInv /\ Tick => IInv'
<1> SUFFICES ASSUME IInv, Tick PROVE IInv'
  OBVIOUS
<1>1. Stored' = Stored /\ Rows' = Rows /\ ToSet(cache)' = ToSet(cache)
  BY DEF Tick, Stored, Rows
<1>2. TypeOK'
  BY <1>1, ChatAssumption DEF IInv, TypeOK, Tick
<1>3. CallsAreAhead' /\ HistoryHasNoGaps'
  <2>1. sent <= sent'
    BY Messages DEF IInv, Tick
  <2> QED
    BY <1>1, <1>2, <2>1, CallsKept DEF Tick
<1>4. InOrder'
  <2>1. \A m \in Stored : m.timestamp <= clock'
    BY Messages DEF IInv, InOrder, Tick
  <2> QED
    BY <1>1, <2>1 DEF IInv, InOrder, Tick
<1> QED
  BY <1>1, <1>2, <1>3, <1>4 DEF IInv, Tick, IndexMatchesCache, NoneForgotten

\* A new message has the highest number and the latest time, and the last
\* place in the cache.
LEMMA NewChatMessageInv ==
    ASSUME IInv, NEW sender \in Users, NEW receiver \in Users,
           NewChatMessage(sender, receiver)
    PROVE  IInv'
<1> DEFINE n == Len(cache)
           m == [id |-> sent + 1, sender_id |-> sender, receiver_id |-> receiver,
                 timestamp |-> clock]
<1>1. /\ sent < MaxMessages /\ sent' = sent + 1
      /\ cache' = Append(cache, m)
      /\ UNCHANGED <<clock, chat, call, lost>>
  BY DEF NewChatMessage
<1>2. m \in ChatMessage /\ m.id = sent + 1 /\ m.timestamp = clock
      /\ Parties(m) = {sender, receiver}
  BY <1>1, ChatAssumption DEF IInv, TypeOK, ChatMessage, Parties
<1>3. n \in Nat /\ cache \in Seq(ChatMessage)
  BY DEF IInv, TypeOK
<1> HIDE DEF m
<1>4. /\ cache' \in Seq(ChatMessage)
      /\ Len(cache') = n + 1 /\ DOMAIN cache' = 1..(n + 1)
      /\ \A i \in 1..n : cache'[i] = cache[i]
      /\ cache'[n + 1] = m
  BY <1>1, <1>2, <1>3, AppendProperties, LenProperties
<1>5. DOMAIN cache = 1..n
  BY <1>3
<1>6. ToSet(cache)' = ToSet(cache) \cup {m} /\ Rows' = Rows
  <2>1. ToSet(cache) = {cache[i] : i \in 1..n} /\ ToSet(cache)' = {cache'[i] : i \in 1..(n + 1)}
    BY <1>3, <1>4, <1>5, ElementsOf
  <2>2. 1..(n + 1) = 1..n \cup {n + 1}
    BY <1>3
  <2> QED
    BY <1>1, <1>4, <2>1, <2>2 DEF Rows
<1>7. Stored' = Stored \cup {m}
  BY <1>6 DEF Stored
<1>8. \A u \in Users : index'[u] \in Seq(1..(n + 1)) /\ ToSet(index'[u]) =
         ToSet(index[u]) \cup (IF u \in {sender, receiver} THEN {n + 1} ELSE {})
  <2> SUFFICES ASSUME NEW u \in Users
               PROVE  index'[u] \in Seq(1..(n + 1)) /\ ToSet(index'[u]) =
                 ToSet(index[u]) \cup (IF u \in {sender, receiver} THEN {n + 1} ELSE {})
    OBVIOUS
  <2> DEFINE a == IF u = sender THEN <<n + 1>> ELSE <<>>
             b == IF u = receiver THEN <<n + 1>> ELSE <<>>
  <2>1. index'[u] = index[u] \o (a \o b)
    BY DEF NewChatMessage
  <2>2. index[u] \in Seq(1..(n + 1)) /\ a \in Seq(1..(n + 1)) /\ b \in Seq(1..(n + 1))
    <3>1. index[u] \in Seq(1..n) /\ 1..n \subseteq 1..(n + 1)
      BY <1>3 DEF IInv, TypeOK
    <3>2. index[u] \in Seq(1..(n + 1))
      BY <3>1, SeqMonotonic
    <3>3. <<n + 1>> \in Seq(1..(n + 1)) /\ <<>> \in Seq(1..(n + 1))
      BY <1>3
    <3> QED
      BY <3>2, <3>3
  <2>3. ToSet(a) = (IF u = sender THEN {n + 1} ELSE {})
        /\ ToSet(b) = (IF u = receiver THEN {n + 1} ELSE {})
    BY DEF ToSet
  <2> HIDE DEF a, b
  <2>4. a \o b \in Seq(1..(n + 1)) /\ ToSet(a \o b) = ToSet(a) \cup ToSet(b)
    BY <2>2, ElementsOfConcat
  <2>5. /\ index[u] \o (a \o b) \in Seq(1..(n + 1))
        /\ ToSet(index[u] \o (a \o b)) = ToSet(index[u]) \cup ToSet(a \o b)
    <3> DEFINE ab == a \o b
               S  == 1..(n + 1)
    <3>1. index[u] \in Seq(S) /\ ab \in Seq(S)
      BY <2>2, <2>4
    <3> HIDE DEF ab, S
    <3>2. index[u] \o ab \in Seq(S) /\ ToSet(index[u] \o ab) = ToSet(index[u]) \cup ToSet(ab)
      BY <3>1, ElementsOfConcat
    <3> QED
      BY <3>2 DEF ab, S
  <2> QED
    BY <2>1, <2>3, <2>4, <2>5
<1>9. TypeOK'
  <2>1. index' \in [Users -> Seq(1..Len(cache'))]
    BY <1>4, <1>8 DEF NewChatMessage
  <2>2. sent' \in 0..MaxMessages /\ lost' \in SUBSET (1..sent')
    BY <1>1, ChatAssumption DEF IInv, TypeOK
  <2> QED
    BY <1>1, <1>4, <1>6, <2>1, <2>2 DEF IInv, TypeOK
<1>10. IndexMatchesCache'
  <2> SUFFICES ASSUME NEW u \in Users
               PROVE  ToSet(index'[u]) = {i \in DOMAIN cache' : u \in Parties(cache'[i])}
    BY DEF IndexMatchesCache
  <2>1. ToSet(index[u]) = {i \in 1..n : u \in Parties(cache[i])}
    BY <1>5 DEF IInv, IndexMatchesCache
  <2>2. 1..(n + 1) = 1..n \cup {n + 1} /\ n + 1 \notin 1..n
    BY <1>3
  <2>3. ToSet(index'[u]) = ToSet(index[u]) \cup (IF u \in {sender, receiver} THEN {n + 1} ELSE {})
    BY <1>8
  <2>4. {i \in 1..n : u \in Parties(cache'[i])} = {i \in 1..n : u \in Parties(cache[i])}
    BY ONLY <1>4
  <2>5. u \in Parties(cache'[n + 1]) <=> u \in {sender, receiver}
    BY ONLY <1>2, <1>4
  <2>6. {i \in 1..(n + 1) : u \in Parties(cache'[i])} =
          {i \in 1..n : u \in Parties(cache'[i])}
            \cup (IF u \in {sender, receiver} THEN {n + 1} ELSE {})
    BY ONLY <2>2, <2>5
  <2> QED
    BY ONLY <1>4, <2>1, <2>3, <2>4, <2>6
<1>11. CallsAreAhead' /\ HistoryHasNoGaps'
  <2>1. sent \in Nat /\ sent <= sent' /\ m.id > sent
    BY <1>1, <1>2, Messages DEF IInv
  <2> QED
    BY <1>1, <1>6, <1>7, <1>9, <2>1, CallsKept
<1>12. NoneForgotten'
  BY <1>1, <1>2, <1>7, Messages DEF IInv, NoneForgotten
<1>13. InOrder'
  <2> USE <1>1, <1>2 DEF IInv, InOrder
  <2>1. sent \in Nat /\ clock \in Nat /\ \A x \in Stored : x.id \in Nat /\ x.timestamp \in Nat
    BY Messages
  <2>0. \A i \in 1..n : cache[i] \in Stored
    BY ONLY <1>5, Messages, IInv DEF IInv, Stored
  <2>2. lost \subseteq 1..sent
    BY DEF TypeOK
  <2>3. \A x \in Stored' : x.id \in (1..sent') \ lost' /\ x.timestamp <= clock'
    BY <1>7, <2>1, <2>2
  <2>4. \A i, j \in DOMAIN cache' : i < j =>
          cache'[i].id < cache'[j].id /\ cache'[i].timestamp <= cache'[j].timestamp
    <3> SUFFICES ASSUME NEW i \in 1..(n + 1), NEW j \in 1..(n + 1), i < j
                 PROVE  cache'[i].id < cache'[j].id /\ cache'[i].timestamp <= cache'[j].timestamp
      BY <1>4
    <3>1. i \in 1..n /\ cache'[i] = cache[i] /\ cache[i] \in Stored
      <4>1. i \in 1..n
        BY <1>3
      <4> QED
        BY ONLY <1>4, <2>0, <4>1
    <3>2. CASE j = n + 1
      <4>1. cache'[j] = m
        BY <1>4, <3>2
      <4>2. cache[i].id \in 1..sent /\ cache[i].timestamp <= clock
        BY <3>1
      <4> QED
        BY <2>1, <3>1, <4>1, <4>2
    <3>3. CASE j # n + 1
      <4>1. j \in 1..n /\ cache'[j] = cache[j]
        BY <1>3, <1>4, <3>3
      <4> QED
        BY <1>5, <3>1, <4>1
    <3> QED
      BY <3>2, <3>3
  <2>5. \A x \in Rows, i \in DOMAIN cache' :
          x.id < cache'[i].id /\ x.timestamp <= cache'[i].timestamp
    BY <1>3, <1>4, <1>5, <2>1, <2>0 DEF Stored
  <2> QED
    BY <1>6, <2>3, <2>4, <2>5
<1> QED
  BY <1>9, <1>10, <1>11, <1>12, <1>13 DEF IInv

\* Emptying the cache and the index keeps what is said of them.
LEMMA EmptyCache ==
    ASSUME cache' = <<>>, index' = EmptyIndex
    PROVE  /\ DOMAIN cache' = {} /\ ToSet(cache)' = {} /\ Stored' = Rows'
           /\ cache' \in Seq(ChatMessage) /\ index' \in [Users -> Seq(1..Len(cache'))]
           /\ IndexMatchesCache'
<1>1. DOMAIN cache' = {} /\ ToSet(cache)' = {}
  BY DEF ToSet
<1>2. IndexMatchesCache'
  BY <1>1 DEF IndexMatchesCache, EmptyIndex, ToSet
<1> QED
  BY <1>1, <1>2 DEF Stored, EmptyIndex

\* The messages moved had no row before, and now have one each.
LEMMA WriteDatabaseInv ==
    ASSUME IInv, NEW stored \in SUBSET DOMAIN cache, WriteDatabase(stored)
    PROVE  IInv'
<1> DEFINE moved == {cache[i] : i \in stored}
           failed == {cache[i].id : i \in DOMAIN cache \ stored}
<1>1. /\ chat' = Inserted(stored) /\ lost' = lost \cup failed
      /\ cache' = <<>> /\ index' = EmptyIndex
      /\ UNCHANGED <<clock, call, sent>>
  BY DEF WriteDatabase
<1>2. /\ DOMAIN cache' = {} /\ ToSet(cache)' = {} /\ Stored' = Rows'
      /\ cache' \in Seq(ChatMessage) /\ index' \in [Users -> Seq(1..Len(cache'))]
      /\ IndexMatchesCache'
  BY <1>1, EmptyCache
<1>3. Rows' = Rows \cup moved /\ moved \subseteq ToSet(cache)
  BY <1>1 DEF Inserted, Rows, ToSet
<1>4. \A i, j \in DOMAIN cache : i # j => cache[i].id # cache[j].id
  <2> SUFFICES ASSUME NEW i \in DOMAIN cache, NEW j \in DOMAIN cache, i # j
               PROVE  cache[i].id # cache[j].id
    OBVIOUS
  <2>1. i \in Nat /\ j \in Nat /\ cache[i].id \in Nat /\ cache[j].id \in Nat
    BY Messages DEF IInv
  <2>2. i < j \/ j < i
    BY <2>1
  <2> QED
    BY <2>1, <2>2 DEF IInv, InOrder
<1>5. \A m \in Rows, i \in DOMAIN cache : m.id # cache[i].id
  <2> SUFFICES ASSUME NEW m \in Rows, NEW i \in DOMAIN cache
               PROVE  m.id # cache[i].id
    OBVIOUS
  <2>1. m.id \in Nat /\ cache[i].id \in Nat
    BY Messages DEF IInv, Stored
  <2> QED
    BY <2>1 DEF IInv, InOrder
<1>6. \A m \in Rows' : chat'[m] = 1
  <2> SUFFICES ASSUME NEW m \in Rows' PROVE chat'[m] = 1
    OBVIOUS
  <2> DEFINE places == {i \in stored : cache[i] = m}
  <2>1. chat'[m] = (IF m \in Rows THEN chat[m] ELSE 0) + Cardinality(places)
    BY <1>1, <1>3 DEF Inserted
  <2>2. CASE m \in Rows
    <3>1. Cardinality(places) = 0
      <4>1. places = {}
        BY <1>5, <2>2
      <4> QED
        BY ONLY <4>1, FS_EmptySet
    <3>2. chat[m] = 1
      BY <2>2 DEF IInv, InOrder
    <3> QED
      BY ONLY <2>1, <2>2, <3>1, <3>2
  <2>3. CASE m \notin Rows
    <3>1. PICK i \in stored : cache[i] = m
      BY <1>3, <2>3
    <3>2. Cardinality(places) = 1
      <4>1. places = {i}
        BY <1>4, <3>1
      <4> QED
        BY ONLY <4>1, FS_Singleton
    <3> QED
      BY ONLY <2>1, <2>3, <3>2
  <2> QED
    BY <2>2, <2>3
<1>7. Rows' \subseteq ChatMessage /\ Rows' \subseteq Stored
  BY <1>3, Messages DEF IInv, Stored
<1>8. lost' \in SUBSET (1..sent')
  <2>1. failed \subseteq 1..sent
    BY ElementsOf DEF IInv, InOrder, Stored, TypeOK
  <2> QED
    BY <1>1, <2>1 DEF IInv, TypeOK
<1>9. TypeOK'
  BY <1>1, <1>2, <1>6, <1>7, <1>8 DEF IInv, TypeOK
<1>10. CallsAreAhead' /\ HistoryHasNoGaps'
  <2>1. sent <= sent'
    BY <1>1, Messages DEF IInv
  <2> QED
    BY <1>1, <1>2, <1>7, <1>9, <2>1, CallsKept
<1>11. NoneForgotten'
  <2> SUFFICES ASSUME NEW k \in 1..sent, k \notin lost, k \notin failed
               PROVE  \E m \in Rows' : m.id = k
    BY <1>1, <1>2 DEF NoneForgotten
  <2>1. PICK m \in Stored : m.id = k
    BY DEF IInv, NoneForgotten
  <2>2. CASE m \in Rows
    BY <1>3, <2>1, <2>2
  <2>3. CASE m \in ToSet(cache)
    BY <1>3, <2>1, <2>3 DEF ToSet
  <2> QED
    BY <2>2, <2>3 DEF Stored
<1>12. InOrder'
  <2>1. \A m \in Rows' : m.id \in (1..sent') \ lost' /\ m.timestamp <= clock'
    <3> SUFFICES ASSUME NEW m \in Rows' PROVE m.id \notin failed
      BY <1>1, <1>7 DEF IInv, InOrder
    <3>1. CASE m \in Rows
      BY <1>5, <3>1
    <3>2. CASE m \in moved
      BY <1>4, <3>2
    <3> QED
      BY <1>3, <3>1, <3>2
  <2>2. \A m, n \in Rows' : m.id = n.id => m = n
    BY <1>3, <1>4, <1>5 DEF IInv, InOrder
  <2> QED
    BY <1>2, <1>6, <2>1, <2>2 DEF InOrder
<1> QED
  BY <1>2, <1>9, <1>10, <1>11, <1>12 DEF IInv

\* What the process forgets when it dies is lost, and nobody asks any more.
LEMMA RestartInv == IInv /\ Restart => IInv'
<1> SUFFICES ASSUME IInv, Restart PROVE IInv'
  OBVIOUS
<1> DEFINE forgotten == {cache[i].id : i \in DOMAIN cache}
<1>1. /\ lost' = lost \cup forgotten
      /\ cache' = <<>> /\ index' = EmptyIndex
      /\ call' = [p \in Readers |-> IDLE]
      /\ UNCHANGED <<clock, chat, sent>>
  BY DEF Restart
<1>2. /\ DOMAIN cache' = {} /\ ToSet(cache)' = {} /\ Stored' = Rows'
      /\ cache' \in Seq(ChatMessage) /\ index' \in [Users -> Seq(1..Len(cache'))]
      /\ IndexMatchesCache'
  BY <1>1, EmptyCache
<1>3. Rows' = Rows /\ Rows \subseteq Stored
  BY <1>1 DEF Rows, Stored
<1>4. \A m \in Rows : m.id \notin forgotten
  <2> SUFFICES ASSUME NEW m \in Rows, NEW i \in DOMAIN cache
               PROVE  m.id # cache[i].id
    OBVIOUS
  <2>1. m.id \in Nat /\ cache[i].id \in Nat
    BY Messages DEF IInv, Stored
  <2> QED
    BY <2>1 DEF IInv, InOrder
<1>5. TypeOK'
  <2>1. forgotten \subseteq 1..sent
    BY ElementsOf DEF IInv, InOrder, Stored, TypeOK
  <2>2. lost' \in SUBSET (1..sent')
    BY <1>1, <2>1 DEF IInv, TypeOK
  <2> QED
    BY <1>1, <1>2, <1>3, <2>2 DEF IInv, TypeOK
<1>6. CallsAreAhead' /\ HistoryHasNoGaps'
  BY <1>1 DEF CallsAreAhead, HistoryHasNoGaps
<1>7. NoneForgotten'
  BY <1>1, <1>2, <1>3 DEF IInv, NoneForgotten, Stored, ToSet
<1>8. InOrder'
  BY <1>1, <1>2, <1>3, <1>4 DEF IInv, InOrder
<1> QED
  BY <1>2, <1>5, <1>6, <1>7, <1>8 DEF IInv

--------------------------------------------------------------------------------
\* A step of one reader leaves everything but its call alone.
LEMMA CallStep ==
    ASSUME IInv, NEW p \in Readers, NEW c \in Call \cup {IDLE},
           call' = [call EXCEPT ![p] = c],
           UNCHANGED <<clock, cache, index, chat, sent, lost>>,
           c # IDLE => GoodCall(c)
    PROVE  IInv'
<1>1. Stored' = Stored /\ Rows' = Rows /\ ToSet(cache)' = ToSet(cache)
  BY DEF Stored, Rows
<1>2. TypeOK'
  BY <1>1 DEF IInv, TypeOK
<1>3. CallsAreAhead' /\ HistoryHasNoGaps'
  <2> SUFFICES ASSUME NEW q \in Readers, call'[q] # IDLE
               PROVE  GoodCall(call[q])'
    BY CallByCallNext
  <2>1. call' \in [Readers -> Call \cup {IDLE}] /\ call \in [Readers -> Call \cup {IDLE}]
    BY <1>2 DEF IInv, TypeOK
  <2>2. GoodCall(call'[q])
    <3>1. CASE q = p
      BY <2>1, <3>1
    <3>2. CASE q # p
      BY <2>1, <3>2, CallByCall DEF IInv
    <3> QED
      BY <3>1, <3>2
  <2> QED
    BY <1>1, <2>2 DEF GoodCall, Ahead, Gapless
<1> QED
  BY <1>1, <1>2, <1>3 DEF IInv, IndexMatchesCache, InOrder, NoneForgotten

\* What a call lacks of what it wants is in the table only.
LEMMA LackingIsInTable ==
    ASSUME NEW c, Ahead(c), NEW m \in (Stored \cap Wanted(c)) \ c.got
    PROVE  m \in Rows
BY DEF Ahead, Stored

\* Only older messages were moved out of the cache before the call looked.
LEMMA GetFromCacheInv ==
    ASSUME IInv, NEW p \in Readers, NEW u \in Users, NEW latest \in Latest,
           GetFromCache(p, u, latest)
    PROVE  IInv'
<1> DEFINE c == [half |-> TRUE, user_id |-> u, latest_timestamp |-> latest,
                 known |-> sent, got |-> FromCache(u, latest)]
<1>1. /\ c.half = TRUE /\ c.user_id = u /\ c.latest_timestamp = latest
      /\ c.known = sent /\ c.got = FromCache(u, latest)
  OBVIOUS
<1>2. ToSet(index[u]) = {i \in DOMAIN cache : u \in Parties(cache[i])}
  BY DEF IInv, IndexMatchesCache
<1>3. FromCache(u, latest) =
        {m \in ToSet(cache) : u \in Parties(m) /\ m.timestamp < latest}
  BY <1>2 DEF FromCache, ToSet
<1>4. c \in Call
  <2>1. FromCache(u, latest) \subseteq ChatMessage /\ sent \in 0..MaxMessages
    BY <1>3, Messages DEF IInv, TypeOK, Stored
  <2> QED
    BY <2>1 DEF Call
<1> HIDE DEF c
<1>5. Ahead(c)
  <2>1. c.known <= sent
    BY <1>1, Messages DEF IInv
  <2>2. ToSet(cache) \cap Wanted(c) \subseteq c.got
    BY <1>1, <1>3 DEF Wanted
  <2>3. ASSUME NEW m \in (Stored \cap Wanted(c)) \ c.got, NEW n \in c.got
        PROVE  m.timestamp <= n.timestamp
    <3>1. m \in Rows
      BY <2>2 DEF Stored
    <3>2. PICK i \in DOMAIN cache : n = cache[i]
      BY <1>1, <1>3 DEF ToSet
    <3> QED
      BY <3>1, <3>2 DEF IInv, InOrder
  <2> QED
    BY <2>1, <2>2, <2>3 DEF Ahead
<1>6. call' = [call EXCEPT ![p] = c] /\ UNCHANGED <<clock, cache, index, chat, sent, lost>>
  BY DEF GetFromCache, c
<1> QED
  BY <1>1, <1>4, <1>5, <1>6, CallStep DEF GoodCall

\* A page of the database: it leaves out only messages that are not newer than
\* its own, and none if it is empty.
LEMMA PageLeavesOutOlder ==
    ASSUME NEW u, NEW f, NEW latest, NEW page \in Pages(u, f, latest),
           NEW m \in Rows, Parties(m) = {u, f}, m.timestamp < latest, m \notin page
    PROVE  page # {} /\ \A n \in page : n.timestamp >= m.timestamp
<1> DEFINE rows == {x \in Rows : Parties(x) = {u, f} /\ x.timestamp < latest}
<1>1. m \in rows \ page
  OBVIOUS
<1>2. Cardinality(page) = PageSize
  BY <1>1 DEF Pages
<1>3. page # {}
  BY <1>2, FS_EmptySet, ChatAssumption
<1> QED
  BY <1>1, <1>3 DEF Pages

LEMMA PagesAreRows ==
    ASSUME NEW u, NEW f, NEW latest, NEW page \in Pages(u, f, latest)
    PROVE  \A m \in page : m \in Rows /\ Parties(m) = {u, f} /\ m.timestamp < latest
BY DEF Pages

\* A call that received more.
LEMMA Received ==
    ASSUME NEW c \in Call, NEW S
    PROVE  /\ [c EXCEPT !.got = @ \cup S] =
                [half |-> c.half, user_id |-> c.user_id,
                 latest_timestamp |-> c.latest_timestamp,
                 known |-> c.known, got |-> c.got \cup S]
           /\ [c EXCEPT !.half = FALSE, !.got = @ \cup S] =
                [half |-> FALSE, user_id |-> c.user_id,
                 latest_timestamp |-> c.latest_timestamp,
                 known |-> c.known, got |-> c.got \cup S]
<1>1. \A b \in Call : \A T :
        [b EXCEPT !.got = T] =
            [half |-> b.half, user_id |-> b.user_id,
             latest_timestamp |-> b.latest_timestamp, known |-> b.known, got |-> T]
  BY DEF Call
<1> DEFINE b == [c EXCEPT !.half = FALSE]
           T == c.got \cup S
<1>2. /\ b \in Call /\ b.half = FALSE /\ b.user_id = c.user_id
      /\ b.latest_timestamp = c.latest_timestamp /\ b.known = c.known
  BY DEF Call
<1>3. [c EXCEPT !.half = FALSE, !.got = T] = [b EXCEPT !.got = T]
  BY DEF Call
<1> HIDE DEF b, T
<1>4. [c EXCEPT !.half = FALSE, !.got = T] =
        [half |-> FALSE, user_id |-> c.user_id,
         latest_timestamp |-> c.latest_timestamp, known |-> c.known, got |-> T]
  BY <1>1, <1>2, <1>3
<1> QED
  BY <1>1, <1>4 DEF T

\* The pages continue what the cache gave, for each friend without a gap.
LEMMA GetFromDatabaseInv ==
    ASSUME IInv, NEW p \in Readers, GetFromDatabase(p)
    PROVE  IInv'
<1> DEFINE c == call[p]
<1>1. PICK page \in [Users -> SUBSET Rows] :
        /\ \A f \in Users : page[f] \in Pages(c.user_id, f, c.latest_timestamp)
        /\ call' = [call EXCEPT ![p].half = FALSE,
                                ![p].got = @ \cup UNION {page[f] : f \in Users}]
  BY DEF GetFromDatabase
<1>2. c \in Call /\ c.half /\ Ahead(c)
  BY CallByCall DEF GetFromDatabase, IInv, TypeOK, GoodCall
<1> DEFINE found == UNION {page[f] : f \in Users}
           d == [half |-> FALSE, user_id |-> c.user_id,
                 latest_timestamp |-> c.latest_timestamp,
                 known |-> c.known, got |-> c.got \cup found]
<1>3. call' = [call EXCEPT ![p] = d]
  <2> HIDE DEF found
  <2>1. call \in [Readers -> Call \cup {IDLE}]
    BY DEF IInv, TypeOK
  <2>2. call' = [call EXCEPT ![p] = [call[p] EXCEPT !.half = FALSE, !.got = @ \cup found]]
    BY ONLY <1>1, <2>1 DEF found
  <2>3. [c EXCEPT !.half = FALSE, !.got = @ \cup found] = d
    BY ONLY <1>2, Received
  <2> QED
    BY ONLY <2>2, <2>3
<1>4. found \subseteq Rows
  OBVIOUS
<1>5. d \in Call
  BY <1>2, <1>4 DEF IInv, TypeOK, Call
<1>6. /\ d.half = FALSE /\ d.user_id = c.user_id /\ d.known = c.known
      /\ d.latest_timestamp = c.latest_timestamp /\ d.got = c.got \cup found
  OBVIOUS
<1> HIDE DEF d
<1>7. Wanted(d) = Wanted(c)
  BY <1>6 DEF Wanted
<1>8. Ahead(d)
  BY <1>2, <1>6, <1>7 DEF Ahead
<1>9. Gapless(d)
  <2> SUFFICES ASSUME NEW f \in Users, NEW m \in Stored,
                      Parties(m) = {c.user_id, f},
                      m.id <= c.known, m.timestamp < c.latest_timestamp,
                      \/ Conversation(c.user_id, f, d.got) = {}
                      \/ \E n \in Conversation(c.user_id, f, d.got) : n.timestamp < m.timestamp,
                      m \notin d.got
               PROVE  FALSE
    BY <1>6 DEF Gapless, Conversation
  <2>1. m \in (Stored \cap Wanted(c)) \ c.got
    BY <1>6, Messages DEF IInv, Wanted
  <2>2. m \in Rows /\ m \notin page[f]
    BY <1>2, <1>6, <2>1, LackingIsInTable
  <2>3. page[f] # {} /\ \A n \in page[f] : n.timestamp >= m.timestamp
    BY <1>1, <2>2, PageLeavesOutOlder
  <2>4. page[f] \subseteq Conversation(c.user_id, f, d.got)
    BY <1>1, <1>6, PagesAreRows DEF Conversation
  <2>5. PICK n \in Conversation(c.user_id, f, d.got) : n.timestamp < m.timestamp
    BY <2>3, <2>4
  <2>6. n \in ChatMessage /\ m \in ChatMessage
    BY <1>4, <1>2, <1>6, Messages DEF IInv, Call, Conversation, Stored
  <2>7. n \notin c.got
    BY <1>2, <2>1, <2>5, <2>6, Messages DEF Ahead, IInv
  <2>8. PICK g \in Users : n \in page[g]
    BY <1>6, <2>7 DEF Conversation
  <2>9. Parties(n) = {c.user_id, g} /\ Parties(n) = {c.user_id, f}
    BY <1>1, <2>8, PagesAreRows DEF Conversation
  <2>10. g = f
    BY <2>9
  <2> QED
    BY <2>3, <2>5, <2>6, <2>8, <2>10, Messages DEF IInv
<1> QED
  BY <1>3, <1>5, <1>6, <1>8, <1>9, CallStep DEF GetFromDatabase, GoodCall

\* A further page continues where the oldest message stood.
LEMMA Get20ChatMessagesInv ==
    ASSUME IInv, NEW p \in Readers, NEW f \in Users, Get20ChatMessages(p, f)
    PROVE  IInv'
<1> DEFINE c == call[p]
<1>1. PICK oldest \in Conversation(c.user_id, f, c.got) :
        /\ \A m \in Conversation(c.user_id, f, c.got) : oldest.timestamp <= m.timestamp
        /\ \E page \in Pages(c.user_id, f, oldest.timestamp) :
               call' = [call EXCEPT ![p].got = @ \cup page]
  BY DEF Get20ChatMessages
<1>2. PICK page \in Pages(c.user_id, f, oldest.timestamp) :
        call' = [call EXCEPT ![p].got = @ \cup page]
  BY <1>1
<1>3. c \in Call /\ ~c.half /\ Ahead(c) /\ Gapless(c)
  BY CallByCall DEF Get20ChatMessages, IInv, TypeOK, GoodCall
<1> DEFINE d == [half |-> FALSE, user_id |-> c.user_id,
                 latest_timestamp |-> c.latest_timestamp,
                 known |-> c.known, got |-> c.got \cup page]
<1>4. call' = [call EXCEPT ![p] = d]
  <2>1. call \in [Readers -> Call \cup {IDLE}]
    BY DEF IInv, TypeOK
  <2>2. call' = [call EXCEPT ![p] = [call[p] EXCEPT !.got = @ \cup page]]
    BY ONLY <1>2, <2>1
  <2>3. [c EXCEPT !.got = @ \cup page] = d
    <3>1. c.half = FALSE
      BY <1>3 DEF Call
    <3> QED
      BY ONLY <1>3, <3>1, Received
  <2> QED
    BY ONLY <2>2, <2>3
<1>5. page \subseteq Rows
  BY <1>2, PagesAreRows
<1>6. d \in Call
  BY <1>3, <1>5 DEF IInv, TypeOK, Call
<1>7. /\ d.half = FALSE /\ d.user_id = c.user_id /\ d.known = c.known
      /\ d.latest_timestamp = c.latest_timestamp /\ d.got = c.got \cup page
  OBVIOUS
<1> HIDE DEF d
<1>8. Ahead(d)
  BY <1>3, <1>7 DEF Ahead, Wanted
<1>9. Gapless(d)
  <2> SUFFICES ASSUME NEW g \in Users, NEW m \in Stored,
                      Parties(m) = {c.user_id, g},
                      m.id <= c.known, m.timestamp < c.latest_timestamp,
                      \/ Conversation(c.user_id, g, d.got) = {}
                      \/ \E n \in Conversation(c.user_id, g, d.got) : n.timestamp < m.timestamp,
                      m \notin d.got,
                      ~ \E n \in Conversation(c.user_id, g, d.got) : n.timestamp = m.timestamp
               PROVE  FALSE
    BY <1>7 DEF Gapless, Conversation
  <2>1. m \in (Stored \cap Wanted(c)) \ c.got /\ m \notin page
    BY <1>7, Messages DEF IInv, Wanted
  <2>2. m \in Rows
    BY <1>3, <2>1, LackingIsInTable
  <2>3. /\ Conversation(c.user_id, g, c.got) # {}
        /\ ~ \E n \in Conversation(c.user_id, g, c.got) :
               n.timestamp < m.timestamp \/ n.timestamp = m.timestamp
    <3>1. m \in Conversation(c.user_id, g, Stored) /\ m \notin Conversation(c.user_id, g, c.got)
      BY <2>1 DEF Conversation
    <3>2. Conversation(c.user_id, g, c.got) \subseteq Conversation(c.user_id, g, d.got)
      BY <1>7 DEF Conversation
    <3> QED
      BY <1>3, <3>1, <3>2 DEF Gapless
  <2>4. \A n \in Conversation(c.user_id, g, d.got) : n \in ChatMessage
    BY <1>6, <1>3 DEF Call, Conversation
  <2>5. PICK n \in Conversation(c.user_id, g, d.got) : n.timestamp < m.timestamp
    <3>1. Conversation(c.user_id, g, c.got) \subseteq Conversation(c.user_id, g, d.got)
      BY <1>7 DEF Conversation
    <3> QED
      BY <2>3, <3>1
  <2>6. n \in page /\ Parties(n) = {c.user_id, g} /\ Parties(n) = {c.user_id, f}
    <3>1. n \in page /\ Parties(n) = {c.user_id, g}
      BY <1>7, <2>3, <2>5 DEF Conversation
    <3> QED
      BY <3>1, PagesAreRows
  <2>7. g = f
    BY <2>6
  <2>8. m.timestamp < oldest.timestamp
    BY <1>1, <2>1, <2>3, <2>4, <2>7, <1>7, Messages DEF IInv, Conversation
  <2>9. n.timestamp >= m.timestamp
    BY <2>1, <2>2, <2>6, <2>7, <2>8, PageLeavesOutOlder
  <2> QED
    BY <2>1, <2>4, <2>5, <2>9, Messages DEF IInv
<1> QED
  BY <1>4, <1>6, <1>7, <1>8, <1>9, CallStep DEF Get20ChatMessages, GoodCall

LEMMA FinishInv ==
    ASSUME IInv, NEW p \in Readers, Finish(p)
    PROVE  IInv'
BY CallStep DEF Finish

LEMMA NextInv == IInv /\ [Next]_vars => IInv'
<1> SUFFICES ASSUME IInv, [Next]_vars PROVE IInv'
  OBVIOUS
<1>1. CASE Tick
  BY <1>1, TickInv
<1>2. CASE \E sender, receiver \in Users : NewChatMessage(sender, receiver)
  BY <1>2, NewChatMessageInv
<1>3. CASE Write
  BY <1>3, WriteDatabaseInv DEF Write
<1>4. CASE Restart
  BY <1>4, RestartInv
<1>5. ASSUME NEW p \in Readers, NEW u \in Users, NEW latest \in Latest,
             GetFromCache(p, u, latest)
      PROVE  IInv'
  BY <1>5, GetFromCacheInv
<1>6. ASSUME NEW p \in Readers, GetFromDatabase(p) PROVE IInv'
  BY <1>6, GetFromDatabaseInv
<1>7. ASSUME NEW p \in Readers, NEW f \in Users, Get20ChatMessages(p, f) PROVE IInv'
  BY <1>7, Get20ChatMessagesInv
<1>8. ASSUME NEW p \in Readers, Finish(p) PROVE IInv'
  BY <1>8, FinishInv
<1>9. CASE UNCHANGED vars
  <2>1. Stored' = Stored /\ Rows' = Rows
    BY <1>9 DEF vars, Stored, Rows
  <2>2. TypeOK' /\ IndexMatchesCache'
    BY <1>9, <2>1 DEF vars, IInv, TypeOK, IndexMatchesCache
  <2>3. InOrder' /\ NoneForgotten'
    BY <1>9, <2>1 DEF vars, IInv, InOrder, NoneForgotten
  <2>4. CallsAreAhead' /\ HistoryHasNoGaps'
    BY <1>9, <2>1 DEF vars, IInv, CallsAreAhead, HistoryHasNoGaps
  <2> QED
    BY <2>2, <2>3, <2>4 DEF IInv
<1> QED
  BY <1>1, <1>2, <1>3, <1>4, <1>5, <1>6, <1>7, <1>8, <1>9 DEF Next

--------------------------------------------------------------------------------
\* What every state satisfies, from which the theorems below follow.
THEOREM Inductive == Spec => []IInv
<1>1. Init => IInv
  BY InitInv
<1>2. IInv /\ [Next]_vars => IInv'
  BY NextInv
<1> QED
  BY <1>1, <1>2, PTL DEF Spec

\* The variables keep their types.
THEOREM TypeCorrect == Spec => []TypeOK
<1>1. IInv => TypeOK
  BY DEF IInv
<1> QED
  BY <1>1, Inductive, PTL

\* The index always finds exactly a user's cached messages: write_database
\* empties it with the cache.
THEOREM IndexIsRight == Spec => []IndexMatchesCache
<1>1. IInv => IndexMatchesCache
  BY DEF IInv
<1> QED
  BY <1>1, Inductive, PTL

\* get_chat_message reads the cache first and the table second, so what is
\* moved between its halves is not missed; a client that scrolls back with
\* get_20_chat_messages has every message of the stretch it holds.
THEOREM NoGaps == Spec => []HistoryHasNoGaps
<1>1. IInv => HistoryHasNoGaps
  BY DEF IInv
<1> QED
  BY <1>1, Inductive, PTL

\* In ordered places, a message has one.
LEMMA OrderedOnce == TypeOK /\ InOrder /\ NoneForgotten => KeptExactlyOnce
<1> SUFFICES ASSUME TypeOK, InOrder, NoneForgotten, NEW k \in 1..sent
             PROVE  LET found == {m \in Stored : m.id = k}
                    IN  IF k \in lost THEN found = {}
                        ELSE \E m \in found : found = {m} /\ Copies(m) = 1
  BY DEF KeptExactlyOnce
<1> DEFINE found == {m \in Stored : m.id = k}
<1>1. CASE k \in lost
  BY <1>1 DEF InOrder
<1>2. ASSUME k \notin lost
      PROVE  \E m \in found : found = {m} /\ Copies(m) = 1
  <2>1. PICK m \in Stored : m.id = k
    BY <1>2 DEF NoneForgotten
  <2> DEFINE places(x) == {i \in DOMAIN cache : cache[i] = x}
  <2>2. \A i, j \in DOMAIN cache : cache[i].id = cache[j].id => i = j
    <3> SUFFICES ASSUME NEW i \in DOMAIN cache, NEW j \in DOMAIN cache, i # j
                 PROVE  cache[i].id # cache[j].id
      OBVIOUS
    <3>1. i \in Nat /\ j \in Nat /\ cache[i].id \in Nat /\ cache[j].id \in Nat
      BY Messages
    <3> QED
      BY <3>1 DEF InOrder
  <2>3. \A x \in Rows, i \in DOMAIN cache : x.id # cache[i].id
    <3> SUFFICES ASSUME NEW x \in Rows, NEW i \in DOMAIN cache
                 PROVE  x.id # cache[i].id
      OBVIOUS
    <3>1. x.id \in Nat /\ cache[i].id \in Nat
      BY Messages DEF Stored
    <3> QED
      BY <3>1 DEF InOrder
  <2>4. \A x \in Stored : x.id = k => x = m
    BY <2>1, <2>2, <2>3 DEF InOrder, Stored, ToSet
  <2>5. found = {m}
    BY <2>1, <2>4
  <2>6. Copies(m) = 1
    <3>1. CASE m \in Rows
      <4>1. Cardinality(places(m)) = 0
        <5>1. places(m) = {}
          BY <2>3, <3>1
        <5> QED
          BY ONLY <5>1, FS_EmptySet
      <4>2. chat[m] = 1
        BY <3>1 DEF InOrder
      <4> QED
        BY ONLY <3>1, <4>1, <4>2 DEF Copies
    <3>2. CASE m \notin Rows
      <4>1. PICK i \in DOMAIN cache : cache[i] = m
        BY <2>1, <3>2 DEF Stored, ToSet
      <4>2. Cardinality(places(m)) = 1
        <5>1. places(m) = {i}
          BY <2>2, <4>1
        <5> QED
          BY ONLY <5>1, FS_Singleton
      <4> QED
        BY ONLY <3>2, <4>2 DEF Copies
    <3> QED
      BY <3>1, <3>2
  <2> QED
    BY <2>5, <2>6
<1> QED
  BY <1>1, <1>2

\* An accepted message is in one place, once, until it is lost: the writer
\* thread neither forgets a cached message nor inserts one twice.
THEOREM KeptOnce == Spec => []KeptExactlyOnce
<1>1. IInv => KeptExactlyOnce
  BY OrderedOnce DEF IInv
<1> QED
  BY <1>1, Inductive, PTL

================================================================================
