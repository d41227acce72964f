# Verification of unopp_server

unopp_server is the server of an online board-game application: players meet in
rooms, play UNO, Splendor or Gomoku there, are friends and write private messages.
This directory holds TLA+ models of its own code (`src/src/`), the TLC
configurations that check them on small instances, and TLAPS proofs of the main
theorems for all instances.

## 1. The system

### Threads

| thread | code | what it does |
|---|---|---|
| WebSocket I/O | `WsServer::on_open/on_close/on_message` | pushes every event on the queue `actions` |
| processor | `WsServer::process_message` | takes one event at a time and runs its handler to the end |
| sender | `WsServer::send_message` | empties the queue `responses` every 5 ms |
| sweeper | `RoomManager::check_empty_rooms` | every 5 minutes erases the rooms nobody is online in |
| HTTP threads | `HttpServer` (httplib's pool) | accounts, friends, chat history |
| chat writer | `ChatHistory::write_database` | every 10 minutes moves the message cache to the table `chat` |
| unread writer | `Authorizer::write_cache_to_database` | every 10 minutes adds cached unread counts to `relation` |
| Gomoku threads | lambda in `GomokuRoom::process_message` | one detached thread per move: looks for a winner, lets the algorithm move |

### Components

| component | state | operations | hard behaviour |
|---|---|---|---|
| RoomManager, Room | `rooms`, the static `user_2_room_id`, per room `connections`, `is_game_on`, `authorized_user_id` | CREATE_ROOM, JOIN_ROOM, GAME_PREPARE, close, sweep | sweeper against handlers; reconnection during a game; several connections of a user; abandoned games |
| WsServer | `connections`, `conn_id_2_hdl`, `user_id_2_conn_id`, `actions`, `responses` | AUTHORIZE, UNSUBSCRIBE, WHISPER_MESSAGE, dispatch | three threads on maps with few locks; late responses |
| ChatHistory | `cache`, `index`, table `chat` | new_chat_message, write_database, get_chat_message, get_20_chat_messages | a read in two critical sections; write-behind cache; crashes; paging by second |
| Authorizer | tables `user`, `friend_request`, `relation`, unread `cache` | accounts and sessions, friend requests, unread counters | operations in two critical sections; a writer thread that shares the database connection without its mutex |
| Splendor, SplendorRoom | bank, cards, players, allies | take 2 or 3, reserve, buy, return | payment with gold, several limits, one turn |
| Uno, UnoRoom | deck, hands, direction, pending suspicion | play, draw, skip, say uno, suspect | whose turn it is, penalties, an exhausted deck |
| Gomoku, GomokuRoom | board, turn, status | drop, update | the detached thread against the processor |
| HttpServer | none of its own | one call of the classes above per handler | |

### How they interact

The processor calls `RoomManager::process_message`, which finds the room (by the
message for JOIN_ROOM, by the registry `user_2_room_id` otherwise) and calls the
room's handler under `rooms_mutex`; a game room passes what is not a move to
`Room::process_message`, and `Room` calls back `on_everyone_prepared`. Rooms answer
through `send_msg`, that is `WsServer::push_message`. Private messages go from the
processor to `ChatHistory` and `Authorizer::add_one_unread`. The HTTP threads share
`ChatHistory` and `Authorizer` with the processor; they share nothing with the rooms
but the user table, whose names connections and seats cache.

### What makes each component correct

- **Rooms.** The registry says of a user what the seat maps say; a seat is online
  exactly while its connection is open; a running game keeps the players it began
  with, and a head count its rules accept; a room with somebody online is not
  closed, and a deserted one is closed in the end.
- **WsServer.** A response reaches a connection of the user it was meant for or nobody;
  the three maps of connections agree, whatever the sender inserts; a closed connection is
  unsubscribed in the end.
- **Accounts.** A name belongs to one account; a session opens no account but one whose
  password was given for it; a request renames no account it has no session for.
- **Chat history.** A message is stored exactly once until an INSERT fails or the
  process dies; what a client has scrolled through has no gaps; the index stays
  inside the cache; the cache is written in the end.
- **Friends, unread counts.** Friendship is mutual; the count a friend list
  reports changes only by one message, by reading, by an UPDATE that fails, or by the
  process ending; no thread waits for a mutex for ever.
- **Splendor.** Tokens and cards are neither lost nor doubled, nobody pays more than
  he has, the hand limit is enforced, exactly one player is in turn, the reputation
  is earned, and a finished game stays finished.
- **Uno.** No move loses or doubles a card, a suspicion hits the one who played,
  and drawing one card never closes a later turn.
- **Gomoku.** Sides alternate, the robot's search leaves no trace on the board, a result
  belongs to the board, a five in a row ends the game (all this as long as nobody disturbs
  a thread), and the robot's flag never locks the board.

The hazards behind these, each at the line where it bites, are listed in
`PROJECT.json`, with the properties that would catch it going wrong or the reason why
none does.

## 2. Modules

| module | models | composes |
|---|---|---|
| `RoomManager` | `RoomManager.hpp`, `Room.hpp`, the connection handling of `WsServer.hpp`, the head counts and starts of the three game rooms, `set_user_name` | processor, sweeper, HTTP thread |
| `Registry` | what the rooms promise: an abstract specification that `RoomManager` implements | |
| `RoomManagerProofs` | the theorems about `RoomManager`, among them that it implements `Registry` | |
| `WsServer`, `MCWsServer` | `WsServer.hpp`: queues, maps, the sender; late responses of rooms and their threads | I/O thread, processor, sender, Gomoku threads |
| `Accounts`, `MCAccounts` | registration, log-in, log-out, renaming: `Authorizer.hpp`, and their handlers in `HttpServer.hpp` | HTTP threads |
| `AccountsProofs` | the theorems about `Accounts` | |
| `ChatHistory` | `ChatHistory.hpp`, the calls of `HttpServer.hpp` and `WsServer.hpp` to it | processor, HTTP threads, writer, restarts |
| `WsServerProofs`, `ChatHistoryProofs`, `SplendorProofs`, `UnoProofs`, `GomokuProofs`, `FriendsProofs` | the theorems about the module each is named after | |
| `Splendor`, `MCSplendor` | `Splendor.hpp` and the handlers of `SplendorRoom.hpp` | |
| `Uno`, `MCUno` | `Uno.hpp` and the handlers of `UnoRoom.hpp` | |
| `Gomoku`, `MCGomoku` | `Gomoku.hpp`, `GomokuRoom.hpp`, seats of `Room.hpp` | processor, detached threads |
| `Friends` | the part of `Authorizer.hpp` that threads contend for, and its callers | HTTP threads, processor, unread writer, restarts |

The MC modules only build the decks, cards, orders and symmetries of a small instance; the
other modules are run directly. Each definition that stands for code is listed with its
lines in the `map` of `PROJECT.json`. Definitions whose name has a suffix
(`EraseRoom_KeepsRegistry` beside `EraseRoom`, say) and whose comment begins with "Mutant" are
plausible mistakes: putting one in place of the definition it is named after makes
the run named for it fail, so each property does depend on the code.

### How to read them

- **A handler is one action** when it holds its mutex, or runs on the one processor
  thread that alone touches its data, from beginning to end. Where the code gives a
  mutex back in between, looks at data without it, or goes on in another thread, the
  handler is as many actions as there are sections.
- **A message that a handler refuses changes nothing** and is no step. What is only
  sent to clients is left out.
- **Undefined behaviour ends the behaviour.** Where the code would go on with an
  iterator to an erased room or read an empty queue, `alive` becomes FALSE (in
  Splendor `aborted`, for the assertion that fails) and the specification says
  nothing of what follows.
- **Data races on a container** (a registry lookup before the mutex is taken, the
  sender's lookups) are not modelled below the single lookup: a step reads and writes in
  one moment. The hazards that this leaves uncovered are marked in `PROJECT.json`.

### Module by module

**RoomManager.** Variables carry the names of the members: `rooms`, `room_type`,
`is_game_on`, `authorized_user_id`, `connections` (a seat map for each room),
`user_2_room_id`, and of WsServer `clients` (what AUTHORIZE cached for a connection)
and `open`. `CreateRoom`, `JoinRoom`, `RejoinRoom` (JOIN_ROOM while a game is on),
`GamePrepare`, `GamePrepareAndStart` (the last one to prepare calls
`on_everyone_prepared`), `GameOver` and `Close` with its branches are the handlers.
The sweeper is `SweepCheck` (it looks without the mutex and keeps an `iterator`),
`SweepErase`, and `SweepDangling` if a handler has erased that room meanwhile.
`SetUserName` is the HTTP call /set-name; `Spec` is the system without it, and
`SpecWithRenames` the one with it. `GameOver` may happen at any moment of a game: when
it does is the matter of the game modules.

`ImplementsRegistry` maps the rooms to `Registry`: the kind of a room is `room_type`, the
home of a user is what `user_2_room_id` says, and a room is playing while `is_game_on`.
Seats, connections, invitations, passwords and the sweeper's iterator are not seen there: opening a
connection, losing one in the middle of a game and coming back to it are steps in which
the promise says that nothing may change, and a room may only go with all who are in it.

**WsServer.** `actions`, `conn_id_2_hdl`, `user_id_2_conn_id`, `connections` and `responses` are
the members. The I/O thread pushes (`OnOpen`, `OnClose`, `OnMessage`) and, in a step of its own,
notifies; the processor waits, wakes, also for no reason, and `Process`es one action to the end;
`SendMessage` sends one response and, as `operator[]` does, enters an empty handle for an id
that has none. A broadcast of a room may go to any connection id that ever was handed out, and
`ThreadPush` is one that comes from the thread of a Gomoku game, at any time. A response
remembers the user it is meant for; `holder` is a history variable that knows whose each id was.
UNSUBSCRIBE erases from `user_id_2_conn_id`, a map from users to connections, with a connection
id as the key: `MapsAgree` says precisely what that costs. A dead id may stay listed for its
user for ever, which is harmless since ids are not handed out twice, and a user is missed by
whispers only after a connection with the number of the user's id was closed.

**Accounts.** `user` is the table. A log-in is `LogInByName` or `LogInById`, which check the
password, and `StoreSession`, which draws a number; /set-name is `Authorize` and `SetUserName`;
between the two sections of either, other workers run and a statement may throw (`GiveUp`). A
task carries the locals of the handler, also those the code does not use later, because a
statement that used them (`WHERE user_name=?` in place of `WHERE id=?`) is the mistake that the
properties are about. `issued` and `ended` are history variables: which accounts a session was
given for, and logged out of. `generate_sessdata` may return any number, also one that is in
use: about sixteen bits of it are random, and neither the table nor `log_in` compares it with
others. Two accounts may so have the same session; a request with it is then for either of them,
and the properties are stated for that.

**ChatHistory.** `cache`, `index` and the table `chat`. `GetFromCache` and `GetFromDatabase` are
the two locked sections of get_chat_message; `Pages` includes get_20_chat_messages with its
strict comparison of seconds. `WriteDatabase` moves the cache with any subset of the INSERTs
failing, `Restart` loses the cache. The table is the number of rows that there are of each
message, for the table has no key that would forbid a second one. `sent` and `lost` are history
variables, and `call` what a client has asked for, with any timestamp, and received. The clock
is monotone.

**Splendor.** One action per move: `TakeMines`, `ReturnMine`, `ReserveCoupon`,
`BuyCoupon`, `BuyReservedCoupon`. A purchase includes the payment loop with discounts
and gold, the award of allies, the refill of the slot and the look for a winner.
`Spec` chooses only face-up cards; `SpecWithEmptySlots` also picks slots that an
exhausted level has left empty, which the code accepts, `EMPTY` being the card of type
GOLD that `fill_coupon` puts there.

**Uno.** `Play`, `DrawOne`, `SkipAfterDrawingOne`, `SayUno`, `Suspect`, `Dissuspect`. The
shuffled queue is a set, of which any card but the one at its back may be drawn next, with
`last_card`, the top of the pile, which is kept at its back. The numbers of cards to draw are
constants. `play` does not ask whether a player holds the card that the client names: it goes to
the back of the queue in any case, and is taken from the hand if it is there. So clients may
play what is in hand or one of `Inventions`, a constant that bounds what they come up with, each
of which is an additional card; `invented` is a history variable, the cards that have appeared
in this way. Nor does anything ask for the colour that is specified: `Specified` has BLACK as
well. `say_uno` by somebody who is no player of this game falls through to the player in turn;
that is a step in which that player says it.

**Gomoku.** The message loop and the detached threads share game and room without a lock, and
the model has an action for each write of theirs and for the test that comes before it. `Drop`
is the handler up to the end of `drop`'s tests, `WritePiece` puts the piece down, `PassTurn`
gives the turn on, `Detach` starts the thread. A thread asks for the head count (`CheckSize`),
looks for a winner line by line (`BeginUpdate`, `SeeFive`, `SetStatus`, `MissFive`, `EndScan`,
`AskTurn`), lets the robot drop (`BeginAIDrop` to `EndAIDrop`), again if it has to call `update`
twice, and ends the game (`ReadStatus`, `EndGame`). The robot's search puts pieces on the board
that everybody sees: `Try` and `TryReply`, taken back by `Undo` and `UndoReply`. What is left
out is the scores, so any cell that was tried may be the best (`Score`), and replies are tried
in any order and number. A look at one line, or at the neighbours of a cell, and the tests of
`drop` are one moment each, and so is the start of a game. The scan remembers in `todo` only
those lines that were five when it began, which it must come across; any other line may become
one while it scans and be seen.

In this program the board is only right as long as nobody interferes with a thread that has work
to do: the history variable `disturbances` counts how often somebody does, that is how often a
player drops against the robot while a thread is still busy (the robot has not answered, or its
second look is not over) or a game starts while a thread of the last one is alive. It is zero
again when a game starts with no thread alive. `Undisturbed` is a condition of
`PiecesAlternate`, `WinnerHasFive` and `DecidedIsAnnounced`, and TLC shows that none of them
holds without it: `update` finds a five made of the pieces of another thread's search and
announces it; a search takes back a piece over one that was dropped meanwhile, which is lost; a
robot's drop is refused, or two are made; and a five nobody looks for again stays unnoticed. Two
players without the robot are no disturbance, however fast they drop. `ThinkingEnds` has no such
condition.

**Friends.** A transaction is its BEGIN and its COMMIT, with its statements taking effect at the
latter, for nobody else reads the tables in between. The SQLite connection is shared: BEGIN
fails while another transaction is open, and that is possible because the writer takes
`cache_mutex` but not `db_mutex`. An UPDATE of the writer may throw (`UpdateThrows`): that is
swallowed, the transaction commits without it and the cache is emptied, so that what was counted
for this pair is lost, which `UnreadNeverJumps` names. In a handler the failure of BEGIN becomes
an answer (`AcceptFails` between the halves of an acceptance, elsewhere no step), in the writer
and in clear_unread nothing catches it and the process ends (`Die`); `Stop` is any other end and
`Boot` the next start. Clients answer only requests that have been shown to somebody once
(`raised`), also if these are gone by now.

## 3. Runs

| run | question | bounds |
|---|---|---|
| `rooms` | Do registry, seats, connections and games agree under all handlers and the sweeper, and implement `Registry`? Is a deserted room erased? | 2 users, 3 connections, 2 room ids (0 is "no room" in the code and a legal id too), 2 kinds of game |
| `rooms_close_race` (violation) | Is a room closed only when deserted? | 1 user, 1 connection |
| `rooms_rename` (violation) | Does the roster of a running game stay, with renames? | 2 users, 2 connections, 3 names, 2 rooms of a game for one or two |
| `chat` | Is every message kept once, and a scroll through the history complete? | 2 users, 3 messages, 2 seconds after the first, 1 reader, any timestamp, pages of 1 |
| `splendor` | Are the accounts of the game right? | 2 players, 3 mines, 4 cards on 2 levels, 2 allies, hand limit 3, reserve limit 1 |
| `splendor_empty_slot` (violation) | Does the assertion in buy_reserved_coupon hold? | the same |
| `uno` | Are turn, suspicion and cards right? | 3 players, 5 cards, 1 dealt to each; a sixth that is played without being held; penalties of 1, 1 and 2 |
| `gomoku` | Do sides alternate, results belong to the board, and is a five in a row noticed? Does the robot's flag come down? | a board of 1 x 4, two in a row win, 2 threads, 2 seats, 2 disturbances |
| `gomoku_late_thread` (violation) | Does nobody join a running game? | a board of 2 x 3, two in a row win, 2 threads, 3 seats, 1 disturbance |
| `friends` | Are friendships mutual, unread counts exact but for failed UPDATEs, lists answered? | 2 users, 2 HTTP workers, 2 unread messages for a pair |
| `server` | Do the maps agree, and does every response and every close arrive where it should? | 3 connections, two of them of one user, 2 queued actions, 2 responses |
| `accounts` | Do names, sessions and requests stay with their accounts? | 3 accounts, 3 names, 2 passwords, 2 session numbers, 2 HTTP workers |

The larger ones are `gomoku` with 6.5 million distinct states, `uno` with 2.0 million and
`accounts` with 1.1 million (each under two minutes on two cores), and `chat` with 600 000.

**Why these bounds are enough to be of use.** In `rooms` a user can have a second connection and
come back during a game, both users can sit in one room (which starts a game of either kind) or
in two, and a room id can be used again after its room was erased. In `chat` a second holds two
messages or more, a page holds fewer messages than there are, and the writer runs between the
halves of a call. In `splendor` decks run out, an ally is won or lost to the other player, gold
pays for tokens, and both the hand limit and the end of the game are reached. In `uno` every
function card and WILD_DRAW_4 exist, a second WILD_DRAW_4 comes out of nowhere, is put on the
first and can be drawn, hands become empty and penalties exhaust the deck. On the board of
`gomoku` a player wins with either colour, the robot wins, has tried out moves and replies, both
may have a row, a player drops into a search, and a late thread meets the next game; with two
threads two searches go on at a time, and with two disturbances a thread of one game meets two
later events. In `rooms_rename` the game has one player, so that the user who takes his place
has never been in the room. In `friends` both friends can ask, accept and reject at once, with
the writer between any two of their transactions. In `server` both user ids are connection ids
as well, so that the erasure by the wrong key strikes; a connection closes before its AUTHORIZE
is processed, a response waits while its receiver goes and another connection comes, and a
whisper goes to two connections. In `accounts` a name that was given up is taken by a
registration or a rename while a log-in or a rename with the old one is under way, one account
logs in twice at once, and three accounts share two session numbers.

What the bounds leave out: a Gomoku board with two dimensions in the passing run (a line of
every direction is in the proofs), and three threads at once; Uno with more players than three,
where a reversal leads further away; a queue with many cards; long rows of unread messages; and
long queues of actions and responses, with which nothing new happens.

**Symmetry** is used in two runs with safety properties only: the threads of `gomoku`, and the
names, passwords, session numbers and workers of `accounts`. None of them is told apart by
anything but its name.

**Deadlock** is not checked where the system may stop: room ids and connections are used
up, messages reach their bound, a game of Uno or Splendor offers no move (the code has no
way to pass), or undefined behaviour has ended the process. It is checked in the runs of
Gomoku, in `friends` and in `accounts`.

### Fairness

- *Sweeper* (`rooms`): it runs for ever, and every five minutes passes over all rooms, so a
  room that is deserted again and again when it looks is looked at in the end: strong
  fairness of `SweepCheck(r)`, and weak fairness of the erasure that follows. Without
  the strong one, users who come and go could keep the room from being looked at for ever.
- *Chat writer* (`chat`): it runs for ever, weak fairness of `Write`.
- *Server* (`server`): the I/O thread notifies after it has pushed, the processor and the sender
  go on, weak fairness; nobody has to close a connection. The queue of responses has no bound
  in the code; where the bound of the model would make the processor wait for the sender, strong
  fairness of `Process` says that it does not wait in fact.
- *Friends*: the writer goes on once it is awake, weak fairness. A friend list waits
  for `cache_mutex`, which the writer keeps only while it writes and then leaves alone for
  ten minutes: strong fairness of `ListEnd(w)`. Nothing is assumed of clients.

### Findings

Each is a run that TLC finds violated; the property states what a line of the
repository says.

1. `rooms_close_race`: the sweeper tests a room before it takes `rooms_mutex` and does not test
   again (`RoomManager.hpp:123`). Somebody who joins in between loses the room; the comment at
   line 113 says that a room is closed when all players have left.
2. `rooms_rename`: a returning player is recognised by user name (`Room.hpp:89`), which another
   user may have taken over since. In the trace a user plays Gomoku alone and is renamed, and
   somebody who has never been in the room takes the old name, joins, and gets the seat in the
   running game, which the comment at line 85 excludes.
3. `splendor_empty_slot`: an empty slot can be reserved (`Splendor.hpp:580`), and buying it
   fails the assertion at line 619.
4. `gomoku_late_thread`: a thread of the last game ends the next one (`GomokuRoom.hpp:49`), and
   a new user can join it, against the comment at `Room.hpp:85`.

Seen while modelling, with no statement in the repository to hold the code against: a full
Gomoku board never ends a game, for `TIED` is never assigned; who drops while the robot is still
at work can lose a piece to its search, lose to a five it only tries out, or leave a five
unnoticed; in Uno a client can play any card of the right colour or number without holding it; a
session number may be in use already; an UPDATE of the unread writer that fails loses what was
counted; the index of a mine that a client of Splendor sends is not compared with the size of
the array; a request that was removed by the first half of an acceptance is gone if the second
half fails; the unread writer's BEGIN in another thread's transaction ends the process; in
Splendor a player can be left without a legal move; UNSUBSCRIBE erases from `user_id_2_conn_id`
by connection id; the sender reads and writes `conn_id_2_hdl` without the processor's knowledge;
set_user_name takes names that new_user refuses for their length; a message of the current
second is left out of a history asked for within that second (`ChatHistory.hpp:102`), though the
comment at line 97 says that all cached records are returned.

## 4. Proofs

`RoomManagerProofs` proves, for every number of users, connections, names, rooms and
kinds of game:

| theorem | statement |
|---|---|
| `Inductive` | `Spec => []IInv` |
| `TypeCorrect` | `Spec => []TypeOK` |
| `RegistryConsistent` | `Spec => []RegistryMatchesRooms` |
| `OnlineIsOpen` | `Spec => []OnlineSeatsAreOpen` |
| `GamesAreStaffed` | `Spec => []GameHasItsPlayers` |
| `RosterIsFrozen` | `Spec => RosterFrozen`, an action property |

The only assumption is `RoomAssumption` in `RoomManager`: what is known of the constants,
among it that `NONE` is no record of a seat or a client and that `DANGLING` is no room id.

**The argument.** `RegistryMatchesRooms` is not inductive alone. When a connection closes,
`Close` looks for the seat of that connection in the room the registry names for its user: that
this is the right seat needs that online seats belong to open connections of the same user
(`OnlineSeatsAreOpen`), that an open connection has a client record (`OpenAreAuthorized`), and
that the seat's cached name is its user's (`NamesAreUsers`), because a player who comes back is
found by name. The last of these is why the theorems, and the other properties of `rooms`, are
about `Spec`: under `SpecWithRenames` it fails, nothing is claimed of them there, and
`rooms_rename` shows what follows. So `IInv` is the conjunction of `TypeOK`, `NamesAreUsers`,
`OpenAreAuthorized`, `OnlineSeatsAreOpen` and `RegistryMatchesRooms`. That each of the handlers
and each step of the sweeper preserves it is one lemma per action, and under it one step per
conjunct. For `GameHasItsPlayers` the invariant is extended by `NoGameWithoutRoom`, and
`RosterFrozen` follows step by step from `IInv`.

The second part of the module proves, from the same assumption and `KindAssumption` (`NONE` is
no kind of game), that the rooms keep what they promise:

| theorem | statement |
|---|---|
| `RoomsKeepPromise` | `Spec => ImplementsRegistry`, that is `Registry` with the mapping of section 2 |

**The argument.** `Registry` knows the players of a room only as the users whose home it
is, the code as the seats of the room, so the two have to be the same set
(`RosterIsSeated`), and of the same size, since the games start by the number of seats:
`RosterCount` shows that seats and users correspond one to one, which needs that nobody has two
seats. Beside the invariants above, `RInv` says that a room has a kind exactly while it
exists (`KindsKnown`), and that the sweeper never holds an iterator to a missing room which is not
marked as dangling (`IteratorIsRoom`), so that a room is not erased twice. Then each
handler is one step of `Registry` or a stutter: one lemma per handler.

`AccountsProofs` proves, for every number of accounts, names, passwords, session numbers and
workers:

| theorem | statement |
|---|---|
| `Inductive` | `Spec => []IInv` |
| `TypeCorrect` | `Spec => []TypeOK` |
| `NamesAreUnique` | `Spec => []OneAccountPerName` |
| `SessionsAreVerified` | `Spec => []SessionIsVerified` |
| `OwnersRename` | `Spec => RenamedByOwner`, an action property |

The assumption is `AccountsAssumption`: the bound is a natural number, `NULL` is no session.
Nothing is assumed of the numbers drawn.

**The argument.** A log-in and a rename have two sections, between which other workers run; what
must survive in between is what a worker remembers. The account it found stays in the table
(`TypeOK`), and the session it was authorized with was issued for that account
(`TasksAreVerified`), also if that session has been ended or replaced since. `IInv` is these
with `OneAccountPerName` and `SessionIsVerified`, which say for each account that its session
was given for it, whoever else has the same number.

`ChatHistoryProofs` proves, for every number of users, readers and messages, any page size and
any timestamp asked with:

| theorem | statement |
|---|---|
| `Inductive` | `Spec => []IInv` |
| `TypeCorrect` | `Spec => []TypeOK` |
| `IndexIsRight` | `Spec => []IndexMatchesCache` |
| `KeptOnce` | `Spec => []KeptExactlyOnce` |
| `NoGaps` | `Spec => []HistoryHasNoGaps` |

The assumption, `ChatAssumption`, is that the bounds are natural numbers and a page is not empty.

**The argument.** That a message is kept once follows from the order in which messages are
stored (`InOrder`): in the cache their numbers grow, the table has lower ones than the cache,
and each row once; so the writer, which moves the whole cache, cannot meet a row it has written
before. `NoneForgotten` is the other half: a number that was handed out is stored or lost. A
history without gaps needs what the call knows between its halves (`CallsAreAhead`): it has all
that was in the cache when it looked, so that what it lacks is in the table and older, wherever
the writer ran since.

`WsServerProofs` proves, for every number of users and connections and any length of the queues:

| theorem | statement |
|---|---|
| `Inductive` | `Spec => []IInv` |
| `TypeCorrect` | `Spec => []TypeOK` |
| `MapsAlwaysAgree` | `Spec => []MapsAgree` |
| `NothingIsMisdelivered` | `Spec => []NoMisdelivery` |

The assumption, `WsAssumption`, says that connections are finitely many and that user ids are
positive, as those of SQLite are.

**The argument.** The maps agree with the queue only because of its order: of a closed
connection the UNSUBSCRIBE is the last action (`QueueIsOrdered`), so that nothing authorizes it
again. A response that waits carries an id that was handed out, and to its user (`IdsAreHeld`),
and ids are never handed out twice. That `conn_id` does not pass the number of connections, a
part of `TypeOK`, needs `OneIdEach`: there are as many connections that have an id, or had one
and are gone.

`UnoProofs` proves, for any players from three to ten, any deck, deal and penalties, and any
cards that clients invent:

| theorem | statement |
|---|---|
| `Inductive` | `Spec => []IInv` |
| `TypeCorrect` | `Spec => []TypeOK` |
| `CardsAreConserved` | `Spec => []CardsConserved` |
| `RightSuspect` | `Spec => []SuspectIsThePlayer` |
| `DrawsAreOfTheTurn` | `Spec => []DrawIsOpenInTurn` |
| `OnlyTheDrawnCard` | `Spec => PlaysWhatWasDrawn`, an action property |

The assumption, `UnoAssumption`, says that nobody sits twice, that the deck is larger than what
is dealt, that a card of the deck has a colour and a content of the game, and that what clients
invent can be named by a message and is told apart from the cards of the deck. `CardsConserved`
is that hands and queue have the cards of the deck and those in `invented`, each in one place.

**The argument.** The four invariants are inductive together, none of them alone: who is
suspected is found by stepping back from the next player, which is right only while the turn is
where a WILD_DRAW_4 left it. The lemmas on which the rest depends are those about the circle of
players, that stepping on and back cancel out in either direction, and those about moving cards,
that what leaves one hand arrives in one place.

`GomokuProofs` proves, for a board and a room of any size, a winning row of two or more, and any
number of threads and disturbances:

| theorem | statement |
|---|---|
| `Inductive` | `Spec => []IInv` |
| `TypeCorrect` | `Spec => []TypeOK` |
| `SidesAlternate` | `Spec => []PiecesAlternate` |
| `ResultsAreTrue` | `Spec => []WinnerHasFive` |
| `NobodyIsLockedOut` | `Spec => []ThinkingEnds` |
| `FivesAreAnnounced` | `Spec => []DecidedIsAnnounced` |

The assumption is `GomokuAssumption`: sizes are positive, threads finitely many, the loop is
none of them.

**The argument.** `NobodyIsLockedOut` holds without condition. The other three are about
undisturbed games, and what has to be shown is that not being disturbed is enough. `IInv` says
then (`InOrder`) that in a game against the robot one process works at a time (`OneWorks`); what
the search of that one knows of the board, which pieces on it are its own and where the best
cell is (`Remembers`); that whoever tells a result or moves for the robot does it for the game
that is on (`InTime`); how many pieces black is ahead at every place in the code at which a
piece is on the board too early or only for a try (`Balance`); that a five nobody has noticed
has a thread that is yet to look, or that will come across this very line (`FiveIsYetSeen`), and
a known result one that is yet to end the game (`AnswerIsDue`). The difficult part is the second
call of `update`: a five that the robot makes there nobody would see, and `MovesFirst` says that
it cannot move there, since a robot that did not move in the first call had nowhere to go. For
two players, who may drop while threads scan, the search is not there, pieces only come, and the
same invariant is enough.

`FriendsProofs` proves, for every number of users, workers and unread messages:

| theorem | statement |
|---|---|
| `Inductive` | `Spec => []IInv` |
| `TypeCorrect` | `Spec => []TypeOK` |
| `FriendsAreMutual` | `Spec => []FriendshipIsMutual` |
| `UnreadIsExact` | `Spec => UnreadNeverJumps`, an action property |
| `ClearedWhenRead` | `Spec => ReadingClears`, an action property |

The assumption, `FriendsAssumption`, only tells the threads apart and makes the bound a number.

**The argument.** `ReadingClears` is about the last step of a reading, whose first half was
taken before others ran: `ClearedIsZero` says that nothing is counted for the pair in between,
since the one processor both counts and clears. The sum of the two halves of a count stays
within the bound (`CountsAreBounded`), whatever UPDATEs fail, which the type of the table needs
when the writer adds them up, and a task in the middle of an acceptance has two users
(`TasksAreTyped`), so that it inserts both rows of a friendship.

`SplendorProofs` proves, for two to four players, any mines, cards, slots and allies, and any
limits:

| theorem | statement |
|---|---|
| `Inductive` | `Spec => []IInv` |
| `TypeCorrect` | `Spec => []TypeOK` |
| `TurnsAreTaken` | `Spec => []OneTurn` |
| `NoTokenIsLost` | `Spec => []TokensConserved` |
| `NobodyHoards` | `Spec => []HandLimit` |
| `CardsAreKept` | `Spec => []CardInOnePlace` |
| `ScoresAreEarned` | `Spec => []NoOvertime` |

The assumption, `SplendorAssumption`, says that nobody sits twice, that sets are finite, that
each ally asks for some card (as the ten of the code do) and that it takes some reputation to
win. The theorems are about `Spec`: with `SpecWithEmptySlots` `TokensConserved` is false, for
the code then writes beyond the discounts into the tokens.

**The argument.** The heart of it is the payment: `check_affordabillity` takes tokens and
discounts from each cost and compares what is lacking with the gold, the payment takes the
discount first and then the tokens; `PaidIsThere` shows that both lack the same for each mine,
so that the gold is there. Hence no count gets below zero, and a purchase leaves no more tokens
than there were, so that passing the turn without counting is right (`PurchaseTokens`).
`check_ally` gives an ally's reputation to everybody who meets the condition; that this is one
player needs `AlliesAreAwarded`, that nobody meets the condition of an ally that is still to be
had (`PurchaseAwards`). That a card is in one place is proved for the parts a place can be in,
slots, deck, hands and bought cards, with one lemma for a card that leaves its slot (`FillInv`).
Sums over players, tokens and cards are folds that take some element first. The lemmas that any
element may be taken first (`SumRemove`), that equal summands make equal sums, and that sums of
disjoint sets add up are proved by induction over the subsets of a finite set, as a set of good
subsets that has to contain all of them, since the provers cannot use an induction theorem with
an operator as its parameter.

**Only model-checked:** the liveness properties `DesertedRoomIsClosed`, `CachedIsWritten`,
`EveryListReturns` and `ClosedIsForgotten`, since fairness and ENABLED are beyond this prover.
Every other property of a run that passes is stated by a theorem.

## 5. Not modelled, and why

- Icons and slogans: a file or a column that is overwritten and read, on which nothing else
  depends.
- What two threads do to one `unordered_map` at once (`WsServer.hpp:282`,
  `RoomManager.hpp:108`), and a Gomoku thread whose room has been erased (`GomokuRoom.hpp:43`):
  undefined behaviour in which the process may end at any point.
- Parsing and formatting of JSON, HTTP, cookies and the text of messages; the numbers by which
  the Gomoku search ranks its moves; `last_action` and `ally_actions` of Splendor.
- Indices of mines outside the array of Splendor: undefined behaviour as well.
- `Responsor` and `main`: a stored callback and the start of the threads.
- The libraries for JSON, WebSocket, HTTP and SQLite, taken to do what their users rely on. They
  are copies of other projects' code and make up all but some 3 800 of the repository's lines:
  of the server's own code most lines are mapped, of all lines only a few per cent can be.

## 6. Plan

Written so far, in this order, the most important behaviour first: `RoomManager` and its
proofs, `ChatHistory`, `Splendor`, `Uno`, `Gomoku`, `Friends`, `Registry` with the refinement and
its proof, `WsServer`, `Accounts` and its proofs, and the proofs about all the others. To come:

1. A room composed with its game: the room erased while a Gomoku thread runs, and a player who
   comes back in the middle of a game.
2. Abstract specifications, like `Registry`, of what the chat history and the friends' counts
   promise to a client, implemented by `ChatHistory` and `Friends`.
