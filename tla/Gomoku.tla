--------------------------------- MODULE Gomoku --------------------------------
(***************************************************************************)
(* A room of Gomoku: classes Gomoku and GomokuRoom, and of Room what        *)
(* changes the number of its seats.  A player's drop is handled by the      *)
(* message loop; what follows from it, the search for five in a row, the    *)
(* robot's answer and the end of the game, by a thread that the handler     *)
(* detaches.  They share game and room without a lock, so an action is what *)
(* a thread, or the drop of the loop, does up to its next write: a test and *)
(* what is written after it are two actions, and so are the piece that is   *)
(* put down and the turn that passes.                                       *)
(*                                                                         *)
(* The robot ranks its moves by trying them out on the board everybody      *)
(* sees: its pieces appear there and go again, those of the reply it        *)
(* expects as well.  The scores are left out, so any cell that was tried    *)
(* may become the best one, and replies are tried in any order and number.  *)
(*                                                                         *)
(* One moment each: a look at a line or at the neighbours of a cell, the    *)
(* tests of drop, and the handler that starts a game.                       *)
(***************************************************************************)
EXTENDS Integers, FiniteSets

CONSTANTS
    Height, Width,  \* board_height, board_width: 15
    Five,           \* pieces in a row that win: 5
    MaxSeats,       \* bound: connections of the room
    Threads,        \* bound: detached threads alive at a time
    MaxDisturbances,    \* bound: see Disturbs
    LOOP            \* the message loop

Procs == Threads \cup {LOOP}
Cells == (1..Height) \X (1..Width)
BLACK_PIECE == "b"
WHITE_PIECE == "w"
NONE        == "n"

ASSUME GomokuAssumption ==
    /\ {Height, Width, MaxSeats} \subseteq Nat \ {0}
    /\ MaxDisturbances \in Nat
    /\ Five \in Nat \ {0, 1}
    /\ IsFiniteSet(Threads) /\ LOOP \notin Threads

VARIABLES
    board,              \* Gomoku::board
    current_is_black,   \* Gomoku::current_is_black
    use_ai,             \* Gomoku::use_ai
    is_ai_thinking,     \* Gomoku::is_ai_thinking
    ai_drop_pos,        \* Gomoku::ai_drop_pos
    status,             \* Gomoku::status; TIED is never assigned in the code
    is_black,           \* user_id_to_is_black[i].second
    is_game_on,         \* Room::is_game_on
    size,               \* Room::connections.size()
    job,                \* where each thread and the loop are, and their locals
    disturbances        \* history variable: how often threads were disturbed, see Disturbs

game == <<board, current_is_black, use_ai, is_ai_thinking, ai_drop_pos, status>>
room == <<is_black, is_game_on, size>>
vars == <<game, room, job, disturbances>>

FREE == [at |-> "free"]

EmptyBoard == [c \in Cells |-> NONE]

Init ==
    /\ board = EmptyBoard
    /\ current_is_black = TRUE
    /\ use_ai = FALSE
    /\ is_ai_thinking = FALSE
    /\ ai_drop_pos = <<1, 1>>
    /\ status = "NOT_END"
    /\ is_black = [i \in {0, 1} |-> FALSE]
    /\ is_game_on = FALSE
    /\ size = 1
    /\ job = [p \in Procs |-> FREE]
    /\ disturbances = 0

Quiet == \A p \in Procs : job[p] = FREE
Undisturbed == disturbances = 0

Jump(p, to) == job' = [job EXCEPT ![p] = to]

--------------------------------------------------------------------------------
\* The room between games: JOIN_ROOM, and a connection that leaves or closes.
\* During a game neither changes the number of seats.
Join ==
    /\ job[LOOP] = FREE /\ ~is_game_on /\ size < MaxSeats
    /\ size' = size + 1
    /\ UNCHANGED <<game, is_black, is_game_on, job, disturbances>>

Leave ==
    /\ job[LOOP] = FREE /\ ~is_game_on /\ size > 1
    /\ size' = size - 1
    /\ UNCHANGED <<game, is_black, is_game_on, job, disturbances>>

\* Mutant: clear forgets the result of the game before.
Clear_KeepsStatus ==
    /\ board' = EmptyBoard
    /\ current_is_black' = TRUE
    /\ is_ai_thinking' = FALSE
    /\ UNCHANGED status

Clear ==
    /\ board' = EmptyBoard
    /\ current_is_black' = TRUE
    /\ is_ai_thinking' = FALSE
    /\ status' = "NOT_END"

\* GAME_PREPARE by the last player who was not prepared, also during a game:
\* on_everyone_prepared.  In a game of two, entry 1 is the black player.  A
\* game that starts while threads of an earlier one are alive disturbs them.
OnEveryonePrepared ==
    /\ job[LOOP] = FREE /\ size <= 2
    /\ Clear
    /\ use_ai' = (size = 1)
    /\ is_black' = IF size = 1 THEN [is_black EXCEPT ![0] = TRUE]
                   ELSE [i \in {0, 1} |-> i = 1]
    /\ is_game_on' = TRUE
    /\ Quiet \/ disturbances < MaxDisturbances
    /\ disturbances' = IF Quiet THEN 0 ELSE disturbances + 1
    /\ UNCHANGED <<ai_drop_pos, size, job>>

\* The tests of Gomoku::drop, for a cell of the board.
CanDrop(cell, black) ==
    /\ ~(black /\ is_ai_thinking)
    /\ black = current_is_black
    /\ board[cell] = NONE
    /\ status = "NOT_END"

\* The entries of user_id_to_is_black that somebody in the room can match.  All
\* users but the one of entry 0 are taken for entry 1: in a game against the
\* robot that is whoever else is in the room.
Droppers == IF use_ai /\ size = 1 THEN {0} ELSE {0, 1}

\* A thread that has yet to look at the board or to drop for the robot.
Busy(t) == job[t].at \notin {"free", "status", "over"}

\* A drop against the robot while a thread is busy: the thread has not yet sent
\* the position, so the player drops without having seen the robot's answer.
Disturbs == use_ai /\ \E t \in Threads : Busy(t)

\* GOMOKU_DROP, up to the end of the tests.
Drop(cell, i) ==
    /\ job[LOOP] = FREE /\ \E t \in Threads : job[t] = FREE
    /\ i \in Droppers
    /\ CanDrop(cell, is_black[i])
    /\ Jump(LOOP, [at |-> "write", cell |-> cell])
    /\ Disturbs => disturbances < MaxDisturbances
    /\ disturbances' = IF Disturbs THEN disturbances + 1 ELSE disturbances
    /\ UNCHANGED <<game, room>>

\* The rest of drop, for the loop and for a thread that drops for the robot: the
\* piece is of the colour that is in turn by then.
WritePiece(p) ==
    /\ job[p].at = "write"
    /\ board' = [board EXCEPT ![job[p].cell] =
                    IF current_is_black THEN BLACK_PIECE ELSE WHITE_PIECE]
    /\ job' = [job EXCEPT ![p].at = "flip"]
    /\ UNCHANGED <<current_is_black, use_ai, is_ai_thinking, ai_drop_pos, status>>
    /\ UNCHANGED <<room, disturbances>>

PassTurn ==
    /\ current_is_black' = ~current_is_black
    /\ UNCHANGED <<board, use_ai, is_ai_thinking, ai_drop_pos, status, room, disturbances>>

\* The handler ends with the detached thread.
Detach(t) ==
    /\ job[LOOP].at = "flip" /\ job[t] = FREE
    /\ PassTurn
    /\ job' = [job EXCEPT ![LOOP] = FREE, ![t] = [at |-> "size"]]

--------------------------------------------------------------------------------
\* Mutant: the board is looked at once.
CheckSize_OneUpdate(t) ==
    /\ job[t].at = "size"
    /\ Jump(t, [at |-> "update", second |-> TRUE])
    /\ UNCHANGED <<game, room, disturbances>>

\* Update is called twice in a room of one, else once.
CheckSize(t) ==
    /\ job[t].at = "size"
    /\ Jump(t, [at |-> "update", second |-> size # 1])
    /\ UNCHANGED <<game, room, disturbances>>

\* What comes after a call of update.
Return(second) == IF second THEN [at |-> "status"] ELSE [at |-> "update", second |-> TRUE]

\* The cells of a line of five that starts at <<i, j>> and goes by <<di, dj>>.
Line(i, j, di, dj) == {<<i + k * di, j + k * dj>> : k \in 0..(Five - 1)}

Lines ==
    {line \in {Line(c[1], c[2], d[1], d[2]) :
                  c \in Cells, d \in {<<0, 1>>, <<1, 0>>, <<1, 1>>, <<-1, 1>>}} :
        line \subseteq Cells}

IsFive(line, piece) == \A c \in line : board[c] = piece
HasFive(piece) == \E line \in Lines : IsFive(line, piece)
Pieces == {BLACK_PIECE, WHITE_PIECE}
Fives == {line \in Lines : \E piece \in Pieces : IsFive(line, piece)}

\* update looks at all lines, one after the other.  Those it is sure to come
\* across as fives are those that are fives now; todo has what is left of them.
BeginUpdate(t) ==
    /\ job[t].at = "update"
    /\ Jump(t, IF status # "NOT_END" THEN Return(job[t].second)
               ELSE [at |-> "scan", second |-> job[t].second, todo |-> Fives])
    /\ UNCHANGED <<game, room, disturbances>>

\* A line that is five at the moment it is looked at, also if it became one
\* only during the scan.  The order of the lines is left open.
SeeFive(t, line, piece) ==
    /\ job[t].at = "scan"
    /\ IsFive(line, piece)
    /\ Jump(t, [at |-> "found", second |-> job[t].second,
                todo |-> job[t].todo \ {line}, piece |-> piece])
    /\ UNCHANGED <<game, room, disturbances>>

\* The last line found decides.
SetStatus(t) ==
    /\ job[t].at = "found"
    /\ status' = IF job[t].piece = WHITE_PIECE THEN "WHITE_WIN" ELSE "BLACK_WIN"
    /\ Jump(t, [at |-> "scan", second |-> job[t].second, todo |-> job[t].todo])
    /\ UNCHANGED <<board, current_is_black, use_ai, is_ai_thinking, ai_drop_pos>>
    /\ UNCHANGED <<room, disturbances>>

\* A line that was five is none any more when it is looked at.
MissFive(t, line) ==
    /\ job[t].at = "scan"
    /\ line \in job[t].todo \ Fives
    /\ Jump(t, [job[t] EXCEPT !.todo = @ \ {line}])
    /\ UNCHANGED <<game, room, disturbances>>

EndScan(t) ==
    /\ job[t].at = "scan" /\ job[t].todo = {}
    /\ Jump(t, IF status = "NOT_END" THEN [at |-> "turn", second |-> job[t].second]
               ELSE Return(job[t].second))
    /\ UNCHANGED <<game, room, disturbances>>

\* Is it the robot's turn?
AskTurn(t) ==
    /\ job[t].at = "turn"
    /\ Jump(t, IF ~current_is_black /\ use_ai
               THEN [at |-> "begin", second |-> job[t].second]
               ELSE Return(job[t].second))
    /\ UNCHANGED <<game, room, disturbances>>

--------------------------------------------------------------------------------
\* AIDrop.
BeginAIDrop(t) ==
    /\ job[t].at = "begin"
    /\ is_ai_thinking' = TRUE
    /\ Jump(t, [at |-> "search", second |-> job[t].second, left |-> Cells, chosen |-> FALSE])
    /\ UNCHANGED <<board, current_is_black, use_ai, ai_drop_pos, status>>
    /\ UNCHANGED <<room, disturbances>>

\* is_nearby
Nearby(c) == \E n \in Cells : /\ board[n] # NONE
                              /\ n[1] \in (c[1] - 1)..(c[1] + 1)
                              /\ n[2] \in (c[2] - 1)..(c[2] + 1)

CanTry(c) == board[c] = NONE /\ Nearby(c)

\* search_max goes through the cells row by row.
Place(c) == c[1] * Width + c[2]

Visit(t, c) ==
    /\ job[t].at = "search"
    /\ c \in job[t].left /\ \A d \in job[t].left : Place(c) <= Place(d)
    /\ Jump(t, IF CanTry(c)
               THEN [at |-> "try", second |-> job[t].second, left |-> job[t].left \ {c},
                     chosen |-> job[t].chosen, cell |-> c, reply |-> c]
               ELSE [job[t] EXCEPT !.left = @ \ {c}])
    /\ UNCHANGED <<game, room, disturbances>>

\* A write of the search to the board; then is the job the thread goes on with.
OnBoard(t, cell, piece, then) ==
    /\ board' = [board EXCEPT ![cell] = piece]
    /\ Jump(t, then)
    /\ UNCHANGED <<current_is_black, use_ai, is_ai_thinking, ai_drop_pos, status>>
    /\ UNCHANGED <<room, disturbances>>

Try(t) ==
    /\ job[t].at = "try"
    /\ OnBoard(t, job[t].cell, WHITE_PIECE, [job[t] EXCEPT !.at = "tried"])

\* search_min, in the same way for the replies.
VisitReply(t, c) ==
    /\ job[t].at = "tried"
    /\ CanTry(c)
    /\ Jump(t, [job[t] EXCEPT !.at = "reply", !.reply = c])
    /\ UNCHANGED <<game, room, disturbances>>

TryReply(t) ==
    /\ job[t].at = "reply"
    /\ OnBoard(t, job[t].reply, BLACK_PIECE, [job[t] EXCEPT !.at = "replied"])

\* Mutant: the piece of the reply stays on the board.
UndoReply_Never(t) ==
    /\ job[t].at = "replied"
    /\ Jump(t, [job[t] EXCEPT !.at = "tried", !.reply = job[t].cell])
    /\ UNCHANGED <<game, room, disturbances>>

UndoReply(t) ==
    /\ job[t].at = "replied"
    /\ OnBoard(t, job[t].reply, NONE, [job[t] EXCEPT !.at = "tried", !.reply = job[t].cell])

Undo(t) ==
    /\ job[t].at = "tried"
    /\ OnBoard(t, job[t].cell, NONE, [job[t] EXCEPT !.at = "score"])

SearchOn(t, left) ==
    Jump(t, [at |-> "search", second |-> job[t].second, left |-> left, chosen |-> TRUE])

\* Mutant: the row and the column are exchanged.
Score_Transposed(t, better) ==
    /\ job[t].at = "score" /\ (better \/ job[t].chosen)
    /\ ai_drop_pos' = IF better THEN <<job[t].cell[2], job[t].cell[1]>> ELSE ai_drop_pos
    /\ SearchOn(t, job[t].left) \/ (better /\ SearchOn(t, {}))
    /\ UNCHANGED <<board, current_is_black, use_ai, is_ai_thinking, status>>
    /\ UNCHANGED <<room, disturbances>>

\* The first cell tried is the best so far.  One that leaves no reply ends the
\* search: nothing can be better.
Score(t, better) ==
    /\ job[t].at = "score" /\ (better \/ job[t].chosen)
    /\ ai_drop_pos' = IF better THEN job[t].cell ELSE ai_drop_pos
    /\ SearchOn(t, job[t].left) \/ (better /\ SearchOn(t, {}))
    /\ UNCHANGED <<board, current_is_black, use_ai, is_ai_thinking, status>>
    /\ UNCHANGED <<room, disturbances>>

\* Mutant: the flag stays up when the robot cannot drop.
EndSearch_KeepsFlag(t) ==
    /\ job[t].at = "search" /\ job[t].left = {}
    /\ Jump(t, IF CanDrop(ai_drop_pos, FALSE)
               THEN [at |-> "write", second |-> job[t].second, cell |-> ai_drop_pos]
               ELSE Return(job[t].second))
    /\ UNCHANGED <<game, room, disturbances>>

\* The tests of the robot's drop, at the position any thread has set last.
EndSearch(t) ==
    /\ job[t].at = "search" /\ job[t].left = {}
    /\ Jump(t, IF CanDrop(ai_drop_pos, FALSE)
               THEN [at |-> "write", second |-> job[t].second, cell |-> ai_drop_pos]
               ELSE [at |-> "rest", second |-> job[t].second])
    /\ UNCHANGED <<game, room, disturbances>>

PassTurnBack(t) ==
    /\ job[t].at = "flip"
    /\ PassTurn
    /\ Jump(t, [at |-> "rest", second |-> job[t].second])

EndAIDrop(t) ==
    /\ job[t].at = "rest"
    /\ is_ai_thinking' = FALSE
    /\ Jump(t, Return(job[t].second))
    /\ UNCHANGED <<board, current_is_black, use_ai, ai_drop_pos, status>>
    /\ UNCHANGED <<room, disturbances>>

--------------------------------------------------------------------------------
\* get_status, and in a step of its own what follows from the answer.
ReadStatus(t) ==
    /\ job[t].at = "status"
    /\ Jump(t, IF status = "NOT_END" THEN FREE ELSE [at |-> "over"])
    /\ UNCHANGED <<game, room, disturbances>>

EndGame(t) ==
    /\ job[t].at = "over"
    /\ is_game_on' = FALSE
    /\ Jump(t, FREE)
    /\ UNCHANGED <<game, is_black, size, disturbances>>

Scan(t) ==
    \/ BeginUpdate(t)
    \/ \E line \in Lines, piece \in Pieces : SeeFive(t, line, piece)
    \/ SetStatus(t)
    \/ \E line \in Lines : MissFive(t, line)
    \/ EndScan(t)
    \/ AskTurn(t)

Search(t) ==
    \/ BeginAIDrop(t)
    \/ \E c \in Cells : Visit(t, c) \/ VisitReply(t, c)
    \/ Try(t) \/ TryReply(t) \/ UndoReply(t) \/ Undo(t)
    \/ \E better \in BOOLEAN : Score(t, better)
    \/ EndSearch(t)
    \/ PassTurnBack(t)
    \/ EndAIDrop(t)

Next ==
    \/ Join
    \/ Leave
    \/ OnEveryonePrepared
    \/ \E cell \in Cells, i \in {0, 1} : Drop(cell, i)
    \/ \E p \in Procs : WritePiece(p)
    \/ \E t \in Threads : \/ Detach(t)
                          \/ CheckSize(t)
                          \/ Scan(t)
                          \/ Search(t)
                          \/ ReadStatus(t)
                          \/ EndGame(t)

Spec == Init /\ [][Next]_vars

--------------------------------------------------------------------------------
Job ==
    [at : {"free", "size", "status", "over"}]
      \cup [at : {"update", "turn", "begin", "rest"}, second : BOOLEAN]
      \cup [at : {"scan"}, second : BOOLEAN, todo : SUBSET Lines]
      \cup [at : {"found"}, second : BOOLEAN, todo : SUBSET Lines, piece : Pieces]
      \cup [at : {"search"}, second : BOOLEAN, left : SUBSET Cells, chosen : BOOLEAN]
      \cup [at : {"try", "tried", "reply", "replied", "score"}, second : BOOLEAN,
            left : SUBSET Cells, chosen : BOOLEAN, cell : Cells, reply : Cells]
      \cup [at : {"write", "flip"}, second : BOOLEAN, cell : Cells]

TypeOK ==
    /\ board \in [Cells -> Pieces \cup {NONE}]
    /\ {current_is_black, use_ai, is_ai_thinking, is_game_on} \subseteq BOOLEAN
    /\ ai_drop_pos \in Cells
    /\ status \in {"NOT_END", "BLACK_WIN", "WHITE_WIN"}
    /\ is_black \in [{0, 1} -> BOOLEAN]
    /\ size \in 1..MaxSeats
    /\ disturbances \in 0..MaxDisturbances
    /\ DOMAIN job = Procs
    /\ \A t \in Threads : job[t] \in Job
    /\ job[LOOP] \in {FREE} \cup [at : {"write", "flip"}, cell : Cells]

Count(piece) == Cardinality({c \in Cells : board[c] = piece})
Decided == HasFive(BLACK_PIECE) \/ HasFive(WHITE_PIECE)

\* Nobody is trying out a move, or between a drop and the turn that passes.
Settled == \A p \in Procs : job[p].at \notin {"tried", "reply", "replied", "flip"}

\* Black and white take turns, and what the robot tries out leaves no trace on
\* the board, unless a player or a new game disturbs a thread.
PiecesAlternate ==
    Undisturbed /\ Settled =>
        Count(BLACK_PIECE) = Count(WHITE_PIECE) + (IF current_is_black THEN 0 ELSE 1)

\* A result is the result of the game on the board, neither of the one before
\* nor of pieces the robot only tries out, unless a thread is disturbed.
WinnerHasFive ==
    Undisturbed => /\ status = "BLACK_WIN" => HasFive(BLACK_PIECE)
                   /\ status = "WHITE_WIN" => HasFive(WHITE_PIECE)

\* The flag that keeps black from dropping is up only while a thread is going
\* to take it down, whatever disturbs it.
Thinking == {"search", "try", "tried", "reply", "replied", "score", "write", "flip", "rest"}
ThinkingEnds == is_ai_thinking => \E t \in Threads : job[t].at \in Thinking

\* When all threads have ended, and none was disturbed, a board with five in a
\* row, whoever made it, player or robot, belongs to a game that has its result
\* and is no longer on.  The threads are all there is to notice it.
DecidedIsAnnounced ==
    Undisturbed /\ Quiet /\ Decided => status # "NOT_END" /\ ~is_game_on

\* "While a game is on, new users cannot join the room": no seat is added
\* between the start of a game and its result.
GameStarted == is_black[0] \/ is_black[1]
NobodyJoinsDuringGame ==
    [][GameStarted /\ status = "NOT_END" => size' <= size]_vars

================================================================================
