------------------------------ MODULE GomokuProofs -----------------------------
(***************************************************************************)
(* Theorems about Gomoku, for every size of the board and of the room,     *)
(* every length of a winning row, every number of threads and every number *)
(* of disturbances.                                                        *)
(***************************************************************************)
EXTENDS Gomoku, FiniteSetTheorems, TLAPS

\* Jobs that look at the board, write to it or let the robot think.
Works(j) == j.at \notin {"free", "status", "over"}

\* Jobs that know whether they are in the second of two calls of update.
Twice == {"update", "scan", "found", "turn", "begin"} \cup Thinking

\* The robot searches, or drops.
Robot  == Thinking \cup {"begin"}
Trying == {"try", "tried", "reply", "replied", "score"}

\* The robot has nowhere to go.
Stuck == board[ai_drop_pos] # NONE /\ \A c \in Cells : ~CanTry(c)

\* Pieces on the board that a search will take back.
Temporary(j) == IF j.at = "replied" THEN {j.cell, j.reply} ELSE {j.cell}

\* Who tells that a game is over, or makes the robot move, does so for the game
\* that is on.
InTime(j) ==
    /\ j.at = "over" => status # "NOT_END"
    /\ j.at \in Robot => use_ai /\ status = "NOT_END"
    /\ j.at \in Robot \ {"rest"} => ~current_is_black
    /\ j.at \in {"size", "turn"} /\ use_ai => status = "NOT_END"
    /\ j.at = "found" => HasFive(j.piece)

\* What a search knows of the board.
Remembers(j) ==
    /\ j.at \in {"try", "score", "write"} => board[j.cell] = NONE
    /\ j.at \in {"tried", "reply", "replied"} => board[j.cell] = WHITE_PIECE
    /\ j.at = "reply" => board[j.reply] = NONE
    /\ j.at = "replied" => board[j.reply] = BLACK_PIECE
    /\ j.at \in Trying /\ j.chosen => board[ai_drop_pos] = NONE \/ ai_drop_pos \in Temporary(j)
    /\ j.at = "search" /\ j.chosen => board[ai_drop_pos] = NONE
    /\ j.at = "search" /\ ~j.chosen => \A c \in Cells \ j.left : ~CanTry(c)

\* The robot that did not move in the first call of update cannot in the second.
Moved(j) == j.at = "rest" \/ (j.at \in Twice /\ j.second)
MovesFirst(j) ==
    /\ j.at \in Trying \cup {"write", "flip"} => ~j.second
    /\ Moved(j) /\ use_ai /\ ~current_is_black /\ status = "NOT_END" => Stuck

Sane(j) == InTime(j) /\ Remembers(j) /\ MovesFirst(j)

LoopIsSane ==
    /\ job[LOOP].at \in {"write", "flip"} /\ use_ai => status = "NOT_END"
    /\ job[LOOP].at = "write" => board[job[LOOP].cell] = NONE

\* In a game against the robot one process works at a time.
OneWorks ==
    use_ai => \A p, q \in Procs : Works(job[p]) /\ Works(job[q]) => p = q

\* How many pieces black is ahead, those included that a search will take back
\* and that whose turn has not yet passed.
Unsettled == {"tried", "reply", "replied", "flip"}
Ahead(label) ==
    CASE label \in {"tried", "reply"} -> 0
      [] label = "replied"            -> 1
      [] label = "flip"               -> IF current_is_black THEN 1 ELSE 0
      [] OTHER                        -> IF current_is_black THEN 0 ELSE 1
Balanced(label) == Count(BLACK_PIECE) = Count(WHITE_PIECE) + Ahead(label)

Balance ==
    /\ Settled => Balanced("free")
    /\ \A p \in Procs : job[p].at \in Unsettled => Balanced(job[p].at)

\* A five will be seen by a thread that has yet to look at the board, or to
\* look again, or that will come across this five.
Sees(j, line) ==
    \/ j.at \in {"size", "update", "found"}
    \/ j.at \in Twice /\ ~j.second
    \/ j.at = "scan" /\ line \in j.todo

FiveIsYetSeen ==
    status = "NOT_END" => \A line \in Fives :
        job[LOOP].at = "flip" \/ \E t \in Threads : Sees(job[t], line)

\* A result will be told by a thread.
AnswerIsDue ==
    status # "NOT_END" /\ is_game_on => \E t \in Threads : job[t].at # "free"

\* A game that is on is the game of who is in the room; while nobody disturbs
\* the threads, a game against the robot is on until it has a result.
GameIsStaffed == is_game_on => (use_ai <=> size = 1)
StillOn == use_ai /\ status = "NOT_END" => is_game_on

InOrder ==
    /\ StillOn
    /\ \A t \in Threads : Sane(job[t])
    /\ LoopIsSane
    /\ OneWorks
    /\ Balance
    /\ FiveIsYetSeen
    /\ AnswerIsDue

IInv ==
    /\ TypeOK
    /\ ThinkingEnds
    /\ GameIsStaffed
    /\ WinnerHasFive
    /\ Undisturbed => InOrder

USE GomokuAssumption DEF BLACK_PIECE, WHITE_PIECE, NONE, Pieces

--------------------------------------------------------------------------------
\* The board is finite, and its first cell is on it.
LEMMA Board == IsFiniteSet(Cells) /\ <<1, 1>> \in Cells
<1>1. IsFiniteSet(1..Height) /\ IsFiniteSet(1..Width)
  BY FS_Interval
<1>2. IsFiniteSet((1..Height) \X (1..Width))
  BY ONLY <1>1, FS_Product
<1>3. <<1, 1>> \in Cells
  BY DEF Cells
<1> QED
  BY <1>2, <1>3 DEF Cells

\* A line has cells, all of them on the board.
LEMMA LinesHaveCells == \A line \in Lines : line \subseteq Cells /\ line # {}
<1> SUFFICES ASSUME NEW line \in Lines PROVE line # {}
  BY DEF Lines
<1>1. PICK c \in Cells, d \in {<<0, 1>>, <<1, 0>>, <<1, 1>>, <<-1, 1>>} :
             line = Line(c[1], c[2], d[1], d[2])
  BY DEF Lines
<1>2. 0 \in 0..(Five - 1)
  OBVIOUS
<1> QED
  BY <1>1, <1>2 DEF Line

\* An empty board has no five and no pieces.
LEMMA EmptyHasNoFive ==
    ASSUME board = EmptyBoard
    PROVE  /\ Fives = {}
           /\ \A piece \in Pieces : Count(piece) = 0
<1>1. ASSUME NEW line \in Fives PROVE FALSE
  <2>1. PICK piece \in Pieces : line \in Lines /\ \A c \in line : board[c] = piece
    BY DEF Fives, IsFive
  <2>2. PICK c \in line : c \in Cells
    BY <2>1, LinesHaveCells
  <2> QED
    BY <2>1, <2>2 DEF EmptyBoard
<1>2. \A piece \in Pieces : {c \in Cells : board[c] = piece} = {}
  BY DEF EmptyBoard
<1> QED
  BY <1>1, <1>2, FS_EmptySet DEF Count

\* On the same board everything that is said of it stays.
LEMMA BoardKept ==
    ASSUME board' = board
    PROVE  /\ Fives' = Fives
           /\ \A piece : HasFive(piece)' = HasFive(piece) /\ Count(piece)' = Count(piece)
           /\ \A c : CanTry(c)' = CanTry(c)
BY DEF Fives, IsFive, HasFive, Count, CanTry, Nearby

\* A write to a cell changes the counts of what was there and what is now.
LEMMA Written ==
    ASSUME board \in [Cells -> Pieces \cup {NONE}],
           NEW cell \in Cells, NEW now \in Pieces \cup {NONE},
           board' = [board EXCEPT ![cell] = now]
    PROVE  /\ board' \in [Cells -> Pieces \cup {NONE}]
           /\ \A piece \in Pieces :
                /\ Count(piece) \in Nat
                /\ Count(piece)' = Count(piece) + (IF now = piece THEN 1 ELSE 0)
                                                - (IF board[cell] = piece THEN 1 ELSE 0)
<1>1. board' \in [Cells -> Pieces \cup {NONE}]
  OBVIOUS
<1>2. ASSUME NEW piece \in Pieces
      PROVE  /\ Count(piece) \in Nat
             /\ Count(piece)' = Count(piece) + (IF now = piece THEN 1 ELSE 0)
                                             - (IF board[cell] = piece THEN 1 ELSE 0)
  <2> DEFINE Rest == {c \in Cells \ {cell} : board[c] = piece}
  <2>1. IsFiniteSet(Rest) /\ Cardinality(Rest) \in Nat /\ cell \notin Rest
    BY Board, FS_Subset, FS_CardinalityType
  <2>2. Cardinality(Rest \cup {cell}) = Cardinality(Rest) + 1
    BY <2>1, FS_AddElement
  <2>3. {c \in Cells : board[c] = piece} = IF board[cell] = piece THEN Rest \cup {cell} ELSE Rest
    OBVIOUS
  <2>4. {c \in Cells : board'[c] = piece} = IF now = piece THEN Rest \cup {cell} ELSE Rest
    OBVIOUS
  <2>5. Count(piece) = Cardinality(Rest) + (IF board[cell] = piece THEN 1 ELSE 0)
    BY <2>1, <2>2, <2>3 DEF Count
  <2>6. Count(piece)' = Cardinality(Rest) + (IF now = piece THEN 1 ELSE 0)
    BY <2>1, <2>2, <2>4 DEF Count
  <2> HIDE DEF Rest
  <2> QED
    BY <2>1, <2>5, <2>6
<1> QED
  BY <1>1, <1>2

\* Fives stay when an empty cell is filled.
LEMMA FivesStay ==
    ASSUME board \in [Cells -> Pieces \cup {NONE}], NEW cell \in Cells, NEW now \in Pieces,
           board[cell] = NONE, board' = [board EXCEPT ![cell] = now]
    PROVE  /\ \A piece \in Pieces : HasFive(piece) => HasFive(piece)'
           /\ Fives \subseteq Fives'
<1>1. ASSUME NEW line \in Lines, NEW piece \in Pieces, IsFive(line, piece)
      PROVE  IsFive(line, piece)'
  <2>1. cell \notin line /\ line \subseteq Cells
    BY <1>1, LinesHaveCells DEF IsFive
  <2> QED
    BY <1>1, <2>1 DEF IsFive
<1> QED
  BY <1>1 DEF HasFive, Fives

--------------------------------------------------------------------------------
Labels ==
    {"free", "size", "status", "over", "update", "turn", "begin", "rest", "scan", "found",
     "search", "try", "tried", "reply", "replied", "score", "write", "flip"}

\* What a job holds, by its label.
LEMMA JobFields ==
    ASSUME NEW j \in Job
    PROVE  /\ j.at \in Labels
           /\ j.at = "free" => j = FREE
           /\ j.at \in Twice => j.second \in BOOLEAN
           /\ j.at \in {"scan", "found"} => j.todo \in SUBSET Lines
           /\ j.at = "found" => j.piece \in Pieces
           /\ j.at \in Trying \cup {"search"} => j.left \in SUBSET Cells /\ j.chosen \in BOOLEAN
           /\ j.at \in Trying \cup {"write", "flip"} => j.cell \in Cells
           /\ j.at \in Trying => j.reply \in Cells
BY DEF Job, FREE, Labels, Twice, Thinking, Trying

\* Jobs are as they should be.
LEMMA MakeJobs ==
    /\ \A label \in {"free", "size", "status", "over"} : [at |-> label] \in Job
    /\ \A second \in BOOLEAN :
          /\ \A label \in {"update", "turn", "begin", "rest"} :
                [at |-> label, second |-> second] \in Job
          /\ Return(second) \in Job
          /\ \A todo \in SUBSET Lines :
                /\ [at |-> "scan", second |-> second, todo |-> todo] \in Job
                /\ \A piece \in Pieces :
                      [at |-> "found", second |-> second, todo |-> todo, piece |-> piece] \in Job
          /\ \A left \in SUBSET Cells, chosen \in BOOLEAN :
                /\ [at |-> "search", second |-> second, left |-> left, chosen |-> chosen] \in Job
                /\ \A label \in Trying, cell \in Cells, reply \in Cells :
                      [at |-> label, second |-> second, left |-> left, chosen |-> chosen,
                       cell |-> cell, reply |-> reply] \in Job
          /\ \A label \in {"write", "flip"}, cell \in Cells :
                [at |-> label, second |-> second, cell |-> cell] \in Job
BY DEF Job, Return, Trying

\* A search goes on with the same locals.
LEMMA NextTrying ==
    ASSUME NEW j \in Job, j.at \in Trying, NEW label \in Trying, NEW reply \in Cells
    PROVE  /\ [j EXCEPT !.at = label] \in Job
           /\ [j EXCEPT !.at = label, !.reply = reply] \in Job
BY DEF Job, Trying

--------------------------------------------------------------------------------
\* Whether a job is in order after a step.
LEMMA SaneNext ==
    ASSUME NEW p, NEW j, job'[p] = j
    PROVE  Sane(job[p])' = Sane(j)'
BY DEF Sane, InTime, Remembers, MovesFirst, Moved, Temporary

\* A thread's step that changes only where it is preserves the invariant if the
\* new job is in order, has the same pieces on the board, still looks at what
\* it was to look at, and does not end without a result that is known.
LEMMA MoveInv ==
    ASSUME IInv, NEW t \in Threads, NEW j \in Job, Jump(t, j),
           UNCHANGED <<game, room, disturbances>>,
           is_ai_thinking /\ job[t].at \in Thinking => j.at \in Thinking,
           Undisturbed =>
               /\ Works(j) => Works(job[t])
               /\ Sane(j)
               /\ Ahead(j.at) = Ahead(job[t].at) /\ (j.at \in Unsettled <=> job[t].at \in Unsettled)
               /\ status = "NOT_END" => \A line \in Fives : Sees(job[t], line) => Sees(j, line)
               /\ status # "NOT_END" => j.at # "free"
    PROVE  IInv'
<1>1. /\ UNCHANGED <<board, current_is_black, use_ai, is_ai_thinking, ai_drop_pos, status>>
      /\ UNCHANGED <<is_black, is_game_on, size, disturbances>>
      /\ job' = [job EXCEPT ![t] = j] /\ DOMAIN job = Procs
      /\ t \in Procs /\ t # LOOP
  BY DEF game, room, Jump, IInv, TypeOK, Procs
<1>2. /\ job'[t] = j /\ DOMAIN job' = Procs /\ job'[LOOP] = job[LOOP]
      /\ \A p \in Procs \ {t} : job'[p] = job[p]
  BY <1>1 DEF Procs
<1>3. TypeOK'
  BY <1>1, <1>2 DEF IInv, TypeOK, Procs
<1>4. ThinkingEnds'
  BY <1>1, <1>2 DEF IInv, ThinkingEnds, Procs
<1>5. GameIsStaffed'
  BY <1>1 DEF IInv, GameIsStaffed
<1>6. WinnerHasFive'
  BY <1>1, BoardKept DEF IInv, WinnerHasFive, Undisturbed
<1>7. ASSUME Undisturbed' PROVE InOrder'
  <2>1. Undisturbed /\ InOrder
    BY <1>1, <1>7 DEF IInv, Undisturbed
  <2>2. StillOn'
    BY <1>1, <2>1 DEF InOrder, StillOn
  <2>3. \A k : Sane(k)' = Sane(k)
    BY <1>1, BoardKept DEF Sane, InTime, Remembers, MovesFirst, Stuck
  <2>4. \A s \in Threads : Sane(job[s])'
    <3> SUFFICES ASSUME NEW s \in Threads, NEW k, job'[s] = k PROVE Sane(k)'
      BY SaneNext
    <3>1. CASE s = t
      BY <1>2, <2>1, <2>3, <3>1
    <3>2. CASE s # t
      <4>1. Sane(job[s]) /\ job[s] = k
        BY <1>2, <2>1, <3>2 DEF InOrder, Procs
      <4> QED
        BY <2>3, <4>1
    <3> QED
      BY <3>1, <3>2
  <2>5. LoopIsSane'
    BY <1>1, <1>2, <2>1 DEF InOrder, LoopIsSane
  <2>6. OneWorks'
    BY <1>1, <1>2, <2>1 DEF InOrder, OneWorks
  <2>7. Balance'
    <3>1. \A label : Balanced(label)' = Balanced(label)
      BY <1>1, BoardKept DEF Balanced, Ahead
    <3>2. Balanced(j.at) = Balanced(job[t].at)
      BY <2>1 DEF Balanced
    <3>3. Settled' = Settled
      BY <1>1, <1>2, <2>1 DEF Settled, Unsettled
    <3> QED
      BY <1>1, <1>2, <2>1, <3>1, <3>2, <3>3 DEF InOrder, Balance
  <2>8. FiveIsYetSeen'
    BY <1>1, <1>2, <2>1, BoardKept DEF InOrder, FiveIsYetSeen, Procs, Sees
  <2>9. AnswerIsDue'
    BY <1>1, <1>2, <2>1 DEF InOrder, AnswerIsDue, Procs
  <2> QED
    BY <2>2, <2>4, <2>5, <2>6, <2>7, <2>8, <2>9 DEF InOrder
<1> QED
  BY <1>3, <1>4, <1>5, <1>6, <1>7 DEF IInv

\* In a game against the robot a thread that works is alone.
LEMMA Alone ==
    ASSUME IInv, Undisturbed, use_ai, NEW p \in Procs, Works(job[p])
    PROVE  /\ \A q \in Procs \ {p} : job[q].at \in {"free", "status", "over"}
           /\ p # LOOP => job[LOOP] = FREE
<1>1. \A q \in Procs \ {p} : ~Works(job[q])
  BY DEF IInv, InOrder, OneWorks
<1> QED
  BY <1>1 DEF Works, IInv, TypeOK, Procs, FREE

\* A step of the robot, which may change the board, the turn and the robot's
\* position, preserves the invariant if the new job is in order and fits the
\* pieces on the board, and every five is still seen.
LEMMA RobotInv ==
    ASSUME IInv, NEW t \in Threads, NEW j \in Job, Jump(t, j), job[t].at \in Robot,
           UNCHANGED <<use_ai, status, room, disturbances>>,
           board' \in [Cells -> Pieces \cup {NONE}], ai_drop_pos' \in Cells,
           {current_is_black, is_ai_thinking}' \subseteq BOOLEAN,
           is_ai_thinking' => j.at \in Thinking \/ (is_ai_thinking /\ job[t].at \notin Thinking),
           Undisturbed =>
               /\ Sane(j)'
               /\ IF j.at \in Unsettled THEN Balanced(j.at)' ELSE Balanced("free")'
               /\ \A line \in Fives' : Sees(j, line) \/ (line \in Fives /\ ~Sees(job[t], line))
    PROVE  IInv'
<1>1. /\ UNCHANGED <<use_ai, status, is_black, is_game_on, size, disturbances>>
      /\ job' = [job EXCEPT ![t] = j] /\ DOMAIN job = Procs
      /\ t \in Procs /\ t # LOOP
  BY DEF room, Jump, IInv, TypeOK, Procs
<1>2. /\ job'[t] = j /\ DOMAIN job' = Procs /\ job'[LOOP] = job[LOOP]
      /\ \A p \in Procs \ {t} : job'[p] = job[p]
  BY <1>1 DEF Procs
<1>3. TypeOK'
  BY <1>1, <1>2 DEF IInv, TypeOK, Procs
<1>4. ThinkingEnds'
  BY <1>1, <1>2 DEF IInv, ThinkingEnds, Procs
<1>5. GameIsStaffed'
  BY <1>1 DEF IInv, GameIsStaffed
<1>6. ASSUME Undisturbed'
      PROVE  InOrder' /\ status' = "NOT_END"
  <2>1. Undisturbed /\ InOrder
    BY <1>1, <1>6 DEF IInv, Undisturbed
  <2>2. use_ai /\ status = "NOT_END" /\ Works(job[t])
    BY <2>1 DEF InOrder, Sane, InTime, Works, Robot, Thinking
  <2>3. /\ \A p \in Procs \ {t} : job[p].at \in {"free", "status", "over"}
        /\ job[LOOP] = FREE
    BY <1>1, <2>1, <2>2, Alone
  <2>4. StillOn'
    BY <1>1, <2>1 DEF InOrder, StillOn
  <2>5. \A s \in Threads : Sane(job[s])'
    <3> SUFFICES ASSUME NEW s \in Threads, NEW k, job'[s] = k PROVE Sane(k)'
      BY SaneNext
    <3>1. CASE s = t
      BY <1>2, <2>1, <3>1
    <3>2. CASE s # t
      <4>1. k.at \in {"free", "status"}
        BY <1>2, <2>1, <2>2, <2>3, <3>2 DEF InOrder, Sane, InTime, Procs
      <4> QED
        BY <4>1 DEF Sane, InTime, Remembers, MovesFirst, Moved, Robot, Thinking, Trying, Twice
    <3> QED
      BY <3>1, <3>2
  <2>6. LoopIsSane'
    BY <1>2, <2>3 DEF LoopIsSane, FREE
  <2>7. OneWorks'
    BY <1>2, <2>3 DEF OneWorks, Works
  <2>8. Balance'
    <3>1. \A p \in Procs \ {t} : job'[p].at \notin Unsettled
      BY <1>2, <2>3 DEF Unsettled
    <3>2. Settled' <=> j.at \notin Unsettled
      BY <1>1, <1>2, <3>1 DEF Settled, Unsettled
    <3>3. ASSUME NEW p \in Procs, job'[p].at \in Unsettled PROVE p = t /\ j.at \in Unsettled
      BY <1>2, <3>1, <3>3
    <3>4. j.at \in Unsettled => Balanced(job[t].at)'
      BY <1>2, <2>1 DEF Balanced, Ahead
    <3> QED
      BY <2>1, <3>2, <3>3, <3>4 DEF Balance
  <2>9. FiveIsYetSeen'
    <3> SUFFICES ASSUME NEW line \in Fives'
                 PROVE  Sees(job'[t], line)
      BY DEF FiveIsYetSeen, Sees
    <3>1. ASSUME line \in Fives PROVE Sees(job[t], line)
      <4>1. PICK s \in Threads : Sees(job[s], line)
        BY <2>1, <2>2, <2>3, <3>1 DEF InOrder, FiveIsYetSeen, FREE
      <4>2. s = t
        BY <2>3, <4>1 DEF Sees, Twice, Thinking, Procs
      <4> QED
        BY <4>1, <4>2
    <3> QED
      BY <1>2, <2>1, <3>1
  <2>10. AnswerIsDue'
    BY <1>1, <2>2 DEF AnswerIsDue
  <2> QED
    BY <1>1, <2>2, <2>4, <2>5, <2>6, <2>7, <2>8, <2>9, <2>10 DEF InOrder
<1>7. WinnerHasFive'
  BY <1>6 DEF WinnerHasFive
<1> QED
  BY <1>3, <1>4, <1>5, <1>6, <1>7 DEF IInv

--------------------------------------------------------------------------------
\* What a thread's step can rely on.
LEMMA Known ==
    ASSUME IInv, NEW t \in Threads
    PROVE  /\ job[t] \in Job
           /\ Undisturbed => Sane(job[t]) /\ InOrder
           /\ board \in [Cells -> Pieces \cup {NONE}] /\ ai_drop_pos \in Cells
           /\ {current_is_black, use_ai, is_ai_thinking, is_game_on} \subseteq BOOLEAN
           /\ status \in {"NOT_END", "BLACK_WIN", "WHITE_WIN"}
BY DEF IInv, InOrder, TypeOK

\* A thread that finds one player in the room will look twice; in the game
\* against the robot there is one.
LEMMA CheckSizeInv == ASSUME IInv, NEW t \in Threads, CheckSize(t) PROVE IInv'
<1> DEFINE j == [at |-> "update", second |-> size # 1]
<1>1. /\ job[t].at = "size" /\ Jump(t, j) /\ UNCHANGED <<game, room, disturbances>>
      /\ j \in Job /\ j.at = "update" /\ j.second = (size # 1)
  BY MakeJobs DEF CheckSize
<1> HIDE DEF j
<1>2. ASSUME Undisturbed PROVE Sane(j)
  <2>1. use_ai /\ status = "NOT_END" => size = 1
    BY <1>2 DEF IInv, InOrder, StillOn, GameIsStaffed
  <2> QED
    BY <1>1, <2>1 DEF Sane, InTime, Remembers, MovesFirst, Moved, Robot, Thinking, Trying
<1> QED
  BY <1>1, <1>2, MoveInv DEF Thinking, Works, Ahead, Unsettled, Sees

\* All fives of the moment are still to be seen.
LEMMA BeginUpdateInv == ASSUME IInv, NEW t \in Threads, BeginUpdate(t) PROVE IInv'
<1> DEFINE second == job[t].second
<1> DEFINE j == IF status # "NOT_END" THEN Return(second)
                ELSE [at |-> "scan", second |-> second, todo |-> Fives]
<1>1. /\ job[t].at = "update" /\ Jump(t, j) /\ UNCHANGED <<game, room, disturbances>>
      /\ job[t] \in Job /\ second \in BOOLEAN
  BY Known, JobFields DEF BeginUpdate, Twice
<1>2. j \in Job
  BY <1>1, MakeJobs DEF Fives
<1>3. /\ status # "NOT_END" => j.at \in {"update", "status"}
      /\ status = "NOT_END" => j.at = "scan" /\ j.second = second /\ j.todo = Fives
  BY <1>1 DEF Return
<1> HIDE DEF j
<1>4. ASSUME Undisturbed PROVE Sane(j)
  BY <1>1, <1>3, <1>4, Known
  DEF Sane, InTime, Remembers, MovesFirst, Moved, Robot, Thinking, Trying, Twice
<1> QED
  BY <1>1, <1>2, <1>3, <1>4, MoveInv DEF Thinking, Works, Ahead, Unsettled, Sees

LEMMA SeeFiveInv ==
    ASSUME IInv, NEW t \in Threads, NEW line \in Lines, NEW piece \in Pieces,
           SeeFive(t, line, piece)
    PROVE  IInv'
<1> DEFINE j == [at |-> "found", second |-> job[t].second,
                 todo |-> job[t].todo \ {line}, piece |-> piece]
<1>1. /\ job[t].at = "scan" /\ Jump(t, j) /\ UNCHANGED <<game, room, disturbances>>
      /\ IsFive(line, piece)
  BY DEF SeeFive
<1>2. job[t] \in Job /\ job[t].second \in BOOLEAN /\ job[t].todo \in SUBSET Lines
  BY <1>1, Known, JobFields DEF Twice
<1>3. j \in Job /\ j.at = "found" /\ j.piece = piece /\ j.second = job[t].second
  BY <1>2, MakeJobs
<1> HIDE DEF j
<1>4. ASSUME Undisturbed PROVE Sane(j)
  <2>1. HasFive(piece)
    BY <1>1 DEF HasFive
  <2> QED
    BY <1>1, <1>3, <1>4, <2>1, Known
    DEF Sane, InTime, Remembers, MovesFirst, Moved, Robot, Thinking, Trying, Twice
<1> QED
  BY <1>1, <1>3, <1>4, MoveInv DEF Thinking, Works, Ahead, Unsettled, Sees

LEMMA MissFiveInv ==
    ASSUME IInv, NEW t \in Threads, NEW line \in Lines, MissFive(t, line)
    PROVE  IInv'
<1> DEFINE j == [job[t] EXCEPT !.todo = @ \ {line}]
<1>1. /\ job[t].at = "scan" /\ Jump(t, j) /\ UNCHANGED <<game, room, disturbances>>
      /\ line \notin Fives
  BY DEF MissFive
<1>2. job[t] \in [at : {"scan"}, second : BOOLEAN, todo : SUBSET Lines]
  BY <1>1, Known DEF Job
<1>3. /\ j \in Job /\ j.at = "scan" /\ j.second = job[t].second
      /\ j.todo = job[t].todo \ {line}
  <2>1. j = [at |-> "scan", second |-> job[t].second, todo |-> job[t].todo \ {line}]
    BY <1>2
  <2>2. job[t].second \in BOOLEAN /\ job[t].todo \ {line} \in SUBSET Lines
    BY <1>2
  <2> HIDE DEF j
  <2>3. j \in Job
    BY <2>1, <2>2, MakeJobs
  <2> QED
    BY <2>1, <2>3
<1> HIDE DEF j
<1>4. ASSUME Undisturbed PROVE Sane(j)
  BY <1>1, <1>3, <1>4, Known
  DEF Sane, InTime, Remembers, MovesFirst, Moved, Robot, Thinking, Trying, Twice
<1> QED
  BY <1>1, <1>3, <1>4, MoveInv DEF Thinking, Works, Ahead, Unsettled, Sees, Twice

\* At the end of a look without a result, every five on the board is left to
\* somebody else, or to the second look.
LEMMA EndScanInv == ASSUME IInv, NEW t \in Threads, EndScan(t) PROVE IInv'
<1> DEFINE second == job[t].second
<1> DEFINE j == IF status = "NOT_END" THEN [at |-> "turn", second |-> second] ELSE Return(second)
<1>1. /\ job[t].at = "scan" /\ job[t].todo = {} /\ Jump(t, j)
      /\ UNCHANGED <<game, room, disturbances>>
      /\ job[t] \in Job /\ second \in BOOLEAN
  BY Known, JobFields DEF EndScan, Twice
<1>2. j \in Job
  BY <1>1, MakeJobs
<1>3. /\ status # "NOT_END" => j.at \in {"update", "status"}
      /\ status = "NOT_END" => j.at = "turn" /\ j.second = second
  BY <1>1 DEF Return
<1> HIDE DEF j
<1>4. ASSUME Undisturbed PROVE Sane(j)
  BY <1>1, <1>3, <1>4, Known
  DEF Sane, InTime, Remembers, MovesFirst, Moved, Robot, Thinking, Trying, Twice
<1> QED
  BY <1>1, <1>2, <1>3, <1>4, MoveInv DEF Thinking, Works, Ahead, Unsettled, Sees, Twice

LEMMA AskTurnInv == ASSUME IInv, NEW t \in Threads, AskTurn(t) PROVE IInv'
<1> DEFINE second == job[t].second
<1> DEFINE j == IF ~current_is_black /\ use_ai
                THEN [at |-> "begin", second |-> second] ELSE Return(second)
<1>1. /\ job[t].at = "turn" /\ Jump(t, j) /\ UNCHANGED <<game, room, disturbances>>
      /\ job[t] \in Job /\ second \in BOOLEAN
  BY Known, JobFields DEF AskTurn, Twice
<1>2. j \in Job
  BY <1>1, MakeJobs
<1>3. /\ ~current_is_black /\ use_ai => j.at = "begin" /\ j.second = second
      /\ current_is_black \/ ~use_ai =>
            IF second THEN j.at = "status" ELSE j.at = "update" /\ j.second
  BY <1>1 DEF Return
<1> HIDE DEF j
<1>4. ASSUME Undisturbed PROVE Sane(j)
  BY <1>1, <1>3, <1>4, Known
  DEF Sane, InTime, Remembers, MovesFirst, Moved, Robot, Thinking, Trying, Twice
<1> QED
  BY <1>1, <1>2, <1>3, <1>4, MoveInv DEF Thinking, Works, Ahead, Unsettled, Sees, Twice

LEMMA ReadStatusInv == ASSUME IInv, NEW t \in Threads, ReadStatus(t) PROVE IInv'
<1> DEFINE j == IF status = "NOT_END" THEN FREE ELSE [at |-> "over"]
<1>1. job[t].at = "status" /\ Jump(t, j) /\ UNCHANGED <<game, room, disturbances>>
  BY DEF ReadStatus
<1>2. j \in Job /\ (status = "NOT_END" => j.at = "free") /\ (status # "NOT_END" => j.at = "over")
  BY MakeJobs DEF FREE
<1> HIDE DEF j
<1>3. ASSUME Undisturbed PROVE Sane(j)
  BY <1>2 DEF Sane, InTime, Remembers, MovesFirst, Moved, Robot, Thinking, Trying, Twice
<1> QED
  BY <1>1, <1>2, <1>3, MoveInv DEF Thinking, Works, Ahead, Unsettled, Sees, Twice

\* The search comes to a cell: a robot that could not move in the first call of
\* update finds none to try.
LEMMA VisitInv ==
    ASSUME IInv, NEW t \in Threads, NEW c \in Cells, Visit(t, c)
    PROVE  IInv'
<1>1. /\ job[t].at = "search" /\ UNCHANGED <<game, room, disturbances>>
      /\ job[t] \in [at : {"search"}, second : BOOLEAN, left : SUBSET Cells, chosen : BOOLEAN]
      /\ job[t] \in Job
  BY Known DEF Visit, Job
<1>2. CASE CanTry(c)
  <2> DEFINE j == [at |-> "try", second |-> job[t].second, left |-> job[t].left \ {c},
                   chosen |-> job[t].chosen, cell |-> c, reply |-> c]
  <2>1. Jump(t, j) /\ j \in Job
    BY <1>1, <1>2, MakeJobs DEF Visit, Trying
  <2>2. j.at = "try" /\ j.second = job[t].second /\ j.chosen = job[t].chosen /\ j.cell = c
    OBVIOUS
  <2> HIDE DEF j
  <2>3. ASSUME Undisturbed PROVE Sane(j)
    <3>1. ~job[t].second
      BY <1>1, <1>2, <2>3, Known
      DEF Sane, InTime, MovesFirst, Moved, Stuck, Twice, Thinking, Robot
    <3> QED
      BY <1>1, <1>2, <2>2, <2>3, <3>1, Known
      DEF Sane, InTime, Remembers, MovesFirst, Moved, Robot, Thinking, Trying, Twice, CanTry
  <2> QED
    BY <1>1, <2>1, <2>2, <2>3, MoveInv DEF Thinking, Works, Ahead, Unsettled, Sees, Twice
<1>3. CASE ~CanTry(c)
  <2> DEFINE j == [job[t] EXCEPT !.left = @ \ {c}]
  <2>1. /\ Jump(t, j)
        /\ j = [at |-> "search", second |-> job[t].second, left |-> job[t].left \ {c},
                chosen |-> job[t].chosen]
    BY <1>1, <1>3 DEF Visit
  <2>2. /\ j \in Job /\ j.at = "search" /\ j.second = job[t].second
        /\ j.chosen = job[t].chosen /\ j.left = job[t].left \ {c}
    <3>1. /\ job[t].second \in BOOLEAN /\ job[t].chosen \in BOOLEAN
          /\ job[t].left \ {c} \in SUBSET Cells
      BY <1>1
    <3> HIDE DEF j
    <3>2. j \in Job
      BY <2>1, <3>1, MakeJobs
    <3> QED
      BY <2>1, <3>2
  <2> HIDE DEF j
  <2>3. ASSUME Undisturbed PROVE Sane(j)
    BY <1>1, <1>3, <2>2, <2>3, Known
    DEF Sane, InTime, Remembers, MovesFirst, Moved, Robot, Thinking, Trying, Twice
  <2> QED
    BY <1>1, <2>1, <2>2, <2>3, MoveInv DEF Thinking, Works, Ahead, Unsettled, Sees, Twice
<1> QED
  BY <1>2, <1>3

LEMMA VisitReplyInv ==
    ASSUME IInv, NEW t \in Threads, NEW c \in Cells, VisitReply(t, c)
    PROVE  IInv'
<1> DEFINE j == [job[t] EXCEPT !.at = "reply", !.reply = c]
<1>1. /\ job[t].at = "tried" /\ Jump(t, j) /\ UNCHANGED <<game, room, disturbances>>
      /\ board[c] = NONE /\ job[t] \in Job
  BY Known DEF VisitReply, CanTry
<1>2. job[t] \in [at : Trying, second : BOOLEAN, left : SUBSET Cells, chosen : BOOLEAN,
                  cell : Cells, reply : Cells]
  BY <1>1 DEF Job, Trying
<1>3. /\ j \in Job /\ j.at = "reply" /\ j.second = job[t].second /\ j.chosen = job[t].chosen
      /\ j.cell = job[t].cell /\ j.reply = c
  BY <1>1, <1>2, NextTrying DEF Trying
<1> HIDE DEF j
<1>4. ASSUME Undisturbed PROVE Sane(j)
  BY <1>1, <1>3, <1>4, Known
  DEF Sane, InTime, Remembers, MovesFirst, Moved, Robot, Thinking, Trying, Twice, Temporary
<1> QED
  BY <1>1, <1>3, <1>4, MoveInv DEF Thinking, Works, Ahead, Unsettled, Sees, Twice

\* At the end of the search the robot's position is empty, or there was no cell
\* to try.
LEMMA EndSearchInv == ASSUME IInv, NEW t \in Threads, EndSearch(t) PROVE IInv'
<1> DEFINE j == IF CanDrop(ai_drop_pos, FALSE)
                THEN [at |-> "write", second |-> job[t].second, cell |-> ai_drop_pos]
                ELSE [at |-> "rest", second |-> job[t].second]
<1>1. /\ job[t].at = "search" /\ job[t].left = {} /\ Jump(t, j)
      /\ UNCHANGED <<game, room, disturbances>>
  BY DEF EndSearch
<1>2. job[t] \in Job /\ job[t].second \in BOOLEAN
  BY <1>1, Known, JobFields DEF Twice, Thinking
<1>3. /\ j \in Job /\ j.second = job[t].second /\ j.at \in {"write", "rest"}
      /\ CanDrop(ai_drop_pos, FALSE) => j.at = "write" /\ j.cell = ai_drop_pos
      /\ ~CanDrop(ai_drop_pos, FALSE) => j.at = "rest"
  BY <1>2, Known, MakeJobs
<1> HIDE DEF j
<1>4. ASSUME Undisturbed PROVE Sane(j)
  <2>1. Sane(job[t]) /\ use_ai /\ status = "NOT_END" /\ ~current_is_black
    BY <1>1, <1>4, Known DEF Sane, InTime, Robot, Thinking
  <2>2. CanDrop(ai_drop_pos, FALSE) <=> board[ai_drop_pos] = NONE
    BY <2>1, Known DEF CanDrop
  <2>3. CASE CanDrop(ai_drop_pos, FALSE)
    <3>1. ~job[t].second
      BY <1>1, <2>1, <2>2, <2>3 DEF Sane, MovesFirst, Moved, Stuck, Twice, Thinking
    <3> QED
      BY <1>3, <2>1, <2>2, <2>3, <3>1
      DEF Sane, InTime, Remembers, MovesFirst, Moved, Robot, Thinking, Trying, Twice
  <2>4. CASE ~CanDrop(ai_drop_pos, FALSE)
    <3>1. Stuck
      BY <1>1, <1>2, <2>1, <2>2, <2>4, JobFields DEF Sane, Remembers, Stuck
    <3> QED
      BY <1>3, <2>1, <2>4, <3>1
      DEF Sane, InTime, Remembers, MovesFirst, Moved, Robot, Thinking, Trying, Twice
  <2> QED
    BY <2>3, <2>4
<1> QED
  BY <1>1, <1>3, <1>4, MoveInv DEF Thinking, Works, Ahead, Unsettled, Sees, Twice

--------------------------------------------------------------------------------
\* What the robot can rely on, while no thread is disturbed.
LEMMA RobotKnown ==
    ASSUME IInv, NEW t \in Threads, job[t].at \in Robot, Undisturbed
    PROVE  /\ Sane(job[t]) /\ use_ai /\ status = "NOT_END"
           /\ job[t].at # "rest" => current_is_black = FALSE
           /\ IF job[t].at \in Unsettled THEN Balanced(job[t].at) ELSE Balanced("free")
<1>1. Sane(job[t]) /\ InOrder
  BY Known
<1>2. use_ai /\ status = "NOT_END" /\ Works(job[t]) /\ t \in Procs
  BY <1>1 DEF Sane, InTime, Works, Robot, Thinking, Procs
<1>3. job[t].at # "rest" => current_is_black = FALSE
  BY <1>1, Known DEF Sane, InTime
<1>4. \A p \in Procs \ {t} : job[p].at \in {"free", "status", "over"}
  BY <1>2, Alone
<1>5. job[t].at \notin Unsettled => Settled
  BY <1>4 DEF Settled, Unsettled
<1> QED
  BY <1>1, <1>2, <1>3, <1>5 DEF InOrder, Balance

\* How far black is ahead, by label.
LEMMA AheadIs ==
    /\ Ahead("free") = (IF current_is_black THEN 0 ELSE 1)
    /\ Ahead("tried") = 0 /\ Ahead("reply") = 0 /\ Ahead("replied") = 1
    /\ Ahead("free")' = (IF current_is_black' THEN 0 ELSE 1)
    /\ Ahead("tried")' = 0 /\ Ahead("replied")' = 1
    /\ Ahead("flip")' = (IF current_is_black' THEN 1 ELSE 0)
BY DEF Ahead

LEMMA BeginAIDropInv == ASSUME IInv, NEW t \in Threads, BeginAIDrop(t) PROVE IInv'
<1> DEFINE new == [at |-> "search", second |-> job[t].second, left |-> Cells, chosen |-> FALSE]
<1>1. /\ job[t].at = "begin" /\ Jump(t, new) /\ is_ai_thinking' = TRUE
      /\ UNCHANGED <<board, current_is_black, use_ai, ai_drop_pos, status, room, disturbances>>
  BY DEF BeginAIDrop
<1>2. job[t] \in Job /\ job[t].second \in BOOLEAN
  BY <1>1, Known, JobFields DEF Twice
<1>3. PICK j \in Job : /\ j = new /\ j.at = "search" /\ j.second = job[t].second
                       /\ j.left = Cells /\ j.chosen = FALSE
  <2>1. new \in Job
    BY <1>2, MakeJobs
  <2> QED
    BY <2>1
<1>4. ASSUME Undisturbed
      PROVE  /\ Sane(j)'
             /\ Balanced("free")'
             /\ \A line \in Fives' : Sees(j, line) \/ (line \in Fives /\ ~Sees(job[t], line))
  <2>1. Sane(j)'
    BY <1>1, <1>3, <1>4, RobotKnown, BoardKept
    DEF Sane, InTime, Remembers, MovesFirst, Moved, Stuck, Robot, Thinking, Trying, Twice
  <2>2. Balanced("free")'
    BY <1>1, <1>4, RobotKnown, BoardKept DEF Balanced, Ahead, Unsettled, Robot
  <2> QED
    BY <1>1, <1>2, <1>3, <2>1, <2>2, BoardKept DEF Sees, Twice, Thinking
<1> HIDE DEF new
<1> QED
  BY <1>1, <1>3, <1>4, Known, RobotInv DEF Robot, Thinking, Unsettled

\* A write of the search, which the count of the pieces shows.
LEMMA OnBoardInv ==
    ASSUME IInv, NEW t \in Threads, NEW j \in Job, NEW cell \in Cells,
           NEW piece \in Pieces \cup {NONE}, OnBoard(t, cell, piece, j),
           job[t].at \in Trying, j.at \in Trying, j.second = job[t].second,
           Undisturbed =>
               /\ Remembers(j)'
               /\ IF j.at \in Unsettled THEN Balanced(j.at)' ELSE Balanced("free")'
    PROVE  IInv'
<1>1. /\ board' = [board EXCEPT ![cell] = piece] /\ Jump(t, j)
      /\ UNCHANGED <<current_is_black, use_ai, is_ai_thinking, ai_drop_pos, status>>
      /\ UNCHANGED <<room, disturbances>>
  BY DEF OnBoard
<1>2. board' \in [Cells -> Pieces \cup {NONE}]
  BY <1>1, Known, Written
<1>3. job[t].at \in Robot /\ j.at \in Thinking
  BY DEF Trying, Robot, Thinking
<1>4. ASSUME Undisturbed
      PROVE  Sane(j)' /\ \A line : Sees(j, line)
  <2>1. Sane(job[t]) /\ use_ai /\ status = "NOT_END" /\ current_is_black = FALSE /\ ~j.second
    BY <1>3, <1>4, RobotKnown DEF Sane, MovesFirst, Trying
  <2>2. InTime(j)' /\ MovesFirst(j)'
    BY <1>1, <1>3, <2>1 DEF InTime, MovesFirst, Moved, Robot, Thinking, Trying
  <2> QED
    BY <1>3, <1>4, <2>1, <2>2 DEF Sane, Sees, Twice
<1> QED
  BY <1>1, <1>2, <1>3, <1>4, Known, RobotInv

LEMMA TryInv == ASSUME IInv, NEW t \in Threads, Try(t) PROVE IInv'
<1>1. job[t].at = "try" /\ OnBoard(t, job[t].cell, WHITE_PIECE, [job[t] EXCEPT !.at = "tried"])
  BY DEF Try
<1>2. /\ job[t] \in [at : Trying, second : BOOLEAN, left : SUBSET Cells, chosen : BOOLEAN,
                     cell : Cells, reply : Cells]
      /\ job[t] \in Job
  BY <1>1, Known DEF Job, Trying
<1>3. PICK j \in Job : /\ j = [job[t] EXCEPT !.at = "tried"] /\ j.at = "tried"
                       /\ j.second = job[t].second /\ j.chosen = job[t].chosen
                       /\ j.cell = job[t].cell
  BY <1>1, <1>2, NextTrying DEF Trying
<1>4. PICK cell \in Cells : cell = job[t].cell
  BY <1>2
<1>5. ASSUME Undisturbed PROVE Remembers(j)' /\ Balanced("tried")'
  <2>1. /\ board' = [board EXCEPT ![cell] = WHITE_PIECE] /\ ai_drop_pos' = ai_drop_pos
        /\ current_is_black' = current_is_black
    BY <1>1, <1>4 DEF OnBoard
  <2>2. /\ Sane(job[t]) /\ current_is_black = FALSE /\ Balanced("free") /\ board[cell] = NONE
    BY <1>1, <1>4, <1>5, RobotKnown DEF Robot, Thinking, Unsettled, Sane, Remembers
  <2>3. Remembers(j)'
    BY <1>1, <1>3, <1>4, <2>1, <2>2, Known DEF Sane, Remembers, Temporary, Trying
  <2>4. Balanced("tried")'
    <3>1. \A piece \in Pieces : /\ Count(piece) \in Nat
                               /\ Count(piece)' = Count(piece) + (IF WHITE_PIECE = piece THEN 1 ELSE 0)
                                                              - (IF NONE = piece THEN 1 ELSE 0)
      BY <2>1, <2>2, Known, Written
    <3> QED
      BY <2>1, <2>2, <3>1, AheadIs DEF Balanced
  <2> QED
    BY <2>3, <2>4
<1> QED
  BY <1>1, <1>3, <1>4, <1>5, OnBoardInv DEF Trying, Unsettled

LEMMA TryReplyInv == ASSUME IInv, NEW t \in Threads, TryReply(t) PROVE IInv'
<1>1. job[t].at = "reply" /\ OnBoard(t, job[t].reply, BLACK_PIECE, [job[t] EXCEPT !.at = "replied"])
  BY DEF TryReply
<1>2. /\ job[t] \in [at : Trying, second : BOOLEAN, left : SUBSET Cells, chosen : BOOLEAN,
                     cell : Cells, reply : Cells]
      /\ job[t] \in Job
  BY <1>1, Known DEF Job, Trying
<1>3. PICK j \in Job : /\ j = [job[t] EXCEPT !.at = "replied"] /\ j.at = "replied"
                       /\ j.second = job[t].second /\ j.chosen = job[t].chosen
                       /\ j.cell = job[t].cell /\ j.reply = job[t].reply
  BY <1>1, <1>2, NextTrying DEF Trying
<1>4. PICK cell \in Cells, reply \in Cells : cell = job[t].cell /\ reply = job[t].reply
  BY <1>2
<1>5. ASSUME Undisturbed PROVE Remembers(j)' /\ Balanced("replied")'
  <2>1. /\ board' = [board EXCEPT ![reply] = BLACK_PIECE] /\ ai_drop_pos' = ai_drop_pos
        /\ current_is_black' = current_is_black
    BY <1>1, <1>4 DEF OnBoard
  <2>2. /\ Sane(job[t]) /\ current_is_black = FALSE /\ Balanced("reply")
        /\ board[reply] = NONE /\ board[cell] = WHITE_PIECE
    BY <1>1, <1>4, <1>5, RobotKnown DEF Robot, Thinking, Unsettled, Sane, Remembers
  <2>3. Remembers(j)'
    BY <1>1, <1>3, <1>4, <2>1, <2>2, Known DEF Sane, Remembers, Temporary, Trying
  <2>4. Balanced("replied")'
    <3>1. \A piece \in Pieces : /\ Count(piece) \in Nat
                               /\ Count(piece)' = Count(piece) + (IF BLACK_PIECE = piece THEN 1 ELSE 0)
                                                              - (IF NONE = piece THEN 1 ELSE 0)
      BY <2>1, <2>2, Known, Written
    <3> QED
      BY <2>1, <2>2, <3>1, AheadIs DEF Balanced
  <2> QED
    BY <2>3, <2>4
<1> QED
  BY <1>1, <1>3, <1>4, <1>5, OnBoardInv DEF Trying, Unsettled

LEMMA UndoReplyInv == ASSUME IInv, NEW t \in Threads, UndoReply(t) PROVE IInv'
<1>1. /\ job[t].at = "replied"
      /\ OnBoard(t, job[t].reply, NONE, [job[t] EXCEPT !.at = "tried", !.reply = job[t].cell])
  BY DEF UndoReply
<1>2. /\ job[t] \in [at : Trying, second : BOOLEAN, left : SUBSET Cells, chosen : BOOLEAN,
                     cell : Cells, reply : Cells]
      /\ job[t] \in Job
  BY <1>1, Known DEF Job, Trying
<1>3. PICK j \in Job : /\ j = [job[t] EXCEPT !.at = "tried", !.reply = job[t].cell]
                       /\ j.at = "tried" /\ j.second = job[t].second
                       /\ j.chosen = job[t].chosen /\ j.cell = job[t].cell
  <2>1. job[t].cell \in Cells /\ "tried" \in Trying /\ job[t].at \in Trying
    BY <1>1, <1>2 DEF Trying
  <2>2. [job[t] EXCEPT !.at = "tried", !.reply = job[t].cell] \in Job
    BY <1>2, <2>1, NextTrying
  <2> QED
    BY <1>2, <2>2
<1>4. PICK cell \in Cells, reply \in Cells : cell = job[t].cell /\ reply = job[t].reply
  BY <1>2
<1>5. ASSUME Undisturbed PROVE Remembers(j)' /\ Balanced("tried")'
  <2>1. /\ board' = [board EXCEPT ![reply] = NONE] /\ ai_drop_pos' = ai_drop_pos
        /\ current_is_black' = current_is_black
    BY <1>1, <1>4 DEF OnBoard
  <2>2. /\ Sane(job[t]) /\ current_is_black = FALSE /\ Balanced("replied")
        /\ board[reply] = BLACK_PIECE /\ board[cell] = WHITE_PIECE
    BY <1>1, <1>4, <1>5, RobotKnown DEF Robot, Thinking, Unsettled, Sane, Remembers
  <2>3. Remembers(j)'
    BY <1>1, <1>3, <1>4, <2>1, <2>2, Known DEF Sane, Remembers, Temporary, Trying
  <2>4. Balanced("tried")'
    <3>1. \A piece \in Pieces : /\ Count(piece) \in Nat
                               /\ Count(piece)' = Count(piece) + (IF NONE = piece THEN 1 ELSE 0)
                                                              - (IF BLACK_PIECE = piece THEN 1 ELSE 0)
      BY <2>1, <2>2, Known, Written
    <3> QED
      BY <2>1, <2>2, <3>1, AheadIs DEF Balanced
  <2> QED
    BY <2>3, <2>4
<1> QED
  BY <1>1, <1>3, <1>4, <1>5, OnBoardInv DEF Trying, Unsettled

LEMMA UndoInv == ASSUME IInv, NEW t \in Threads, Undo(t) PROVE IInv'
<1>1. job[t].at = "tried" /\ OnBoard(t, job[t].cell, NONE, [job[t] EXCEPT !.at = "score"])
  BY DEF Undo
<1>2. /\ job[t] \in [at : Trying, second : BOOLEAN, left : SUBSET Cells, chosen : BOOLEAN,
                     cell : Cells, reply : Cells]
      /\ job[t] \in Job
  BY <1>1, Known DEF Job, Trying
<1>3. PICK j \in Job : /\ j = [job[t] EXCEPT !.at = "score"] /\ j.at = "score"
                       /\ j.second = job[t].second /\ j.chosen = job[t].chosen
                       /\ j.cell = job[t].cell
  BY <1>1, <1>2, NextTrying DEF Trying
<1>4. PICK cell \in Cells : cell = job[t].cell
  BY <1>2
<1>5. ASSUME Undisturbed PROVE Remembers(j)' /\ Balanced("free")'
  <2>1. /\ board' = [board EXCEPT ![cell] = NONE] /\ ai_drop_pos' = ai_drop_pos
        /\ current_is_black' = current_is_black
    BY <1>1, <1>4 DEF OnBoard
  <2>2. /\ Sane(job[t]) /\ current_is_black = FALSE /\ Balanced("tried")
        /\ board[cell] = WHITE_PIECE
    BY <1>1, <1>4, <1>5, RobotKnown DEF Robot, Thinking, Unsettled, Sane, Remembers
  <2>3. Remembers(j)'
    BY <1>1, <1>3, <1>4, <2>1, <2>2, Known DEF Sane, Remembers, Temporary, Trying
  <2>4. Balanced("free")'
    <3>1. \A piece \in Pieces : /\ Count(piece) \in Nat
                               /\ Count(piece)' = Count(piece) + (IF NONE = piece THEN 1 ELSE 0)
                                                              - (IF WHITE_PIECE = piece THEN 1 ELSE 0)
      BY <2>1, <2>2, Known, Written
    <3> QED
      BY <2>1, <2>2, <3>1, AheadIs DEF Balanced
  <2> QED
    BY <2>3, <2>4
<1> QED
  BY <1>1, <1>3, <1>4, <1>5, OnBoardInv DEF Trying, Unsettled

LEMMA ScoreInv ==
    ASSUME IInv, NEW t \in Threads, NEW better \in BOOLEAN, Score(t, better)
    PROVE  IInv'
<1>1. /\ job[t].at = "score" /\ (better \/ job[t].chosen)
      /\ SearchOn(t, job[t].left) \/ SearchOn(t, {})
      /\ ai_drop_pos' = IF better THEN job[t].cell ELSE ai_drop_pos
      /\ UNCHANGED <<board, current_is_black, use_ai, is_ai_thinking, status, room, disturbances>>
  BY DEF Score
<1>2. /\ job[t] \in [at : Trying, second : BOOLEAN, left : SUBSET Cells, chosen : BOOLEAN,
                     cell : Cells, reply : Cells]
  BY <1>1, Known DEF Job, Trying
<1>3. PICK j \in Job : Jump(t, j) /\ j.at = "search" /\ j.second = job[t].second /\ j.chosen
  <2>1. PICK left \in SUBSET Cells : SearchOn(t, left)
    BY <1>1, <1>2
  <2> DEFINE new == [at |-> "search", second |-> job[t].second, left |-> left, chosen |-> TRUE]
  <2>2. new \in Job
    BY <1>2, MakeJobs
  <2> QED
    BY <2>1, <2>2 DEF SearchOn
<1>4. ASSUME Undisturbed
      PROVE  Sane(j)' /\ Balanced("free")' /\ \A line : Sees(j, line)
  <2>1. /\ Sane(job[t]) /\ use_ai /\ status = "NOT_END" /\ current_is_black = FALSE
        /\ Balanced("free") /\ ~j.second
    BY <1>1, <1>3, <1>4, RobotKnown
    DEF Robot, Thinking, Trying, Unsettled, Sane, MovesFirst
  <2>2. board'[ai_drop_pos'] = NONE
    BY <1>1, <2>1 DEF Sane, Remembers, Temporary, Trying
  <2>3. Sane(j)'
    BY <1>1, <1>3, <2>1, <2>2
    DEF Sane, InTime, Remembers, MovesFirst, Moved, Robot, Thinking, Trying
  <2>4. Balanced("free")'
    BY <1>1, <2>1, BoardKept DEF Balanced, Ahead
  <2> QED
    BY <1>3, <2>1, <2>3, <2>4 DEF Sees, Twice, Thinking
<1>5. ai_drop_pos' \in Cells
  BY <1>1, <1>2, Known
<1> QED
  BY <1>1, <1>3, <1>4, <1>5, Known, RobotInv DEF Robot, Thinking, Unsettled

\* The robot's drop.
LEMMA RobotWritesInv == ASSUME IInv, NEW t \in Threads, WritePiece(t) PROVE IInv'
<1>1. /\ job[t].at = "write" /\ job' = [job EXCEPT ![t].at = "flip"]
      /\ board' = [board EXCEPT ![job[t].cell] =
                      IF current_is_black THEN BLACK_PIECE ELSE WHITE_PIECE]
      /\ UNCHANGED <<current_is_black, use_ai, is_ai_thinking, ai_drop_pos, status>>
      /\ UNCHANGED <<room, disturbances>>
  BY DEF WritePiece
<1>2. job[t] \in [at : {"write", "flip"}, second : BOOLEAN, cell : Cells]
  BY <1>1, Known DEF Job
<1>3. PICK j \in Job : /\ Jump(t, j) /\ j.at = "flip" /\ j.second = job[t].second
  <2>1. [at |-> "flip", second |-> job[t].second, cell |-> job[t].cell] \in Job
    BY <1>2, MakeJobs
  <2>2. [job[t] EXCEPT !.at = "flip"] =
            [at |-> "flip", second |-> job[t].second, cell |-> job[t].cell]
    BY <1>2
  <2> QED
    BY <1>1, <2>1, <2>2 DEF Jump
<1>4. PICK cell \in Cells : cell = job[t].cell
  BY <1>2
<1>5. board' \in [Cells -> Pieces \cup {NONE}]
  BY <1>1, <1>4, Known, Written
<1>6. ASSUME Undisturbed
      PROVE  Sane(j)' /\ Balanced("flip")' /\ \A line : Sees(j, line)
  <2>1. /\ Sane(job[t]) /\ use_ai /\ status = "NOT_END" /\ current_is_black = FALSE
        /\ Balanced("free") /\ board[cell] = NONE /\ ~j.second
    BY <1>1, <1>3, <1>4, <1>6, RobotKnown
    DEF Robot, Thinking, Unsettled, Sane, MovesFirst, Remembers
  <2>2. board' = [board EXCEPT ![cell] = WHITE_PIECE]
    BY <1>1, <1>4, <2>1
  <2>3. Balanced("flip")'
    <3>1. \A piece \in Pieces : /\ Count(piece) \in Nat
                               /\ Count(piece)' = Count(piece) + (IF WHITE_PIECE = piece THEN 1 ELSE 0)
                                                              - (IF NONE = piece THEN 1 ELSE 0)
      BY <2>1, <2>2, Known, Written
    <3> QED
      BY <1>1, <2>1, <3>1, AheadIs DEF Balanced
  <2>4. Sane(j)'
    BY <1>1, <1>3, <2>1
    DEF Sane, InTime, Remembers, MovesFirst, Moved, Robot, Thinking, Trying
  <2> QED
    BY <1>3, <2>1, <2>3, <2>4 DEF Sees, Twice, Thinking
<1> QED
  BY <1>1, <1>3, <1>5, <1>6, Known, RobotInv DEF Robot, Thinking, Unsettled

LEMMA PassTurnBackInv == ASSUME IInv, NEW t \in Threads, PassTurnBack(t) PROVE IInv'
<1> DEFINE new == [at |-> "rest", second |-> job[t].second]
<1>1. /\ job[t].at = "flip" /\ Jump(t, new) /\ current_is_black' = ~current_is_black
      /\ UNCHANGED <<board, use_ai, is_ai_thinking, ai_drop_pos, status, room, disturbances>>
  BY DEF PassTurnBack, PassTurn
<1>2. job[t] \in Job /\ job[t].second \in BOOLEAN
  BY <1>1, Known, JobFields DEF Twice, Thinking
<1>3. PICK j \in Job : j = new /\ j.at = "rest" /\ j.second = job[t].second
  BY <1>2, MakeJobs
<1>4. ASSUME Undisturbed
      PROVE  Sane(j)' /\ Balanced("free")' /\ \A line : Sees(j, line)
  <2>1. /\ Sane(job[t]) /\ use_ai /\ status = "NOT_END" /\ current_is_black = FALSE
        /\ Balanced("flip") /\ ~j.second
    BY <1>1, <1>3, <1>4, RobotKnown DEF Robot, Thinking, Unsettled, Sane, MovesFirst
  <2>2. Sane(j)'
    BY <1>1, <1>3, <2>1
    DEF Sane, InTime, Remembers, MovesFirst, Moved, Robot, Thinking, Trying
  <2>3. Balanced("free")'
    BY <1>1, <2>1, BoardKept DEF Balanced, Ahead
  <2> QED
    BY <1>3, <2>1, <2>2, <2>3 DEF Sees, Twice, Thinking
<1> HIDE DEF new
<1> QED
  BY <1>1, <1>3, <1>4, Known, RobotInv DEF Robot, Thinking, Unsettled

LEMMA EndAIDropInv == ASSUME IInv, NEW t \in Threads, EndAIDrop(t) PROVE IInv'
<1>1. /\ job[t].at = "rest" /\ Jump(t, Return(job[t].second)) /\ is_ai_thinking' = FALSE
      /\ UNCHANGED <<board, current_is_black, use_ai, ai_drop_pos, status, room, disturbances>>
  BY DEF EndAIDrop
<1>2. job[t] \in Job /\ job[t].second \in BOOLEAN
  BY <1>1, Known, JobFields DEF Twice, Thinking
<1>3. PICK j \in Job : /\ j = Return(job[t].second)
                       /\ IF job[t].second THEN j.at = "status" ELSE j.at = "update"
  BY <1>2, MakeJobs DEF Return
<1>4. ASSUME Undisturbed
      PROVE  /\ Sane(j)'
             /\ Balanced("free")'
             /\ \A line \in Fives' : Sees(j, line) \/ (line \in Fives /\ ~Sees(job[t], line))
  <2>1. Sane(job[t]) /\ use_ai /\ status = "NOT_END" /\ Balanced("free")
    BY <1>1, <1>4, RobotKnown DEF Robot, Thinking, Unsettled
  <2>2. Sane(j)'
    BY <1>1, <1>3, <2>1, BoardKept
    DEF Sane, InTime, Remembers, MovesFirst, Moved, Stuck, Robot, Thinking, Trying, Twice
  <2>3. Balanced("free")'
    BY <1>1, <2>1, BoardKept DEF Balanced, Ahead
  <2> QED
    BY <1>1, <1>2, <1>3, <2>2, <2>3, BoardKept DEF Sees, Twice, Thinking
<1> QED
  BY <1>1, <1>3, <1>4, Known, RobotInv DEF Robot, Thinking, Unsettled

--------------------------------------------------------------------------------
\* While the loop is between a drop and the thread it detaches, nobody makes
\* the robot think, and in a game against the robot nobody else works.
LEMMA LoopKnown ==
    ASSUME IInv, Undisturbed, job[LOOP].at \in {"write", "flip"}
    PROVE  /\ InOrder
           /\ use_ai => status = "NOT_END"
           /\ \A s \in Threads :
                 /\ Sane(job[s]) /\ job[s].at \notin Robot \cup Unsettled
                 /\ use_ai => job[s].at \in {"free", "status", "over"}
<1>1. InOrder /\ LOOP \in Procs /\ LOOP \notin Threads
  BY DEF IInv, Procs
<1>2. use_ai => status = "NOT_END"
  BY <1>1 DEF InOrder, LoopIsSane
<1>3. ASSUME NEW s \in Threads
      PROVE  /\ Sane(job[s]) /\ job[s].at \notin Robot \cup Unsettled
             /\ use_ai => job[s].at \in {"free", "status", "over"}
  <2>1. use_ai => job[s].at \in {"free", "status", "over"}
    BY <1>1, Alone DEF Works, Procs
  <2>2. Sane(job[s])
    BY <1>1 DEF InOrder
  <2>3. job[s].at \in Robot => use_ai
    BY <2>2 DEF Sane, InTime
  <2> QED
    BY <2>1, <2>2, <2>3 DEF Robot, Thinking, Unsettled
<1> QED
  BY <1>1, <1>2, <1>3

\* What the loop changes leaves the jobs of the threads in order.
LEMMA SaneStays ==
    ASSUME NEW j \in Job, Sane(j), j.at \notin Robot, UNCHANGED <<use_ai, status>>,
           use_ai => j.at \in {"free", "status", "over"},
           \A piece \in Pieces : HasFive(piece) => HasFive(piece)'
    PROVE  Sane(j)'
<1>1. j.at = "found" => j.piece \in Pieces
  BY JobFields
<1> QED
  BY <1>1 DEF Sane, InTime, Remembers, MovesFirst, Moved, Robot, Thinking, Trying, Twice

\* A player's drop passes the tests.  Against the robot, and with no thread
\* disturbed, the loop is then the only one at work.
LEMMA DropInv ==
    ASSUME IInv, NEW cell \in Cells, NEW i \in {0, 1}, Drop(cell, i)
    PROVE  IInv'
<1>1. /\ job[LOOP] = FREE /\ board[cell] = NONE /\ status = "NOT_END"
      /\ job' = [job EXCEPT ![LOOP] = [at |-> "write", cell |-> cell]]
      /\ Disturbs => disturbances < MaxDisturbances
      /\ disturbances' = IF Disturbs THEN disturbances + 1 ELSE disturbances
      /\ UNCHANGED <<board, current_is_black, use_ai, is_ai_thinking, ai_drop_pos, status>>
      /\ UNCHANGED <<is_black, is_game_on, size>>
  BY DEF Drop, CanDrop, Jump, game, room
<1>2. /\ job'[LOOP] = [at |-> "write", cell |-> cell] /\ DOMAIN job' = Procs
      /\ \A t \in Threads : job'[t] = job[t]
  BY <1>1 DEF IInv, TypeOK, Procs
<1>3. TypeOK'
  BY <1>1, <1>2 DEF IInv, TypeOK
<1>4. ThinkingEnds' /\ GameIsStaffed'
  BY <1>1, <1>2 DEF IInv, ThinkingEnds, GameIsStaffed
<1>5. WinnerHasFive'
  BY <1>1 DEF WinnerHasFive
<1>6. ASSUME Undisturbed' PROVE InOrder'
  <2>1. Undisturbed /\ ~Disturbs
    BY <1>1, <1>6 DEF IInv, TypeOK, Undisturbed
  <2>2. InOrder
    BY <2>1 DEF IInv
  <2>3. use_ai => \A t \in Threads : ~Works(job[t])
    BY <2>1 DEF Disturbs, Busy, Works
  <2>4. StillOn' /\ AnswerIsDue'
    BY <1>1, <2>2 DEF InOrder, StillOn, AnswerIsDue
  <2>5. \A s \in Threads : Sane(job[s])'
    <3> SUFFICES ASSUME NEW s \in Threads, NEW k, job'[s] = k PROVE Sane(k)'
      BY SaneNext
    <3>1. Sane(k)
      BY <1>2, <2>2 DEF InOrder
    <3> QED
      BY <1>1, <3>1, BoardKept DEF Sane, InTime, Remembers, MovesFirst, Stuck
  <2>6. LoopIsSane'
    BY <1>1, <1>2 DEF LoopIsSane
  <2>7. OneWorks'
    BY <1>1, <1>2, <2>3 DEF OneWorks, Procs
  <2>8. Balance'
    <3>1. \A label : Balanced(label)' = Balanced(label)
      BY <1>1, BoardKept DEF Balanced, Ahead
    <3>2. Settled' = Settled
      BY <1>1, <1>2 DEF Settled, Procs, FREE
    <3> QED
      BY <1>1, <1>2, <2>2, <3>1, <3>2 DEF InOrder, Balance, Procs, FREE, Unsettled
  <2>9. FiveIsYetSeen'
    BY <1>1, <1>2, <2>2, BoardKept DEF InOrder, FiveIsYetSeen, FREE, Sees
  <2> QED
    BY <2>4, <2>5, <2>6, <2>7, <2>8, <2>9 DEF InOrder
<1> QED
  BY <1>3, <1>4, <1>5, <1>6 DEF IInv

\* The player's piece is put down on a cell that is still empty, unless a
\* thread is disturbed.
LEMMA LoopWritesInv == ASSUME IInv, WritePiece(LOOP) PROVE IInv'
<1>1. PICK cell \in Cells, now \in Pieces :
        /\ job[LOOP] = [at |-> "write", cell |-> cell]
        /\ now = (IF current_is_black THEN BLACK_PIECE ELSE WHITE_PIECE)
        /\ board' = [board EXCEPT ![cell] = now]
        /\ job' = [job EXCEPT ![LOOP].at = "flip"]
        /\ UNCHANGED <<current_is_black, use_ai, is_ai_thinking, ai_drop_pos, status>>
        /\ UNCHANGED <<is_black, is_game_on, size, disturbances>>
  <2>1. job[LOOP].at = "write" /\ job[LOOP] \in [at : {"write", "flip"}, cell : Cells]
    BY DEF WritePiece, IInv, TypeOK, FREE
  <2>2. PICK cell \in Cells : job[LOOP] = [at |-> "write", cell |-> cell]
    BY <2>1
  <2>3. /\ board' = [board EXCEPT ![job[LOOP].cell] =
                        IF current_is_black THEN BLACK_PIECE ELSE WHITE_PIECE]
        /\ job' = [job EXCEPT ![LOOP].at = "flip"]
        /\ UNCHANGED <<current_is_black, use_ai, is_ai_thinking, ai_drop_pos, status>>
        /\ UNCHANGED <<is_black, is_game_on, size, disturbances>>
    BY DEF WritePiece, room
  <2>4. job[LOOP].cell = cell
    BY <2>2
  <2>5. (IF current_is_black THEN BLACK_PIECE ELSE WHITE_PIECE) \in Pieces
    OBVIOUS
  <2> QED
    BY <2>2, <2>3, <2>4, <2>5
<1>2. /\ job'[LOOP] = [at |-> "flip", cell |-> cell] /\ DOMAIN job' = Procs
      /\ \A t \in Threads : job'[t] = job[t]
  BY <1>1 DEF IInv, TypeOK, Procs
<1>3. board \in [Cells -> Pieces \cup {NONE}] /\ board' \in [Cells -> Pieces \cup {NONE}]
  BY <1>1 DEF IInv, TypeOK
<1>4. TypeOK'
  BY <1>1, <1>2, <1>3 DEF IInv, TypeOK
<1>5. ThinkingEnds' /\ GameIsStaffed'
  BY <1>1, <1>2 DEF IInv, ThinkingEnds, GameIsStaffed
<1>6. ASSUME Undisturbed' PROVE InOrder' /\ WinnerHasFive'
  <2>1. Undisturbed
    BY <1>1, <1>6 DEF Undisturbed
  <2>2. /\ InOrder
        /\ use_ai => status = "NOT_END"
        /\ \A s \in Threads :
              /\ Sane(job[s]) /\ job[s].at \notin Robot \cup Unsettled
              /\ use_ai => job[s].at \in {"free", "status", "over"}
    BY <1>1, <2>1, LoopKnown
  <2>3. board[cell] = NONE
    BY <1>1, <2>2 DEF InOrder, LoopIsSane
  <2>4. \A piece \in Pieces : HasFive(piece) => HasFive(piece)'
    BY <1>1, <1>3, <2>3, FivesStay
  <2>5. WinnerHasFive'
    BY <1>1, <2>1, <2>4 DEF IInv, WinnerHasFive
  <2>6. StillOn'
    BY <1>1, <2>2 DEF InOrder, StillOn
  <2>7. \A s \in Threads : Sane(job[s])'
    <3> SUFFICES ASSUME NEW s \in Threads, NEW k, job'[s] = k PROVE Sane(k)'
      BY SaneNext
    <3>1. /\ k \in Job /\ Sane(k) /\ k.at \notin Robot
          /\ use_ai => k.at \in {"free", "status", "over"}
      BY <1>2, <2>2, Known
    <3> QED
      BY <1>1, <2>4, <3>1, SaneStays
  <2>8. LoopIsSane'
    BY <1>1, <1>2, <2>2 DEF LoopIsSane
  <2>9. OneWorks'
    BY <1>1, <1>2, <2>2 DEF OneWorks, Works, Procs
  <2>10. Balance'
    <3>1. Settled
      BY <1>1, <2>2 DEF Settled, Unsettled, Procs
    <3>2. Balanced("free")
      BY <2>2, <3>1 DEF InOrder, Balance
    <3>3. \A piece \in Pieces : /\ Count(piece) \in Nat
                               /\ Count(piece)' = Count(piece) + (IF now = piece THEN 1 ELSE 0)
                                                              - (IF NONE = piece THEN 1 ELSE 0)
      BY <1>1, <1>3, <2>3, Written
    <3>4. Balanced("flip")'
      BY <1>1, <3>2, <3>3, AheadIs, Known DEF Balanced
    <3>5. ~Settled'
      BY <1>2 DEF Settled, Procs
    <3>6. ASSUME NEW p \in Procs, job'[p].at \in Unsettled PROVE job'[p].at = "flip"
      BY <1>2, <2>2, <3>6 DEF Procs
    <3>7. ASSUME NEW p \in Procs, job'[p].at = "flip" PROVE Balanced(job[p].at)'
      BY <3>4, <3>7 DEF Balanced, Ahead
    <3> QED
      BY <3>5, <3>6, <3>7 DEF Balance
  <2>11. FiveIsYetSeen'
    BY <1>2 DEF FiveIsYetSeen
  <2>12. AnswerIsDue'
    BY <1>1, <1>2, <2>2 DEF InOrder, AnswerIsDue
  <2> QED
    BY <2>5, <2>6, <2>7, <2>8, <2>9, <2>10, <2>11, <2>12 DEF InOrder
<1>7. WinnerHasFive'
  BY <1>6 DEF WinnerHasFive
<1> QED
  BY <1>4, <1>5, <1>6, <1>7 DEF IInv

LEMMA DetachInv == ASSUME IInv, NEW t \in Threads, Detach(t) PROVE IInv'
<1>1. /\ job[LOOP].at = "flip" /\ job[t] = FREE /\ current_is_black' = ~current_is_black
      /\ job' = [job EXCEPT ![LOOP] = FREE, ![t] = [at |-> "size"]]
      /\ UNCHANGED <<board, use_ai, is_ai_thinking, ai_drop_pos, status>>
      /\ UNCHANGED <<is_black, is_game_on, size, disturbances>>
  BY DEF Detach, PassTurn, room
<1>2. /\ job'[LOOP] = FREE /\ job'[t] = [at |-> "size"] /\ DOMAIN job' = Procs
      /\ \A s \in Threads \ {t} : job'[s] = job[s]
  BY <1>1 DEF IInv, TypeOK, Procs
<1>3. TypeOK'
  BY <1>1, <1>2, MakeJobs DEF IInv, TypeOK
<1>4. ThinkingEnds' /\ GameIsStaffed'
  <2>1. ASSUME NEW s \in Threads, job[s].at \in Thinking PROVE job'[s].at \in Thinking
    <3>1. s # t
      BY <1>1, <2>1 DEF FREE, Thinking
    <3> QED
      BY <1>2, <2>1, <3>1
  <2> QED
    BY <1>1, <2>1 DEF IInv, ThinkingEnds, GameIsStaffed
<1>5. WinnerHasFive'
  BY <1>1, BoardKept DEF IInv, WinnerHasFive, Undisturbed
<1>6. ASSUME Undisturbed' PROVE InOrder'
  <2>1. Undisturbed
    BY <1>1, <1>6 DEF Undisturbed
  <2>2. /\ InOrder
        /\ use_ai => status = "NOT_END"
        /\ \A s \in Threads :
              /\ Sane(job[s]) /\ job[s].at \notin Robot \cup Unsettled
              /\ use_ai => job[s].at \in {"free", "status", "over"}
    BY <1>1, <2>1, LoopKnown
  <2>3. StillOn'
    BY <1>1, <2>2 DEF InOrder, StillOn
  <2>4. \A s \in Threads : Sane(job[s])'
    <3> SUFFICES ASSUME NEW s \in Threads, NEW k, job'[s] = k PROVE Sane(k)'
      BY SaneNext
    <3>1. CASE s = t
      BY <1>1, <1>2, <2>2, <3>1
      DEF Sane, InTime, Remembers, MovesFirst, Moved, Robot, Thinking, Trying, Twice
    <3>2. CASE s # t
      <4>1. /\ k \in Job /\ Sane(k) /\ k.at \notin Robot
            /\ use_ai => k.at \in {"free", "status", "over"}
        BY <1>2, <2>2, <3>2, Known
      <4> QED
        BY <1>1, <4>1, SaneStays, BoardKept
    <3> QED
      BY <3>1, <3>2
  <2>5. LoopIsSane'
    BY <1>2 DEF LoopIsSane, FREE
  <2>6. OneWorks'
    BY <1>1, <1>2, <2>2 DEF OneWorks, Works, Procs, FREE
  <2>7. Balance'
    <3>1. Balanced("flip")
      BY <1>1, <2>2 DEF InOrder, Balance, Procs, Unsettled
    <3>2. Balanced("free")'
      BY <1>1, <3>1, BoardKept, Known DEF Balanced, Ahead
    <3>3. \A p \in Procs : job'[p].at \notin Unsettled
      BY <1>2, <2>2 DEF Procs, FREE, Unsettled
    <3> QED
      BY <3>2, <3>3 DEF Balance
  <2>8. FiveIsYetSeen'
    BY <1>2 DEF FiveIsYetSeen, Sees
  <2>9. AnswerIsDue'
    BY <1>2 DEF AnswerIsDue
  <2> QED
    BY <2>3, <2>4, <2>5, <2>6, <2>7, <2>8, <2>9 DEF InOrder
<1> QED
  BY <1>3, <1>4, <1>5, <1>6 DEF IInv

\* A result is set by a thread that has come across a five.
LEMMA SetStatusInv == ASSUME IInv, NEW t \in Threads, SetStatus(t) PROVE IInv'
<1> DEFINE new == [at |-> "scan", second |-> job[t].second, todo |-> job[t].todo]
<1>1. /\ job[t].at = "found" /\ job' = [job EXCEPT ![t] = new]
      /\ status' = (IF job[t].piece = WHITE_PIECE THEN "WHITE_WIN" ELSE "BLACK_WIN")
      /\ UNCHANGED <<board, current_is_black, use_ai, is_ai_thinking, ai_drop_pos>>
      /\ UNCHANGED <<is_black, is_game_on, size, disturbances>>
  BY DEF SetStatus, Jump, room
<1>2. PICK j \in Job : j = new /\ j.at = "scan"
  <2>1. job[t].second \in BOOLEAN /\ job[t].todo \in SUBSET Lines
    BY <1>1, Known, JobFields DEF Twice
  <2> HIDE DEF new
  <2>2. new \in Job /\ new.at = "scan"
    BY <2>1, MakeJobs DEF new
  <2> QED
    BY <2>2
<1> HIDE DEF new
<1>3. /\ job'[t] = j /\ DOMAIN job' = Procs /\ job'[LOOP] = job[LOOP]
      /\ \A p \in Procs \ {t} : job'[p] = job[p]
  BY <1>1, <1>2 DEF IInv, TypeOK, Procs
<1>4. TypeOK'
  BY <1>1, <1>2, <1>3 DEF IInv, TypeOK, Procs
<1>5. ThinkingEnds' /\ GameIsStaffed'
  <2>1. ASSUME NEW s \in Threads, job[s].at \in Thinking PROVE job'[s].at \in Thinking
    <3>1. s # t
      BY <1>1, <2>1 DEF Thinking
    <3> QED
      BY <1>3, <2>1, <3>1 DEF Procs
  <2> QED
    BY <1>1, <2>1 DEF IInv, ThinkingEnds, GameIsStaffed
<1>6. ASSUME Undisturbed' PROVE InOrder' /\ WinnerHasFive'
  <2>1. Undisturbed /\ t \in Procs /\ Works(job[t]) /\ LOOP # t
    BY <1>1, <1>6 DEF Undisturbed, Procs, Works
  <2>2. InOrder
    BY <2>1 DEF IInv
  <2>3. \A p \in Procs \ {t} : use_ai => job[p].at \in {"free", "status", "over"}
    BY <2>1, Alone
  <2>4. HasFive(job[t].piece) /\ job[t].piece \in Pieces
    BY <1>1, <2>1, Known, JobFields DEF Sane, InTime
  <2>5. WinnerHasFive'
    BY <1>1, <2>4, BoardKept DEF WinnerHasFive
  <2>6. status' # "NOT_END"
    BY <1>1
  <2>7. StillOn' /\ FiveIsYetSeen'
    BY <2>6 DEF StillOn, FiveIsYetSeen
  <2>8. \A s \in Threads : Sane(job[s])'
    <3> SUFFICES ASSUME NEW s \in Threads, NEW k, job'[s] = k PROVE Sane(k)'
      BY SaneNext
    <3>1. CASE s = t
      BY <1>2, <1>3, <2>6, <3>1
      DEF Sane, InTime, Remembers, MovesFirst, Robot, Thinking, Trying
    <3>2. CASE s # t
      <4>1. Sane(k) /\ k \in Job /\ (use_ai => k.at \in {"free", "status", "over"})
        BY <1>3, <2>1, <2>2, <2>3, <3>2, Known DEF Procs
      <4>2. k.at \notin Robot
        BY <4>1 DEF Sane, InTime, Robot, Thinking
      <4> QED
        BY <1>1, <2>6, <4>1, <4>2, BoardKept
        DEF Sane, InTime, Remembers, MovesFirst, Robot, Thinking, Trying
    <3> QED
      BY <3>1, <3>2
  <2>9. LoopIsSane'
    BY <1>1, <1>3, <2>1, <2>2, <2>3 DEF InOrder, LoopIsSane, Procs
  <2>10. OneWorks'
    BY <1>1, <1>3, <2>1, <2>3 DEF OneWorks, Works
  <2>11. Balance'
    <3>1. \A label : Balanced(label)' = Balanced(label)
      BY <1>1, BoardKept DEF Balanced, Ahead
    <3>2. Settled' = Settled
      BY <1>1, <1>2, <1>3, <2>1 DEF Settled
    <3> QED
      BY <1>2, <1>3, <2>2, <3>1, <3>2 DEF InOrder, Balance, Unsettled
  <2>12. AnswerIsDue'
    BY <1>2, <1>3 DEF AnswerIsDue
  <2> QED
    BY <2>5, <2>7, <2>8, <2>9, <2>10, <2>11, <2>12 DEF InOrder
<1>7. WinnerHasFive'
  BY <1>6 DEF WinnerHasFive
<1> QED
  BY <1>4, <1>5, <1>6, <1>7 DEF IInv

\* The game ends: it has its result, unless a thread is disturbed.
LEMMA EndGameInv == ASSUME IInv, NEW t \in Threads, EndGame(t) PROVE IInv'
<1>1. /\ job[t].at = "over" /\ job' = [job EXCEPT ![t] = FREE] /\ is_game_on' = FALSE
      /\ UNCHANGED <<board, current_is_black, use_ai, is_ai_thinking, ai_drop_pos, status>>
      /\ UNCHANGED <<is_black, size, disturbances>>
  BY DEF EndGame, Jump, game
<1>2. FREE \in Job /\ FREE.at = "free"
  BY MakeJobs DEF FREE
<1>3. /\ job'[t] = FREE /\ DOMAIN job' = Procs /\ job'[LOOP] = job[LOOP]
      /\ \A p \in Procs \ {t} : job'[p] = job[p]
  BY <1>1 DEF IInv, TypeOK, Procs
<1>4. TypeOK'
  BY <1>1, <1>2, <1>3 DEF IInv, TypeOK, Procs
<1>5. ThinkingEnds' /\ GameIsStaffed'
  <2>1. ASSUME NEW s \in Threads, job[s].at \in Thinking PROVE job'[s].at \in Thinking
    <3>1. s # t
      BY <1>1, <2>1 DEF Thinking
    <3> QED
      BY <1>3, <2>1, <3>1 DEF Procs
  <2> QED
    BY <1>1, <2>1 DEF IInv, ThinkingEnds, GameIsStaffed
<1>6. WinnerHasFive'
  BY <1>1, BoardKept DEF IInv, WinnerHasFive, Undisturbed
<1>7. ASSUME Undisturbed' PROVE InOrder'
  <2>1. Undisturbed /\ t \in Procs /\ LOOP # t
    BY <1>1, <1>7 DEF Undisturbed, Procs
  <2>2. InOrder /\ status # "NOT_END"
    BY <1>1, <2>1, Known DEF Sane, InTime
  <2>3. StillOn' /\ FiveIsYetSeen' /\ AnswerIsDue'
    BY <1>1, <2>2 DEF StillOn, FiveIsYetSeen, AnswerIsDue
  <2>4. \A s \in Threads : Sane(job[s])'
    <3> SUFFICES ASSUME NEW s \in Threads, NEW k, job'[s] = k PROVE Sane(k)'
      BY SaneNext
    <3>1. Sane(k)
      <4>1. CASE s = t
        BY <1>2, <1>3, <4>1
        DEF Sane, InTime, Remembers, MovesFirst, Moved, Robot, Thinking, Trying, Twice
      <4>2. CASE s # t
        BY <1>3, <2>2, <4>2 DEF InOrder, Procs
      <4> QED
        BY <4>1, <4>2
    <3> QED
      BY <1>1, <3>1, BoardKept DEF Sane, InTime, Remembers, MovesFirst, Stuck
  <2>5. LoopIsSane'
    BY <1>1, <1>3, <2>2 DEF InOrder, LoopIsSane
  <2>6. OneWorks'
    BY <1>1, <1>2, <1>3, <2>2 DEF InOrder, OneWorks, Works
  <2>7. Balance'
    <3>1. \A label : Balanced(label)' = Balanced(label)
      BY <1>1, BoardKept DEF Balanced, Ahead
    <3>2. Settled' = Settled
      BY <1>1, <1>2, <1>3, <2>1 DEF Settled
    <3> QED
      BY <1>2, <1>3, <2>2, <3>1, <3>2 DEF InOrder, Balance, Unsettled
  <2> QED
    BY <2>3, <2>4, <2>5, <2>6, <2>7 DEF InOrder
<1> QED
  BY <1>4, <1>5, <1>6, <1>7 DEF IInv

--------------------------------------------------------------------------------
\* Between games seats come and go, and nothing else changes.
LEMMA SeatsInv == IInv /\ (Join \/ Leave) => IInv'
<1> SUFFICES ASSUME IInv, Join \/ Leave PROVE IInv'
  OBVIOUS
<1>1. /\ UNCHANGED <<board, current_is_black, use_ai, is_ai_thinking, ai_drop_pos, status>>
      /\ UNCHANGED <<is_black, is_game_on, job, disturbances>> /\ ~is_game_on
      /\ size' \in 1..MaxSeats
  BY DEF IInv, TypeOK, Join, Leave, game
<1>2. TypeOK'
  BY <1>1 DEF IInv, TypeOK
<1>3. ThinkingEnds' /\ GameIsStaffed'
  BY <1>1 DEF IInv, ThinkingEnds, GameIsStaffed
<1>4. WinnerHasFive'
  BY <1>1, BoardKept DEF IInv, WinnerHasFive, Undisturbed
<1>5. ASSUME Undisturbed' PROVE InOrder'
  <2>1. InOrder
    BY <1>1, <1>5 DEF IInv, Undisturbed
  <2>2. StillOn' /\ LoopIsSane' /\ OneWorks' /\ AnswerIsDue'
    BY <1>1, <2>1 DEF InOrder, StillOn, LoopIsSane, OneWorks, AnswerIsDue
  <2>3. \A s \in Threads : Sane(job[s])'
    BY <1>1, <2>1, BoardKept
    DEF InOrder, Sane, InTime, Remembers, MovesFirst, Moved, Stuck, Temporary
  <2>4. Balance'
    BY <1>1, <2>1, BoardKept DEF InOrder, Balance, Settled, Balanced, Ahead
  <2>5. FiveIsYetSeen'
    BY <1>1, <2>1, BoardKept DEF InOrder, FiveIsYetSeen, Sees
  <2> QED
    BY <2>1, <2>2, <2>3, <2>4, <2>5 DEF InOrder
<1> QED
  BY <1>2, <1>3, <1>4, <1>5 DEF IInv

\* With an empty board, no result and no jobs all is in order.
IsFresh ==
    /\ board = EmptyBoard /\ current_is_black = TRUE /\ status = "NOT_END"
    /\ \A p \in Procs : job[p] = FREE
    /\ StillOn

LEMMA Fresh == IsFresh => InOrder
<1> SUFFICES ASSUME IsFresh PROVE InOrder
  OBVIOUS
<1> USE DEF IsFresh
<1>1. Fives = {} /\ Count(BLACK_PIECE) = 0 /\ Count(WHITE_PIECE) = 0
  BY EmptyHasNoFive
<1>2. \A t \in Threads : Sane(job[t])
  BY DEF Procs, Sane, InTime, Remembers, MovesFirst, Moved, FREE, Robot, Thinking, Trying, Twice
<1>3. LoopIsSane /\ OneWorks
  BY DEF Procs, LoopIsSane, OneWorks, Works, FREE
<1>4. Balance
  <2>1. Balanced("free")
    BY <1>1 DEF Balanced, Ahead
  <2> QED
    BY <2>1 DEF Balance, Unsettled, FREE
<1>5. FiveIsYetSeen /\ AnswerIsDue
  BY <1>1 DEF FiveIsYetSeen, AnswerIsDue
<1> QED
  BY <1>2, <1>3, <1>4, <1>5 DEF InOrder

LEMMA FreshNext == IsFresh' => InOrder'
BY Fresh, PTL

\* The invariant holds in the beginning.
LEMMA InitInv == Init => IInv
<1> SUFFICES ASSUME Init PROVE IInv
  OBVIOUS
<1>1. TypeOK
  <2>1. board \in [Cells -> Pieces \cup {NONE}] /\ ai_drop_pos \in Cells
    BY Board DEF Init, EmptyBoard
  <2>2. DOMAIN job = Procs /\ job[LOOP] = FREE /\ \A t \in Threads : job[t] = FREE
    BY DEF Init, Procs
  <2>3. FREE \in Job
    BY MakeJobs DEF FREE
  <2>4. /\ is_black \in [{0, 1} -> BOOLEAN] /\ size \in 1..MaxSeats
        /\ disturbances \in 0..MaxDisturbances
    BY DEF Init
  <2>5. /\ {current_is_black, use_ai, is_ai_thinking, is_game_on} \subseteq BOOLEAN
        /\ status \in {"NOT_END", "BLACK_WIN", "WHITE_WIN"}
    BY DEF Init
  <2>6. job[LOOP] \in {FREE} \cup [at : {"write", "flip"}, cell : Cells]
    BY <2>2
  <2>7. \A t \in Threads : job[t] \in Job
    BY <2>2, <2>3
  <2> QED
    BY <2>1, <2>2, <2>4, <2>5, <2>6, <2>7 DEF TypeOK
<1>2. InOrder
  BY Fresh DEF Init, IsFresh, StillOn
<1> QED
  BY <1>1, <1>2 DEF IInv, Init, ThinkingEnds, GameIsStaffed, WinnerHasFive

\* A new game has an empty board and no result; threads that have not ended are
\* disturbed by it.
LEMMA StartInv == IInv /\ OnEveryonePrepared => IInv'
<1> SUFFICES ASSUME IInv, OnEveryonePrepared PROVE IInv'
  OBVIOUS
<1>1. /\ board' = EmptyBoard /\ current_is_black' = TRUE /\ is_ai_thinking' = FALSE
      /\ status' = "NOT_END" /\ is_game_on' = TRUE /\ use_ai' = (size = 1)
      /\ Quiet \/ disturbances < MaxDisturbances
      /\ disturbances' = (IF Quiet THEN 0 ELSE disturbances + 1)
      /\ UNCHANGED <<ai_drop_pos, size, job>>
      /\ is_black' = IF size = 1 THEN [is_black EXCEPT ![0] = TRUE]
                     ELSE [i \in {0, 1} |-> i = 1]
  BY DEF OnEveryonePrepared, Clear
<1>2. TypeOK'
  <2>1. board' \in [Cells -> Pieces \cup {NONE}]
    BY <1>1 DEF EmptyBoard
  <2>2. is_black' \in [{0, 1} -> BOOLEAN]
    BY <1>1 DEF IInv, TypeOK
  <2>3. disturbances' \in 0..MaxDisturbances
    BY <1>1 DEF IInv, TypeOK
  <2> QED
    BY <1>1, <2>1, <2>2, <2>3 DEF IInv, TypeOK
<1>3. ThinkingEnds' /\ GameIsStaffed' /\ WinnerHasFive'
  BY <1>1 DEF ThinkingEnds, GameIsStaffed, WinnerHasFive
<1>4. ASSUME Undisturbed' PROVE InOrder'
  <2>1. Quiet
    BY <1>1, <1>4 DEF IInv, TypeOK, Undisturbed
  <2>2. \A p \in Procs : job'[p] = FREE
    BY <1>1, <2>1 DEF Quiet
  <2>3. StillOn'
    BY <1>1 DEF StillOn
  <2> QED
    BY <1>1, <2>2, <2>3, FreshNext DEF IsFresh
<1> QED
  BY <1>2, <1>3, <1>4 DEF IInv

\* Every step preserves the invariant.
LEMMA NextInv == IInv /\ [Next]_vars => IInv'
<1> SUFFICES ASSUME IInv, [Next]_vars PROVE IInv'
  OBVIOUS
<1>1. CASE Join \/ Leave
  BY <1>1, SeatsInv
<1>2. CASE OnEveryonePrepared
  BY <1>2, StartInv
<1>3. ASSUME NEW cell \in Cells, NEW i \in {0, 1}, Drop(cell, i) PROVE IInv'
  BY <1>3, DropInv
<1>4. ASSUME NEW p \in Procs, WritePiece(p) PROVE IInv'
  BY <1>4, LoopWritesInv, RobotWritesInv DEF Procs
<1>5. ASSUME NEW t \in Threads, Scan(t) PROVE IInv'
  BY <1>5, BeginUpdateInv, SeeFiveInv, SetStatusInv, MissFiveInv, EndScanInv, AskTurnInv
  DEF Scan
<1>6. ASSUME NEW t \in Threads, Search(t) PROVE IInv'
  BY <1>6, BeginAIDropInv, VisitInv, VisitReplyInv, TryInv, TryReplyInv, UndoReplyInv, UndoInv,
     ScoreInv, EndSearchInv, PassTurnBackInv, EndAIDropInv
  DEF Search
<1>7. ASSUME NEW t \in Threads, Detach(t) \/ CheckSize(t) \/ ReadStatus(t) \/ EndGame(t)
      PROVE  IInv'
  BY <1>7, DetachInv, CheckSizeInv, ReadStatusInv, EndGameInv
<1>8. CASE UNCHANGED vars
  <2>1. /\ UNCHANGED <<board, current_is_black, use_ai, is_ai_thinking, ai_drop_pos, status>>
        /\ UNCHANGED <<is_black, is_game_on, size, job, disturbances>>
    BY <1>8 DEF vars, game, room
  <2>2. TypeOK' /\ ThinkingEnds' /\ GameIsStaffed'
    BY <2>1 DEF IInv, TypeOK, ThinkingEnds, GameIsStaffed
  <2>3. WinnerHasFive' /\ Undisturbed' = Undisturbed
    BY <2>1, BoardKept DEF IInv, WinnerHasFive, Undisturbed
  <2>4. Undisturbed => InOrder'
    <3> SUFFICES ASSUME InOrder PROVE InOrder'
      BY DEF IInv
    <3>1. StillOn' /\ LoopIsSane' /\ OneWorks' /\ AnswerIsDue'
      BY <2>1 DEF InOrder, StillOn, LoopIsSane, OneWorks, AnswerIsDue
    <3>2. \A s \in Threads : Sane(job[s])'
      BY <2>1, BoardKept DEF InOrder, Sane, InTime, Remembers, MovesFirst, Moved, Stuck, Temporary
    <3>3. Balance'
      BY <2>1, BoardKept DEF InOrder, Balance, Settled, Balanced, Ahead
    <3>4. FiveIsYetSeen'
      BY <2>1, BoardKept DEF InOrder, FiveIsYetSeen, Sees
    <3> QED
      BY <3>1, <3>2, <3>3, <3>4 DEF InOrder
  <2> QED
    BY <2>2, <2>3, <2>4 DEF IInv
<1> QED
  BY <1>1, <1>2, <1>3, <1>4, <1>5, <1>6, <1>7, <1>8 DEF Next

--------------------------------------------------------------------------------
\* The inductive invariant holds in every reachable state: what the threads are
\* yet to see and to do for the game they belong to, what a search knows of the
\* board, and what it has put there.
THEOREM Inductive == Spec => []IInv
<1> QED
  BY InitInv, NextInv, PTL DEF Spec

\* Game, room and threads keep their types, whatever happens: the robot drops
\* on the board.
THEOREM TypeCorrect == Spec => []TypeOK
<1>1. IInv => TypeOK
  BY DEF IInv
<1> QED
  BY <1>1, Inductive, PTL

\* No side moves twice, no piece is lost, and none of those that the robot tries
\* out stays, although thread and loop share the board without a lock, as long
\* as no thread is disturbed.
THEOREM SidesAlternate == Spec => []PiecesAlternate
<1>1. IInv => PiecesAlternate
  <2> SUFFICES ASSUME IInv, Undisturbed, Settled
               PROVE  Count(BLACK_PIECE) = Count(WHITE_PIECE) + (IF current_is_black THEN 0 ELSE 1)
    BY DEF PiecesAlternate
  <2>1. Balanced("free")
    BY DEF IInv, InOrder, Balance
  <2> QED
    BY <2>1 DEF Balanced, Ahead
<1> QED
  BY <1>1, Inductive, PTL

\* The result is the result of the game on the board, not of the pieces a
\* search puts there and takes back, although the scan holds no lock, as long
\* as no thread is disturbed.
THEOREM ResultsAreTrue == Spec => []WinnerHasFive
<1>1. IInv => WinnerHasFive
  BY DEF IInv
<1> QED
  BY <1>1, Inductive, PTL

\* The flag never locks black out for good, whatever disturbs the threads.
THEOREM NobodyIsLockedOut == Spec => []ThinkingEnds
<1>1. IInv => ThinkingEnds
  BY DEF IInv
<1> QED
  BY <1>1, Inductive, PTL

\* When the threads have ended a decided game has its result, and is over, as
\* long as no thread was disturbed.
THEOREM FivesAreAnnounced == Spec => []DecidedIsAnnounced
<1>1. IInv => DecidedIsAnnounced
  <2> SUFFICES ASSUME IInv, Undisturbed, Quiet, Decided
               PROVE  status # "NOT_END" /\ ~is_game_on
    BY DEF DecidedIsAnnounced
  <2>1. InOrder /\ \A p \in Procs : job[p].at = "free"
    BY DEF IInv, Quiet, FREE
  <2>2. PICK line \in Fives : TRUE
    BY DEF Decided, HasFive, Fives
  <2>3. \A t \in Threads : ~Sees(job[t], line)
    BY <2>1 DEF Sees, Procs, Twice, Thinking
  <2>4. status # "NOT_END"
    BY <2>1, <2>3 DEF InOrder, FiveIsYetSeen, Procs
  <2> QED
    BY <2>1, <2>4 DEF InOrder, AnswerIsDue, Procs
<1> QED
  BY <1>1, Inductive, PTL

================================================================================
