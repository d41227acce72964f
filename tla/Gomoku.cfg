\* A board of four cells in a row, on which two in a row win; two threads and
\* two seats, so that the robot can win and two threads can search at a time.
SPECIFICATION Spec
CONSTANTS
    Height = 1
    Width = 4
    Five = 2
    MaxSeats = 2
    LOOP = LOOP
    Threads = {t1, t2}
    MaxDisturbances = 2
SYMMETRY MCSymmetry
INVARIANTS
    TypeOK
    PiecesAlternate
    WinnerHasFive
    ThinkingEnds
    DecidedIsAnnounced
