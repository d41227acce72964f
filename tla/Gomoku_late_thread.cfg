\* A thread of the last game is late.  A board of 2 x 3 on which two in a row
\* win; two threads, up to three seats.
SPECIFICATION Spec
CONSTANTS
    Height = 2
    Width = 3
    Five = 2
    MaxSeats = 3
    LOOP = LOOP
    Threads = {t1, t2}
    MaxDisturbances = 1
PROPERTY
    NobodyJoinsDuringGame
