\* Three players with a card each, two in the queue, and one that may be played
\* without being held; a queue that is read when empty ends the behaviour.
SPECIFICATION Spec
CONSTANTS
    p1 = p1
    p2 = p2
    p3 = p3
    only = only
    fake = fake
    Order <- MCOrder
    Colors <- MCColors
    Specified <- MCSpecified
    Copies <- MCCopies
    AllCards <- MCCards
    Inventions <- MCInventions
    HandSize = 1
    TwoCards = 1
    FourCards = 1
    SixCards = 2
    NONE = NONE
INVARIANTS
    TypeOK
    CardsConserved
    SuspectIsThePlayer
    DrawIsOpenInTurn
PROPERTY
    PlaysWhatWasDrawn
CHECK_DEADLOCK FALSE
