--------------------------------- MODULE MCUno ---------------------------------
\* Three players.  Every function and WILD_DRAW_4 occur once, and a second
\* WILD_DRAW_4 may be played without being held.
EXTENDS Uno, TLC

CONSTANTS p1, p2, p3, only, fake

MCOrder     == <<p1, p2, p3>>
MCColors    == {"RED", "BLUE"}
MCSpecified == MCColors \cup {"BLACK"}
MCCopies    == {only, fake}

Card(color, content, copy) == [color |-> color, content |-> content, copy |-> copy]

MCCards ==
    {Card("RED", "ONE", only), Card("RED", "SKIP", only), Card("BLUE", "REVERSE", only),
     Card("BLUE", "DRAW_2", only), Card("BLACK", "WILD_DRAW_4", only)}
MCInventions == {Card("BLACK", "WILD_DRAW_4", fake)}

================================================================================
