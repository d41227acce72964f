---------------------------------- MODULE Uno ----------------------------------
(***************************************************************************)
(* A game of UNO: class Uno, and the handlers of UnoRoom that call it.  A  *)
(* new game is a new object: it starts in Init again.  Moves are not       *)
(* refused after the game is over.                                         *)
(*                                                                         *)
(* The queue of cards is the set deck and the card at its back, last_card. *)
(* It was shuffled, so any of its other cards may be the next at its       *)
(* front.  When a move needs more cards than there are besides last_card,  *)
(* the handler goes on to read front() or back() of an empty queue: alive  *)
(* becomes FALSE and nothing is said about what follows.                   *)
(*                                                                         *)
(* Nothing asks whether a player holds the card that is played: a card     *)
(* equal to it is taken from the hand if there is one, and the card is put *)
(* on the queue in any case.  Nor does anything ask for the color that is  *)
(* specified.                                                              *)
(***************************************************************************)
EXTENDS Integers, Sequences, FiniteSets, FiniteSetsExt

CONSTANTS
    Order,      \* Uno::players_, in their shuffled order
    Copies,     \* what makes equal cards differ
    AllCards,   \* Uno::all_cards
    Inventions, \* bound: the cards that clients may play without holding them
    Colors,     \* CardColor but for BLACK: RED, YELLOW, GREEN, BLUE
    Specified,  \* what clients may send as specified_color, or as a card's color
    HandSize,   \* cards dealt to a player: 7
    TwoCards,   \* drawn for a DRAW_2 and as the penalties about saying UNO: 2
    FourCards,  \* drawn for a WILD_DRAW_4: 4
    SixCards,   \* drawn for a suspicion that was wrong: 6
    NONE        \* a Card that was never assigned

\* CardContent, as far as the rules tell the contents apart.
Numbers   == {"ZERO", "ONE", "TWO", "THREE", "FOUR", "FIVE", "SIX", "SEVEN", "EIGHT", "NINE"}
Functions == {"SKIP", "DRAW_2", "REVERSE"}
Wilds     == {"WILD", "WILD_DRAW_4"}

Players == {Order[i] : i \in DOMAIN Order}
Cards   == [color : Colors, content : Numbers \cup Functions, copy : Copies]
             \cup [color : {"BLACK"}, content : Wilds, copy : Copies]

\* What a client can name as a card: int_2_card takes any color with any content.
Named   == [color : Specified, content : Numbers \cup Functions \cup Wilds, copy : Copies]

\* The head count is on_everyone_prepared's.
ASSUME UnoAssumption ==
    /\ Order \in Seq(Players) /\ Len(Order) \in 3..10
    /\ Cardinality(Players) = Len(Order)
    /\ Colors \cup {"BLACK"} \subseteq Specified /\ "BLACK" \notin Colors
    /\ AllCards \subseteq Cards /\ IsFiniteSet(AllCards)
    /\ Inventions \subseteq Named \ AllCards
    /\ {HandSize, TwoCards, FourCards, SixCards} \subseteq Nat \ {0}
    /\ Cardinality(AllCards) > HandSize * Len(Order)
    /\ NONE \notin AllCards \cup Inventions
    /\ NONE \notin [color : Specified, content : Numbers \cup Functions \cup Wilds]

VARIABLES
    hand,                   \* Player::cards_in_hand
    cards_when_wild_draw_4, \* of the player who may be suspected; empty while nobody is
    drawn_one,              \* Player::drawn_one
    last_drew,              \* Player::last_drew, NONE while not drawn_one
    said_uno,               \* Player::said_uno
    deck,                   \* Uno::deck
    last_card,              \* deck.back()
    last_color,             \* Uno::last_color
    last_number,            \* Uno::last_number
    card_b4_wild_draw_4,    \* Uno::card_b4_wild_draw_4, NONE unless wait_suspect
    reversed,               \* Uno::reversed
    wait_suspect,           \* Uno::wait_suspect
    next_player_idx,        \* Uno::next_player_idx, counted from 1
    is_game_on,             \* Room::is_game_on
    invented,               \* history variable: cards played that nobody held
    alive                   \* FALSE once an empty queue has been read

flags == <<drawn_one, last_drew, said_uno>>
top   == <<last_card, last_color, last_number>>
duel  == <<wait_suspect, card_b4_wild_draw_4, cards_when_wild_draw_4>>
turn  == <<next_player_idx, reversed>>
vars  == <<hand, deck, flags, top, duel, turn, is_game_on, invented, alive>>

--------------------------------------------------------------------------------
is_number_card(card) == card.content \in Numbers \cup {"SKIP"}   \* content <= 10

SameCard(c, d) == c.color = d.color /\ c.content = d.content     \* Card::operator==

\* The constructor and init: hands are dealt, and the queue is turned until a
\* card that passes is_number_card is at its back.
Deals ==
    {h \in [Players -> kSubset(HandSize, AllCards)] :
        \A p, q \in Players : p # q => h[p] \cap h[q] = {}}

Init ==
    /\ hand \in Deals
    /\ deck = AllCards \ UNION {hand[p] : p \in Players}
    /\ last_card \in {c \in deck : is_number_card(c)}
    /\ last_color = last_card.color
    /\ last_number = last_card.content
    /\ drawn_one = [p \in Players |-> FALSE]
    /\ last_drew = [p \in Players |-> NONE]
    /\ said_uno = [p \in Players |-> FALSE]
    /\ card_b4_wild_draw_4 = NONE
    /\ cards_when_wild_draw_4 = {}
    /\ reversed = FALSE
    /\ wait_suspect = FALSE
    /\ next_player_idx \in DOMAIN Order
    /\ is_game_on = TRUE
    /\ invented = {}
    /\ alive = TRUE

--------------------------------------------------------------------------------
CurrentPlayer == Order[next_player_idx]

\* The index next() leads to from i, under the direction rev.
NextIdx(i, rev) ==
    IF rev THEN (i % Len(Order)) + 1 ELSE ((i + Len(Order) - 2) % Len(Order)) + 1

\* Mutant: the player behind is looked for in the direction of play.
get_last_player_ref_Ahead == Order[NextIdx(next_player_idx, reversed)]

get_last_player_ref ==
    Order[IF reversed THEN ((next_player_idx + Len(Order) - 2) % Len(Order)) + 1
          ELSE (next_player_idx % Len(Order)) + 1]

\* The ways to take n cards from those of the queue that can be at its front.
Draws(n, available) == IF n <= Cardinality(available) THEN kSubset(n, available) ELSE {}

\* Mutant: the cards given are not popped from the queue.
Give_KeepsCards(p, n) ==
    \E drawn \in Draws(n, deck \ {last_card}) :
        /\ hand' = [hand EXCEPT ![p] = @ \cup drawn]
        /\ UNCHANGED <<deck, invented, alive>>

\* Mutant: the cards given may come from the back of the queue.
Give_TakesTop(p, n) ==
    \E drawn \in Draws(n, deck) :
        /\ hand' = [hand EXCEPT ![p] = @ \cup drawn]
        /\ deck' = deck \ drawn
        /\ UNCHANGED <<invented, alive>>

\* give(player, n) in a handler that leaves last_card where it is.
Give(p, n) ==
    \E drawn \in Draws(n, deck \ {last_card}) :
        /\ hand' = [hand EXCEPT ![p] = @ \cup drawn]
        /\ deck' = deck \ drawn
        /\ UNCHANGED <<invented, alive>>

Exhausts(n) == Cardinality(deck \ {last_card}) < n

\* A handler that needs n cards and does not find them.
RunDry ==
    /\ alive' = FALSE
    /\ UNCHANGED <<hand, deck, flags, top, duel, turn, is_game_on, invented>>

--------------------------------------------------------------------------------
\* Mutant: any card is allowed to a player who has just drawn one.
Allowed_AnyCard(p, card) ==
    /\ ~wait_suspect
    /\ card.color = "BLACK" \/ card.color = last_color \/ card.content = last_number
    /\ p = CurrentPlayer

\* UNO_PLAY.
Allowed(p, card) ==
    /\ ~wait_suspect
    /\ card.color = "BLACK" \/ card.color = last_color \/ card.content = last_number
    /\ p = CurrentPlayer
    /\ drawn_one[p] => SameCard(last_drew[p], card)

\* The player's own penalty, the player who draws two, and the cards they take.
Penalty(p, card) ==
    IF Cardinality(hand[p] \ {card}) = 1 /\ ~said_uno[p] THEN TwoCards ELSE 0
Victims(card)    == IF card.content = "DRAW_2" THEN TwoCards ELSE 0

\* Where the turn goes: DRAW_2 and SKIP pass one player over.
TurnAfter(card, rev) ==
    LET one == NextIdx(next_player_idx, rev)
    IN  IF card.content \in {"DRAW_2", "SKIP"} THEN NextIdx(one, rev) ELSE one

\* check_winner.
SomeoneIsOut(hands) == \E p \in Players : hands[p] = {}

\* The cards p can put down: one in hand, which is taken from there, or one that
\* equals none in hand, which is taken from nowhere.
Playable(p) ==
    hand[p] \cup {c \in Inventions \ invented : \A d \in hand[p] : ~SameCard(c, d)}

\* The cards that change hands: card goes to the back of the queue before
\* anybody draws, so the card that was there may be drawn as well.
MoveCards(p, card, victim) ==
    \E own \in Draws(Penalty(p, card), deck) :
      \E theirs \in Draws(Victims(card), deck \ own) :
        /\ hand' = [hand EXCEPT ![p] = (@ \ {card}) \cup own, ![victim] = @ \cup theirs]
        /\ deck' = (deck \ (own \cup theirs)) \cup {card}

\* color is what the client sends as specified_color.
Play(p, card, color) ==
    /\ Allowed(p, card)
    /\ Cardinality(deck) >= Penalty(p, card) + Victims(card)
    /\ LET rev == IF card.content = "REVERSE" THEN ~reversed ELSE reversed
       IN  /\ MoveCards(p, card, Order[NextIdx(next_player_idx, rev)])
           /\ reversed' = rev
           /\ next_player_idx' = TurnAfter(card, rev)
    /\ drawn_one' = [drawn_one EXCEPT ![p] = FALSE]
    /\ last_drew' = [last_drew EXCEPT ![p] = NONE]
    /\ said_uno' = [said_uno EXCEPT ![p] = FALSE]
    /\ last_card' = card
    /\ last_color' = IF card.color = "BLACK" THEN color ELSE card.color
    /\ last_number' = card.content
    /\ IF card.content = "WILD_DRAW_4"
       THEN /\ wait_suspect' = TRUE
            /\ card_b4_wild_draw_4' = [color |-> last_color, content |-> last_number]
            /\ cards_when_wild_draw_4' = hand[p]
       ELSE UNCHANGED duel
    /\ is_game_on' = (is_game_on /\ ~SomeoneIsOut(hand'))
    /\ invented' = invented \cup ({card} \ hand[p])
    /\ UNCHANGED alive

PlayRunsDry(p, card) ==
    /\ Allowed(p, card)
    /\ Cardinality(deck) < Penalty(p, card) + Victims(card)
    /\ RunDry

\* A refused UNO_PLAY still asks check_winner, which can only answer what it
\* answered before: it is no step.

--------------------------------------------------------------------------------
\* UNO_DRAW_ONE.
MayDraw(p) == ~wait_suspect /\ p = CurrentPlayer /\ ~drawn_one[p]

DrawOne(p) ==
    LET extra == IF said_uno[p] THEN TwoCards ELSE 0 IN
    /\ MayDraw(p)
    /\ IF Exhausts(extra + 1)
       THEN RunDry
       ELSE \E card \in deck \ {last_card} :
              /\ \E penalty \in Draws(extra, deck \ {last_card, card}) :
                    /\ hand' = [hand EXCEPT ![p] = @ \cup penalty \cup {card}]
                    /\ deck' = deck \ (penalty \cup {card})
              /\ drawn_one' = [drawn_one EXCEPT ![p] = TRUE]
              /\ last_drew' = [last_drew EXCEPT ![p] = card]
              /\ said_uno' = [said_uno EXCEPT ![p] = FALSE]
              /\ UNCHANGED <<top, duel, turn, is_game_on, invented, alive>>

\* Mutant: the flag of the player who skips stays.
SkipAfterDrawingOne_KeepsFlag(p) ==
    /\ ~wait_suspect /\ p = CurrentPlayer /\ drawn_one[p]
    /\ next_player_idx' = NextIdx(next_player_idx, reversed)
    /\ UNCHANGED <<hand, deck, flags, top, duel, reversed, is_game_on, invented, alive>>

\* UNO_SKIP_AFTER_DRAWING_ONE.
SkipAfterDrawingOne(p) ==
    /\ ~wait_suspect /\ p = CurrentPlayer /\ drawn_one[p]
    /\ drawn_one' = [drawn_one EXCEPT ![p] = FALSE]
    /\ last_drew' = [last_drew EXCEPT ![p] = NONE]
    /\ next_player_idx' = NextIdx(next_player_idx, reversed)
    /\ UNCHANGED <<hand, deck, said_uno, top, duel, reversed, is_game_on, invented, alive>>

\* UNO_SAY_UNO, at any time: TwoCards for whoever may not say it.  Somebody in the
\* room who is no player is taken for the current one.
SayUno(p) ==
    IF p = CurrentPlayer /\ Cardinality(hand[p]) = 2
    THEN /\ said_uno' = [said_uno EXCEPT ![p] = TRUE]
         /\ UNCHANGED <<hand, deck, drawn_one, last_drew, top, duel, turn, is_game_on,
                        invented, alive>>
    ELSE IF Exhausts(TwoCards) THEN RunDry
    ELSE Give(p, TwoCards) /\ UNCHANGED <<flags, top, duel, turn, is_game_on>>

--------------------------------------------------------------------------------
\* Did the holder of the cards have another one to play?
Guilty(cards) ==
    \E card \in cards :
        \/ card.color = card_b4_wild_draw_4.color
        \/ /\ card_b4_wild_draw_4.content \notin Wilds
           /\ card.content = card_b4_wild_draw_4.content

EndDuel ==
    /\ wait_suspect' = FALSE
    /\ card_b4_wild_draw_4' = NONE
    /\ cards_when_wild_draw_4' = {}

\* The player in turn takes n cards and loses the turn.
TakeAndPass(n) ==
    /\ Give(CurrentPlayer, n)
    /\ next_player_idx' = NextIdx(next_player_idx, reversed)

\* UNO_SUSPECT.
Suspect(p) ==
    LET sus   == get_last_player_ref
        guilt == Guilty(cards_when_wild_draw_4)
    IN
    /\ wait_suspect /\ p = CurrentPlayer
    /\ IF Exhausts(IF guilt THEN FourCards ELSE SixCards) THEN RunDry
       ELSE /\ EndDuel
            /\ \/ guilt /\ Give(sus, FourCards) /\ UNCHANGED next_player_idx
               \/ ~guilt /\ TakeAndPass(SixCards)
            /\ UNCHANGED <<flags, top, reversed, is_game_on>>

\* UNO_DISSUSPECT.
Dissuspect(p) ==
    /\ wait_suspect /\ p = CurrentPlayer
    /\ IF Exhausts(FourCards) THEN RunDry
       ELSE EndDuel /\ TakeAndPass(FourCards) /\ UNCHANGED <<flags, top, reversed, is_game_on>>

Next ==
    /\ alive
    /\ \E p \in Players :
         \/ \E card \in Playable(p) : \/ \E color \in Specified : Play(p, card, color)
                                      \/ PlayRunsDry(p, card)
         \/ DrawOne(p)
         \/ SkipAfterDrawingOne(p)
         \/ SayUno(p)
         \/ Suspect(p)
         \/ Dissuspect(p)

Spec == Init /\ [][Next]_vars

--------------------------------------------------------------------------------
\* Every variable has its type; the back of the queue is in the queue.
TypeOK ==
    /\ invented \subseteq Inventions
    /\ hand \in [Players -> SUBSET (AllCards \cup Inventions)]
    /\ deck \subseteq AllCards \cup Inventions /\ last_card \in deck
    /\ drawn_one \in [Players -> BOOLEAN]
    /\ last_drew \in [Players -> AllCards \cup Inventions \cup {NONE}]
    /\ said_uno \in [Players -> BOOLEAN]
    /\ last_color \in Specified
    /\ last_number \in Numbers \cup Functions \cup Wilds
    /\ cards_when_wild_draw_4 \subseteq AllCards \cup Inventions
    /\ wait_suspect = (card_b4_wild_draw_4 # NONE)
    /\ next_player_idx \in DOMAIN Order
    /\ {reversed, wait_suspect, is_game_on, alive} \subseteq BOOLEAN

\* A card is in exactly one place, whatever mix of penalties, DRAW_2 and
\* suspicions has moved cards through play and give, and none is lost.  There are
\* more than were dealt only by those that somebody has played without holding
\* them, once for each.  No hand becomes empty but by a play, for which
\* check_winner is asked.
CardsConserved ==
    /\ is_game_on => \A p \in Players : hand[p] # {}
    /\ \A p \in Players : hand[p] \cap deck = {}
    /\ \A p, q \in Players : p # q => hand[p] \cap hand[q] = {}
    /\ deck \cup UNION {hand[p] : p \in Players} = AllCards \cup invented

\* While a suspicion is awaited, the player get_last_player_ref finds is the
\* one who played the WILD_DRAW_4 on top: the hand recorded when it was played
\* is what that player still holds, and the card if it was held.  Penalties taken
\* since, for UNO not said or said wrongly, only add to it.
SuspectIsThePlayer ==
    wait_suspect =>
        /\ last_card.content = "WILD_DRAW_4"
        /\ cards_when_wild_draw_4 \ {last_card} \subseteq hand[get_last_player_ref]
        /\ get_last_player_ref # CurrentPlayer

\* A player has the draw of one card open only in turn, and the card drawn is
\* still in hand: play's test on last_drew never compares with a card of an
\* earlier turn.
DrawIsOpenInTurn ==
    \A p \in Players : drawn_one[p] =>
        p = CurrentPlayer /\ last_drew[p] \in hand[p] /\ ~wait_suspect

\* After drawing one, a player puts down no other card than one equal to it.
PlaysWhatWasDrawn ==
    [][\A p \in Players :
          (drawn_one[p] /\ last_card' # last_card) => SameCard(last_card', last_drew[p])]_vars

\* The inductive invariant behind the theorems of UnoProofs.
IInv ==
    /\ TypeOK
    /\ CardsConserved
    /\ SuspectIsThePlayer
    /\ DrawIsOpenInTurn

================================================================================
