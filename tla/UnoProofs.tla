------------------------------- MODULE UnoProofs -------------------------------
(* Proofs about module Uno. *)
EXTENDS Uno, FiniteSetTheorems, FunctionTheorems, SequenceTheorems, TLAPS

N == Len(Order)

\* Nobody sits twice.
LEMMA Seats ==
    /\ N \in 3..10 /\ DOMAIN Order = 1..N
    /\ \A i \in 1..N : Order[i] \in Players
    /\ \A i, j \in 1..N : Order[i] = Order[j] => i = j
<1>1. N \in 3..10 /\ N \in Nat /\ DOMAIN Order = 1..N /\ Order \in [1..N -> Players]
  BY UnoAssumption, LenProperties DEF N
<1>2. Order \in Surjection(1..N, Players)
  BY <1>1 DEF Surjection, Players
<1>3. IsFiniteSet(1..N) /\ Cardinality(1..N) = N
  BY <1>1, FS_Interval
<1>4. Order \in Injection(1..N, Players)
  BY <1>1, <1>2, <1>3, FS_Surjection, UnoAssumption DEF N
<1> QED
  BY <1>1, <1>4 DEF Injection, IsInjective

\* The indices ahead and behind, without the remainders.
LEMMA Remainders ==
    ASSUME NEW n \in 3..10, NEW i \in 1..n
    PROVE  /\ (i % n) + 1 = IF i = n THEN 1 ELSE i + 1
           /\ ((i + n - 2) % n) + 1 = IF i = 1 THEN n ELSE i - 1
<1>1. CASE n = 3
  BY <1>1
<1>2. CASE n = 4
  BY <1>2
<1>3. CASE n = 5
  BY <1>3
<1>4. CASE n = 6
  BY <1>4
<1>5. CASE n = 7
  BY <1>5
<1>6. CASE n = 8
  BY <1>6
<1>7. CASE n = 9
  BY <1>7
<1>8. CASE n = 10
  BY <1>8
<1> QED
  BY <1>1, <1>2, <1>3, <1>4, <1>5, <1>6, <1>7, <1>8

\* next() reaches another player; get_last_player_ref finds the way back.
LEMMA ThereAndBack ==
    ASSUME NEW i \in DOMAIN Order, NEW rev \in BOOLEAN
    PROVE  LET j == NextIdx(i, rev)
           IN  /\ j \in DOMAIN Order /\ Order[j] # Order[i]
               /\ NextIdx(j, ~rev) = i
<1> DEFINE j == NextIdx(i, rev)
<1>1. N \in 3..10 /\ DOMAIN Order = 1..N
  BY Seats
<1>2. \A k \in 1..N, r \in BOOLEAN :
        NextIdx(k, r) = IF r THEN (IF k = N THEN 1 ELSE k + 1)
                        ELSE (IF k = 1 THEN N ELSE k - 1)
  BY <1>1, Remainders DEF NextIdx, N
<1>3. \A k \in 1..N :
        NextIdx(k, ~rev) = IF rev THEN (IF k = 1 THEN N ELSE k - 1)
                           ELSE (IF k = N THEN 1 ELSE k + 1)
  BY <1>1, Remainders DEF NextIdx, N
<1> HIDE DEF N
<1>4. j \in 1..N /\ j # i
  BY <1>1, <1>2
<1>5. NextIdx(j, ~rev) = i
  <2>1. CASE rev
    <3>1. j = IF i = N THEN 1 ELSE i + 1
      BY <1>1, <1>2, <2>1
    <3>2. NextIdx(j, ~rev) = IF j = 1 THEN N ELSE j - 1
      BY <1>3, <1>4, <2>1
    <3>3. i \in 1..N /\ N \in Nat
      BY <1>1
    <3> HIDE DEF j
    <3>4. NextIdx(j, ~rev) = i
      BY ONLY <3>1, <3>2, <3>3
    <3> QED
      BY <3>4 DEF j
  <2>2. CASE ~rev
    <3>1. j = IF i = 1 THEN N ELSE i - 1
      BY <1>1, <1>2, <2>2
    <3>2. NextIdx(j, ~rev) = IF j = N THEN 1 ELSE j + 1
      BY <1>3, <1>4, <2>2
    <3> QED
      BY <1>1, <2>2, <3>1, <3>2
  <2> QED
    BY <2>1, <2>2
<1> QED
  BY <1>1, <1>5, <1>4, Seats

LEMMA LastPlayer ==
    get_last_player_ref = Order[NextIdx(next_player_idx, ~reversed)]
BY DEF get_last_player_ref, NextIdx

\* What a card is, dealt or invented.
LEMMA CardTypes ==
    ASSUME NEW c \in AllCards \cup Inventions
    PROVE  /\ c.color \in Specified
           /\ c.content \in Numbers \cup Functions \cup Wilds
<1>1. CASE c \in AllCards
  <2>1. c \in Cards /\ Colors \cup {"BLACK"} \subseteq Specified
    BY <1>1, UnoAssumption
  <2> QED
    BY <2>1 DEF Cards
<1>2. CASE c \in Inventions
  <2>1. c \in Named
    BY <1>2, UnoAssumption
  <2> QED
    BY <2>1 DEF Named
<1> QED
  BY <1>1, <1>2

LEMMA DrawsAreSubsets ==
    ASSUME NEW n, NEW S, NEW drawn \in Draws(n, S)
    PROVE  drawn \subseteq S
BY DEF Draws, kSubset

--------------------------------------------------------------------------------
LEMMA InitInv == Init => IInv
<1> SUFFICES ASSUME Init PROVE IInv
  OBVIOUS
<1>1. /\ \A p \in Players : hand[p] \subseteq AllCards /\ Cardinality(hand[p]) = HandSize
      /\ hand \in [Players -> SUBSET AllCards]
      /\ \A p, q \in Players : p # q => hand[p] \cap hand[q] = {}
  BY DEF Init, Deals, kSubset
<1>2. \A p \in Players : hand[p] # {}
  BY <1>1, FS_EmptySet, UnoAssumption
<1>3. CardsConserved
  <2>1. UNION {hand[p] : p \in Players} \subseteq AllCards
    BY <1>1
  <2> QED
    BY <1>1, <1>2, <2>1 DEF Init, CardsConserved
<1>4. last_card \in deck /\ deck \subseteq AllCards /\ is_number_card(last_card)
  BY DEF Init
<1>5. last_color \in Specified /\ last_number \in Numbers \cup Functions \cup Wilds
  BY <1>4, CardTypes DEF Init
<1>6. TypeOK
  BY <1>1, <1>4, <1>5 DEF Init, TypeOK
<1> QED
  BY <1>3, <1>6 DEF Init, IInv, SuspectIsThePlayer, DrawIsOpenInTurn

\* A handler that gives cards of the queue to a player, but not its last.
LEMMA GaveCards ==
    ASSUME IInv, NEW p \in Players, NEW drawn \in SUBSET (deck \ {last_card}),
           hand' = [hand EXCEPT ![p] = @ \cup drawn], deck' = deck \ drawn,
           last_card' = last_card, is_game_on' = is_game_on, invented' = invented
    PROVE  /\ hand' \in [Players -> SUBSET (AllCards \cup Inventions)]
           /\ deck' \subseteq AllCards \cup Inventions /\ last_card' \in deck'
           /\ CardsConserved'
           /\ \A q \in Players : hand[q] \subseteq hand'[q]
<1>1. /\ hand \in [Players -> SUBSET (AllCards \cup Inventions)]
      /\ deck \subseteq AllCards \cup Inventions
      /\ last_card \in deck /\ is_game_on \in BOOLEAN
  BY DEF IInv, TypeOK
<1>2. /\ hand' \in [Players -> SUBSET (AllCards \cup Inventions)]
      /\ hand'[p] = hand[p] \cup drawn
      /\ \A q \in Players \ {p} : hand'[q] = hand[q]
  BY <1>1
<1>3. \A q \in Players : hand[q] \subseteq hand'[q]
  BY <1>2
<1>4. CardsConserved'
  <2>1. is_game_on' => \A q \in Players : hand'[q] # {}
    BY <1>3 DEF IInv, CardsConserved
  <2>2. \A q \in Players : hand'[q] \cap deck' = {}
    BY <1>2 DEF IInv, CardsConserved
  <2>3. \A q, r \in Players : q # r => hand'[q] \cap hand'[r] = {}
    BY <1>2 DEF IInv, CardsConserved
  <2>4. deck' \cup UNION {hand'[q] : q \in Players} = AllCards \cup invented'
    <3>1. UNION {hand'[q] : q \in Players} = (UNION {hand[q] : q \in Players}) \cup drawn
      BY <1>2
    <3> QED
      BY <1>1, <3>1 DEF IInv, CardsConserved
  <2> QED
    BY <2>1, <2>2, <2>3, <2>4 DEF CardsConserved
<1> QED
  BY <1>1, <1>2, <1>3, <1>4

LEMMA RunDryInv == IInv /\ RunDry => IInv'
<1> SUFFICES ASSUME IInv, RunDry PROVE IInv'
  OBVIOUS
<1> USE DEF RunDry, flags, top, duel, turn
<1>1. TypeOK'
  BY DEF IInv, TypeOK
<1>2. CardsConserved'
  BY DEF IInv, CardsConserved
<1>3. SuspectIsThePlayer' /\ DrawIsOpenInTurn'
  BY DEF IInv, SuspectIsThePlayer, DrawIsOpenInTurn, get_last_player_ref, CurrentPlayer
<1> QED
  BY <1>1, <1>2, <1>3 DEF IInv

\* play: the card goes to the back, others may come from the queue to its
\* player and to the next one.
LEMMA PlayInv ==
    ASSUME IInv, NEW p \in Players, NEW card \in Playable(p), NEW color \in Specified,
           Play(p, card, color)
    PROVE  IInv'
<1> DEFINE rev == IF card.content = "REVERSE" THEN ~reversed ELSE reversed
           next == NextIdx(next_player_idx, rev)
           victim == Order[next]
<1>1. /\ hand \in [Players -> SUBSET (AllCards \cup Inventions)]
      /\ deck \subseteq AllCards \cup Inventions
      /\ next_player_idx \in DOMAIN Order /\ reversed \in BOOLEAN /\ rev \in BOOLEAN
      /\ is_game_on \in BOOLEAN
  BY DEF IInv, TypeOK
<1>2. /\ Allowed(p, card)
      /\ MoveCards(p, card, victim)
      /\ reversed' = rev
      /\ next_player_idx' = TurnAfter(card, rev)
      /\ drawn_one' = [drawn_one EXCEPT ![p] = FALSE]
      /\ last_drew' = [last_drew EXCEPT ![p] = NONE]
      /\ said_uno' = [said_uno EXCEPT ![p] = FALSE]
      /\ last_card' = card
      /\ last_color' = IF card.color = "BLACK" THEN color ELSE card.color
      /\ last_number' = card.content
      /\ IF card.content = "WILD_DRAW_4"
         THEN /\ wait_suspect' = TRUE
              /\ card_b4_wild_draw_4' = [color |-> last_color, content |-> last_number]
              /\ cards_when_wild_draw_4' = hand[p]
         ELSE UNCHANGED duel
      /\ is_game_on' = (is_game_on /\ ~SomeoneIsOut(hand'))
      /\ invented' = invented \cup ({card} \ hand[p])
      /\ alive' = alive
  BY DEF Play
<1>3. p = Order[next_player_idx] /\ ~wait_suspect
  BY <1>2 DEF Allowed, CurrentPlayer
<1>4. next \in DOMAIN Order /\ victim # p /\ NextIdx(next, ~rev) = next_player_idx
      /\ victim \in Players
  BY <1>1, <1>3, ThereAndBack, Seats
<1>5. PICK own \in Draws(Penalty(p, card), deck) :
        \E theirs \in Draws(Victims(card), deck \ own) :
          /\ hand' = [hand EXCEPT ![p] = (@ \ {card}) \cup own, ![victim] = @ \cup theirs]
          /\ deck' = (deck \ (own \cup theirs)) \cup {card}
  BY <1>2 DEF MoveCards
<1>6. PICK theirs \in Draws(Victims(card), deck \ own) :
        /\ hand' = [hand EXCEPT ![p] = (@ \ {card}) \cup own, ![victim] = @ \cup theirs]
        /\ deck' = (deck \ (own \cup theirs)) \cup {card}
  BY <1>5
<1>7. own \subseteq deck /\ theirs \subseteq deck \ own
  BY DrawsAreSubsets
<1> HIDE DEF rev, next, victim
<1>8. /\ card \in AllCards \cup Inventions /\ card \notin deck
      /\ \A q \in Players \ {p} : card \notin hand[q]
  <2>0. /\ \A q \in Players : hand[q] \cap deck = {}
        /\ \A q, r \in Players : q # r => hand[q] \cap hand[r] = {}
        /\ deck \cup UNION {hand[q] : q \in Players} = AllCards \cup invented
    BY DEF IInv, CardsConserved
  <2>1. CASE card \in hand[p]
    BY <1>1, <2>0, <2>1
  <2>2. CASE card \in Inventions \ invented
    <3>1. card \notin AllCards \cup invented
      BY <2>2, UnoAssumption
    <3> QED
      BY <2>0, <2>2, <3>1
  <2> QED
    BY <2>1, <2>2 DEF Playable
<1>9. /\ hand' \in [Players -> SUBSET (AllCards \cup Inventions)]
      /\ hand'[p] = (hand[p] \ {card}) \cup own
      /\ hand'[victim] = hand[victim] \cup theirs
      /\ \A q \in Players \ {p, victim} : hand'[q] = hand[q]
  BY <1>1, <1>4, <1>6, <1>7
<1>10. /\ card.color \in Specified
       /\ card.content \in Numbers \cup Functions \cup Wilds
  BY <1>8, CardTypes
<1>11. next_player_idx' \in DOMAIN Order
  BY <1>1, <1>2, <1>4, ThereAndBack DEF TurnAfter, next
<1>12. TypeOK'
  <2>1. deck' \subseteq AllCards \cup Inventions /\ last_card' \in deck'
    BY <1>1, <1>2, <1>6, <1>8
  <2>2. /\ drawn_one' \in [Players -> BOOLEAN] /\ said_uno' \in [Players -> BOOLEAN]
        /\ last_drew' \in [Players -> AllCards \cup Inventions \cup {NONE}]
    BY <1>2 DEF IInv, TypeOK
  <2>3. last_color' \in Specified /\ last_number' \in Numbers \cup Functions \cup Wilds
    BY <1>2, <1>10
  <2>4. /\ wait_suspect' = (card_b4_wild_draw_4' # NONE) /\ wait_suspect' \in BOOLEAN
        /\ cards_when_wild_draw_4' \subseteq AllCards \cup Inventions
    <3>1. CASE card.content = "WILD_DRAW_4"
      <4>1. [color |-> last_color, content |-> last_number] # NONE
        BY UnoAssumption DEF IInv, TypeOK
      <4> QED
        BY <1>1, <1>2, <3>1, <4>1
    <3>2. CASE card.content # "WILD_DRAW_4"
      BY <1>2, <3>2 DEF IInv, TypeOK, duel
    <3> QED
      BY <3>1, <3>2
  <2>5. {reversed', is_game_on', alive'} \subseteq BOOLEAN
    BY <1>1, <1>2 DEF IInv, TypeOK
  <2>6. invented' \subseteq Inventions
    BY <1>2 DEF IInv, TypeOK, Playable
  <2> QED
    BY <1>9, <1>11, <2>1, <2>2, <2>3, <2>4, <2>5, <2>6 DEF TypeOK
<1>13. CardsConserved'
  <2>0. /\ \A q \in Players : hand[q] \cap deck = {}
        /\ \A q, r \in Players : q # r => hand[q] \cap hand[r] = {}
        /\ deck \cup UNION {hand[q] : q \in Players} = AllCards \cup invented
    BY DEF IInv, CardsConserved
  <2>1. is_game_on' => \A q \in Players : hand'[q] # {}
    BY <1>2 DEF SomeoneIsOut
  <2>2. \A q \in Players : hand'[q] \cap deck' = {}
    BY <1>4, <1>6, <1>7, <1>8, <1>9, <2>0
  <2>3. \A q, r \in Players : q # r => hand'[q] \cap hand'[r] = {}
    BY <1>4, <1>7, <1>8, <1>9, <2>0
  <2>4. deck' \cup UNION {hand'[q] : q \in Players} = AllCards \cup invented'
    <3>1. ASSUME NEW x \in deck' \cup UNION {hand'[q] : q \in Players}
          PROVE  x \in AllCards \cup invented'
      <4>1. x = card \/ x \in deck \/ \E q \in Players : x \in hand[q]
        BY <1>4, <1>6, <1>7, <1>9
      <4>2. CASE x # card
        BY <1>2, <2>0, <4>1, <4>2
      <4>3. CASE x = card
        BY <1>2, <2>0, <4>3
      <4> QED
        BY <4>2, <4>3
    <3>2. ASSUME NEW x \in AllCards \cup invented', x \notin deck'
          PROVE  \E q \in Players : x \in hand'[q]
      <4>1. x # card /\ (x \in own \/ x \in theirs \/ x \notin deck)
        BY <1>6, <3>2
      <4>2. x \in AllCards \cup invented
        BY <1>2, <3>2, <4>1
      <4>3. CASE x \in own \/ x \in theirs
        BY <1>4, <1>9, <4>3
      <4>4. CASE x \notin deck
        <5>1. PICK q \in Players : x \in hand[q]
          BY <2>0, <4>2, <4>4
        <5> QED
          BY <1>9, <4>1, <5>1
      <4> QED
        BY <4>1, <4>3, <4>4
    <3> QED
      BY <3>1, <3>2
  <2> QED
    BY <2>1, <2>2, <2>3, <2>4 DEF CardsConserved
<1>14. SuspectIsThePlayer'
  <2> SUFFICES ASSUME wait_suspect'
               PROVE  /\ last_card'.content = "WILD_DRAW_4"
                      /\ cards_when_wild_draw_4' \ {last_card'} \subseteq hand'[get_last_player_ref']
                      /\ get_last_player_ref' # CurrentPlayer'
    BY DEF SuspectIsThePlayer
  <2>1. card.content = "WILD_DRAW_4"
    BY <1>2, <1>3 DEF duel
  <2>2. rev = reversed /\ next_player_idx' = next
    BY <1>2, <2>1 DEF TurnAfter, rev, next
  <2>3. get_last_player_ref' = Order[NextIdx(next_player_idx', ~reversed')]
    BY DEF get_last_player_ref, NextIdx
  <2>4. get_last_player_ref' = p
    BY <1>2, <1>3, <1>4, <2>2, <2>3
  <2>5. CurrentPlayer' = victim
    BY <2>2 DEF CurrentPlayer, victim
  <2> QED
    BY <1>2, <1>4, <1>9, <2>1, <2>4, <2>5
<1>15. DrawIsOpenInTurn'
  <2>1. \A q \in Players : ~drawn_one[q] \/ q = p
    BY <1>3 DEF IInv, DrawIsOpenInTurn, CurrentPlayer
  <2>2. \A q \in Players : ~drawn_one'[q]
    BY <1>2, <2>1 DEF IInv, TypeOK
  <2> QED
    BY <2>2 DEF DrawIsOpenInTurn
<1> QED
  BY <1>12, <1>13, <1>14, <1>15 DEF IInv

\* While the turn stays and hands only grow, a suspicion and an open draw stay
\* what they are.
LEMMA HandsGrew ==
    ASSUME IInv, TypeOK', \A q \in Players : hand[q] \subseteq hand'[q],
           UNCHANGED <<last_card, duel, turn>>
    PROVE  SuspectIsThePlayer'
<1>1. get_last_player_ref' = get_last_player_ref /\ CurrentPlayer' = CurrentPlayer
  BY DEF get_last_player_ref, CurrentPlayer, turn
<1>2. get_last_player_ref \in Players
  BY LastPlayer, ThereAndBack, Seats DEF IInv, TypeOK
<1> QED
  BY <1>1, <1>2 DEF IInv, SuspectIsThePlayer, duel

LEMMA DrawOneInv ==
    ASSUME IInv, NEW p \in Players, DrawOne(p)
    PROVE  IInv'
<1> DEFINE extra == IF said_uno[p] THEN TwoCards ELSE 0
<1>1. CASE Exhausts(extra + 1)
  BY <1>1, RunDryInv DEF DrawOne
<1>2. CASE ~Exhausts(extra + 1)
  <2>1. PICK card \in deck \ {last_card} :
           \E penalty \in Draws(extra, deck \ {last_card, card}) :
              /\ hand' = [hand EXCEPT ![p] = @ \cup penalty \cup {card}]
              /\ deck' = deck \ (penalty \cup {card})
              /\ drawn_one' = [drawn_one EXCEPT ![p] = TRUE]
              /\ last_drew' = [last_drew EXCEPT ![p] = card]
              /\ said_uno' = [said_uno EXCEPT ![p] = FALSE]
              /\ UNCHANGED <<top, duel, turn, is_game_on, invented, alive>>
    BY <1>2 DEF DrawOne
  <2>2. PICK penalty \in Draws(extra, deck \ {last_card, card}) :
              /\ hand' = [hand EXCEPT ![p] = @ \cup penalty \cup {card}]
              /\ deck' = deck \ (penalty \cup {card})
              /\ drawn_one' = [drawn_one EXCEPT ![p] = TRUE]
              /\ last_drew' = [last_drew EXCEPT ![p] = card]
              /\ said_uno' = [said_uno EXCEPT ![p] = FALSE]
              /\ UNCHANGED <<top, duel, turn, is_game_on, invented, alive>>
    BY <2>1
  <2> DEFINE drawn == penalty \cup {card}
  <2>3. drawn \subseteq deck \ {last_card}
    BY DrawsAreSubsets
  <2>4. /\ hand' = [hand EXCEPT ![p] = @ \cup drawn] /\ deck' = deck \ drawn
        /\ last_card' = last_card /\ is_game_on' = is_game_on /\ invented' = invented
    <3>1. hand[p] \cup penalty \cup {card} = hand[p] \cup drawn
      OBVIOUS
    <3> QED
      BY <2>2, <3>1 DEF top
  <2> HIDE DEF drawn
  <2>5. /\ hand' \in [Players -> SUBSET (AllCards \cup Inventions)]
        /\ deck' \subseteq AllCards \cup Inventions /\ last_card' \in deck'
        /\ CardsConserved'
        /\ \A q \in Players : hand[q] \subseteq hand'[q]
    BY <2>3, <2>4, GaveCards
  <2>6. card \in AllCards \cup Inventions /\ card \in hand'[p]
    BY <2>3, <2>4 DEF drawn, IInv, TypeOK
  <2>7. TypeOK'
    BY <2>2, <2>5, <2>6 DEF IInv, TypeOK, top, duel, turn
  <2>8. SuspectIsThePlayer'
    BY <2>2, <2>4, <2>5, <2>7, HandsGrew
  <2>9. DrawIsOpenInTurn'
    <3>1. p = CurrentPlayer' /\ ~wait_suspect' /\ \A q \in Players : drawn_one[q] => FALSE
      BY <2>2 DEF DrawOne, MayDraw, CurrentPlayer, turn, duel, IInv, DrawIsOpenInTurn
    <3>2. /\ drawn_one'[p] /\ last_drew'[p] = card
          /\ \A q \in Players \ {p} : ~drawn_one'[q]
      BY <2>2, <3>1 DEF IInv, TypeOK
    <3> QED
      BY <2>6, <3>1, <3>2 DEF DrawIsOpenInTurn
  <2> QED
    BY <2>5, <2>7, <2>8, <2>9 DEF IInv
<1> QED
  BY <1>1, <1>2

LEMMA SkipAfterDrawingOneInv ==
    ASSUME IInv, NEW p \in Players, SkipAfterDrawingOne(p)
    PROVE  IInv'
<1>1. /\ ~wait_suspect /\ p = CurrentPlayer
      /\ drawn_one' = [drawn_one EXCEPT ![p] = FALSE]
      /\ last_drew' = [last_drew EXCEPT ![p] = NONE]
      /\ next_player_idx' = NextIdx(next_player_idx, reversed)
      /\ UNCHANGED <<hand, deck, said_uno, top, duel, reversed, is_game_on, invented, alive>>
  BY DEF SkipAfterDrawingOne
<1>2. next_player_idx' \in DOMAIN Order
  BY <1>1, ThereAndBack DEF IInv, TypeOK
<1>3. TypeOK'
  BY <1>1, <1>2 DEF IInv, TypeOK, top, duel
<1>4. \A q \in Players : ~drawn_one'[q]
  BY <1>1 DEF IInv, TypeOK, DrawIsOpenInTurn
<1> QED
  BY <1>1, <1>3, <1>4
     DEF IInv, CardsConserved, SuspectIsThePlayer, DrawIsOpenInTurn, duel

LEMMA SayUnoInv ==
    ASSUME IInv, NEW p \in Players, SayUno(p)
    PROVE  IInv'
<1>1. CASE p = CurrentPlayer /\ Cardinality(hand[p]) = 2
  <2>1. /\ said_uno' = [said_uno EXCEPT ![p] = TRUE]
        /\ UNCHANGED <<hand, deck, drawn_one, last_drew, top, duel, turn, is_game_on,
                       invented, alive>>
    BY <1>1 DEF SayUno
  <2> USE DEF top, duel, turn
  <2>2. TypeOK' /\ CardsConserved'
    BY <2>1 DEF IInv, TypeOK, CardsConserved
  <2>3. SuspectIsThePlayer'
    BY <2>1, <2>2, HandsGrew
  <2>4. DrawIsOpenInTurn'
    BY <2>1 DEF IInv, DrawIsOpenInTurn, CurrentPlayer
  <2> QED
    BY <2>2, <2>3, <2>4 DEF IInv
<1>2. CASE ~(p = CurrentPlayer /\ Cardinality(hand[p]) = 2) /\ Exhausts(TwoCards)
  BY <1>2, RunDryInv DEF SayUno
<1>3. CASE ~(p = CurrentPlayer /\ Cardinality(hand[p]) = 2) /\ ~Exhausts(TwoCards)
  <2>1. Give(p, TwoCards) /\ UNCHANGED <<flags, top, duel, turn, is_game_on>>
    BY <1>3 DEF SayUno
  <2>2. PICK drawn \in Draws(TwoCards, deck \ {last_card}) :
          /\ hand' = [hand EXCEPT ![p] = @ \cup drawn]
          /\ deck' = deck \ drawn
          /\ UNCHANGED <<invented, alive>>
    BY <2>1 DEF Give
  <2> USE DEF flags, top, duel, turn
  <2>3. /\ hand' \in [Players -> SUBSET (AllCards \cup Inventions)]
        /\ deck' \subseteq AllCards \cup Inventions /\ last_card' \in deck'
        /\ CardsConserved'
        /\ \A q \in Players : hand[q] \subseteq hand'[q]
    BY <2>1, <2>2, DrawsAreSubsets, GaveCards
  <2>4. TypeOK'
    BY <2>1, <2>2, <2>3 DEF IInv, TypeOK
  <2>5. SuspectIsThePlayer'
    BY <2>1, <2>3, <2>4, HandsGrew
  <2>6. DrawIsOpenInTurn'
    BY <2>1, <2>3 DEF IInv, DrawIsOpenInTurn, CurrentPlayer
  <2> QED
    BY <2>3, <2>4, <2>5, <2>6 DEF IInv
<1> QED
  BY <1>1, <1>2, <1>3

\* A duel that is settled: somebody draws, and the turn may pass.
LEMMA SettledInv ==
    ASSUME IInv, wait_suspect, EndDuel, NEW p \in Players, NEW n, Give(p, n),
           UNCHANGED <<flags, top, reversed, is_game_on>>,
           next_player_idx' \in DOMAIN Order
    PROVE  IInv'
<1>1. PICK drawn \in Draws(n, deck \ {last_card}) :
        /\ hand' = [hand EXCEPT ![p] = @ \cup drawn]
        /\ deck' = deck \ drawn
        /\ UNCHANGED <<invented, alive>>
  BY DEF Give
<1> USE DEF flags, top
<1>2. /\ hand' \in [Players -> SUBSET (AllCards \cup Inventions)]
      /\ deck' \subseteq AllCards \cup Inventions /\ last_card' \in deck'
      /\ CardsConserved'
  BY <1>1, DrawsAreSubsets, GaveCards
<1>3. TypeOK'
  BY <1>1, <1>2 DEF IInv, TypeOK, EndDuel
<1>4. SuspectIsThePlayer'
  BY DEF EndDuel, SuspectIsThePlayer
<1>5. DrawIsOpenInTurn'
  BY DEF IInv, DrawIsOpenInTurn
<1> QED
  BY <1>2, <1>3, <1>4, <1>5 DEF IInv

LEMMA SuspectInv ==
    ASSUME IInv, NEW p \in Players, Suspect(p)
    PROVE  IInv'
<1> DEFINE sus == get_last_player_ref
           guilt == Guilty(cards_when_wild_draw_4)
           dry == Exhausts(IF guilt THEN FourCards ELSE SixCards)
<1>1. /\ wait_suspect /\ p = CurrentPlayer
      /\ IF dry THEN RunDry
         ELSE /\ EndDuel
              /\ \/ guilt /\ Give(sus, FourCards) /\ UNCHANGED next_player_idx
                 \/ ~guilt /\ TakeAndPass(SixCards)
              /\ UNCHANGED <<flags, top, reversed, is_game_on>>
  BY DEF Suspect
<1>2. next_player_idx \in DOMAIN Order /\ reversed \in BOOLEAN
  BY DEF IInv, TypeOK
<1>3. sus \in Players
  BY <1>2, LastPlayer, ThereAndBack, Seats
<1>4. NextIdx(next_player_idx, reversed) \in DOMAIN Order
  BY <1>2, ThereAndBack
<1> HIDE DEF sus, guilt, dry
<1>5. CASE dry
  BY <1>1, <1>5, RunDryInv
<1>6. CASE ~dry /\ Give(sus, FourCards) /\ UNCHANGED next_player_idx
  BY <1>1, <1>2, <1>3, <1>6, SettledInv
<1>7. CASE ~dry /\ TakeAndPass(SixCards)
  BY <1>1, <1>4, <1>7, SettledInv DEF TakeAndPass
<1> QED
  BY <1>1, <1>5, <1>6, <1>7

LEMMA DissuspectInv ==
    ASSUME IInv, NEW p \in Players, Dissuspect(p)
    PROVE  IInv'
<1>1. NextIdx(next_player_idx, reversed) \in DOMAIN Order
  BY ThereAndBack DEF IInv, TypeOK
<1>2. CASE Exhausts(FourCards)
  BY <1>2, RunDryInv DEF Dissuspect
<1>3. CASE ~Exhausts(FourCards)
  BY <1>1, <1>3, SettledInv DEF Dissuspect, TakeAndPass
<1> QED
  BY <1>2, <1>3

LEMMA NextInv == IInv /\ [Next]_vars => IInv'
<1> SUFFICES ASSUME IInv, [Next]_vars PROVE IInv'
  OBVIOUS
<1>1. ASSUME NEW p \in Players, NEW card \in Playable(p), NEW color \in Specified,
             Play(p, card, color)
      PROVE  IInv'
  BY <1>1, PlayInv
<1>2. ASSUME NEW p \in Players, NEW card \in Playable(p), PlayRunsDry(p, card) PROVE IInv'
  BY <1>2, RunDryInv DEF PlayRunsDry
<1>3. ASSUME NEW p \in Players, DrawOne(p) PROVE IInv'
  BY <1>3, DrawOneInv
<1>4. ASSUME NEW p \in Players, SkipAfterDrawingOne(p) PROVE IInv'
  BY <1>4, SkipAfterDrawingOneInv
<1>5. ASSUME NEW p \in Players, SayUno(p) PROVE IInv'
  BY <1>5, SayUnoInv
<1>6. ASSUME NEW p \in Players, Suspect(p) PROVE IInv'
  BY <1>6, SuspectInv
<1>7. ASSUME NEW p \in Players, Dissuspect(p) PROVE IInv'
  BY <1>7, DissuspectInv
<1>8. CASE UNCHANGED vars
  <2> USE <1>8 DEF vars, flags, top, duel, turn
  <2>1. TypeOK' /\ CardsConserved'
    BY DEF IInv, TypeOK, CardsConserved
  <2>2. SuspectIsThePlayer' /\ DrawIsOpenInTurn'
    BY DEF IInv, SuspectIsThePlayer, DrawIsOpenInTurn, get_last_player_ref, CurrentPlayer
  <2> QED
    BY <2>1, <2>2 DEF IInv
<1> QED
  BY <1>1, <1>2, <1>3, <1>4, <1>5, <1>6, <1>7, <1>8 DEF Next

--------------------------------------------------------------------------------
\* What every state satisfies, from which the theorems below follow.
THEOREM Inductive == Spec => []IInv
<1>1. Init => IInv
  BY InitInv
<1>2. IInv /\ [Next]_vars => IInv'
  BY NextInv
<1> QED
  BY <1>1, <1>2, PTL DEF Spec

\* The variables keep their types, the index of the next player among them,
\* for any head count that the room accepts.
THEOREM TypeCorrect == Spec => []TypeOK
<1>1. IInv => TypeOK
  BY DEF IInv
<1> QED
  BY <1>1, Inductive, PTL

\* play, give and the penalties neither lose a card nor deal one twice; the only
\* cards there are more than at the beginning are those that were played without
\* being held.
THEOREM CardsAreConserved == Spec => []CardsConserved
<1>1. IInv => CardsConserved
  BY DEF IInv
<1> QED
  BY <1>1, Inductive, PTL

\* get_last_player_ref finds whoever played the WILD_DRAW_4, in either
\* direction and however many cards were drawn since.
THEOREM RightSuspect == Spec => []SuspectIsThePlayer
<1>1. IInv => SuspectIsThePlayer
  BY DEF IInv
<1> QED
  BY <1>1, Inductive, PTL

\* drawn_one belongs to the turn it was set in.
THEOREM DrawsAreOfTheTurn == Spec => []DrawIsOpenInTurn
<1>1. IInv => DrawIsOpenInTurn
  BY DEF IInv
<1> QED
  BY <1>1, Inductive, PTL

\* Nobody plays another card than the one just drawn.
THEOREM OnlyTheDrawnCard == Spec => PlaysWhatWasDrawn
<1> DEFINE Step == \A p \in Players :
             (drawn_one[p] /\ last_card' # last_card) => SameCard(last_card', last_drew[p])
<1>1. IInv /\ [Next]_vars => [Step]_vars
  <2> SUFFICES ASSUME IInv, Next, NEW p \in Players, drawn_one[p], last_card' # last_card
               PROVE  SameCard(last_card', last_drew[p])
    OBVIOUS
  <2>1. p = CurrentPlayer
    BY DEF IInv, DrawIsOpenInTurn
  <2>2. PICK q \in Players : \E card \in Playable(q), color \in Specified : Play(q, card, color)
    BY DEF Next, PlayRunsDry, RunDry, DrawOne, SkipAfterDrawingOne, SayUno, Give, Suspect,
       Dissuspect, top
  <2> QED
    BY <2>1, <2>2 DEF Play, Allowed, SameCard
<1> QED
  BY <1>1, Inductive, PTL DEF Spec, PlaysWhatWasDrawn

================================================================================
