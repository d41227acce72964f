-------------------------------- MODULE Splendor -------------------------------
(***************************************************************************)
(* A game of Splendor: class Splendor, and the handlers of SplendorRoom    *)
(* that call it.  A new game is a new object: it starts in Init again.     *)
(* Moves are not refused after the game is over.                           *)
(*                                                                         *)
(* The numbers of the game are constants; the comment on each gives the    *)
(* code's value.  The shuffled deck is a set from which any card of the    *)
(* right level may come next.  last_action and ally_actions, which only    *)
(* describe a move to the clients, are left out.                           *)
(***************************************************************************)
EXTENDS Integers, Sequences, FiniteSets, FiniteSetsExt, Functions

CONSTANTS
    Order,              \* the players, as the unordered_map iterates them: 2..4
    Mines,              \* COPPER .. NETHERITE
    COPPER, GOLD,       \* COPPER is the first of Mines; GOLD is none of them
    Coupons,            \* the cards: 90
    Slots, level,       \* the places for face-up cards, and the level of each
    Allies,             \* the allies drawn for this game: one more than players
    BankSize,           \* tokens of each mine: 4, 5 or 7
    GoldCount,          \* gold tokens: 5
    TokenLimit,         \* tokens a player may keep: 10
    ReserveLimit,       \* cards a player may reserve: 3
    WinningReputation,  \* 15
    EMPTY, NOBODY       \* Coupon::empty(level); an ally that nobody owns

Players == {Order[i] : i \in DOMAIN Order}
Tokens  == Mines \cup {GOLD}

ASSUME SplendorAssumption ==
    /\ Order \in Seq(Players) /\ Len(Order) \in 2..4
    /\ \A i, j \in DOMAIN Order : Order[i] = Order[j] => i = j
    /\ COPPER \in Mines /\ GOLD \notin Mines
    /\ \A S \in {Mines, Coupons, Allies} : IsFiniteSet(S)
    /\ Coupons \subseteq [reputation : Nat, costs : [Mines -> Nat],
                          type : Mines, level : {level[s] : s \in Slots}, idx : Nat \ {0}]
    /\ Allies \subseteq [reputation : Nat, condition : [Mines -> Nat]]
    /\ \A a \in Allies : \E m \in Mines : a.condition[m] > 0
    /\ {BankSize, GoldCount, TokenLimit, ReserveLimit, WinningReputation} \subseteq Nat
    /\ WinningReputation > 0
    /\ EMPTY \notin Coupons /\ NOBODY \notin Players

VARIABLES
    bank,           \* Splendor::bank
    coupons,        \* Splendor::coupons, by slot
    coupons_rest,   \* Splendor::coupons_rest
    owner,          \* Ally::owner_id, NOBODY while not is_owned
    mine_count,     \* Player::mine_count
    coupon_count,   \* Player::coupon_count
    reserved,       \* Player::reserved_coupons
    bought,         \* Player::coupons
    reputation,     \* Player::reputation
    status,         \* Player::status
    is_game_on,     \* Room::is_game_on
    aborted         \* an assertion failed: the process is gone

vars == <<bank, coupons, coupons_rest, owner, mine_count, coupon_count,
          reserved, bought, reputation, status, is_game_on, aborted>>

--------------------------------------------------------------------------------
\* The constructor, run by on_everyone_prepared: cards are dealt to every slot,
\* and any player may be the first.
Deals == {d \in [Slots -> Coupons] :
             /\ \A s \in Slots : d[s].level = level[s]
             /\ \A s, t \in Slots : d[s] = d[t] => s = t}

FreshStatus(first) == [p \in Players |-> IF p = first THEN "ACTION" ELSE "WAITING"]
FreshBank   == [m \in Tokens |-> IF m = GOLD THEN GoldCount ELSE BankSize]
NoTokens    == [p \in Players |-> [m \in Tokens |-> 0]]
NoDiscounts == [p \in Players |-> [m \in Mines |-> 0]]

Init ==
    /\ bank = FreshBank
    /\ coupons \in Deals
    /\ coupons_rest = Coupons \ {coupons[s] : s \in Slots}
    /\ owner = [a \in Allies |-> NOBODY]
    /\ mine_count = NoTokens
    /\ coupon_count = NoDiscounts
    /\ reserved = [p \in Players |-> <<>>]
    /\ bought = [p \in Players |-> {}]
    /\ reputation = [p \in Players |-> 0]
    /\ status \in {FreshStatus(first) : first \in Players}
    /\ is_game_on = TRUE
    /\ aborted = FALSE

--------------------------------------------------------------------------------
total_mine_count(counts) == SumFunction(counts)

NextPlayer(p) ==
    LET i == CHOOSE i \in DOMAIN Order : Order[i] = p
    IN  Order[(i % Len(Order)) + 1]

\* Mutant: the player who has moved stays in turn.
PassTurn_KeepsTurn(p) == [status EXCEPT ![NextPlayer(p)] = "ACTION"]

PassTurn(p) == [status EXCEPT ![p] = "WAITING", ![NextPlayer(p)] = "ACTION"]

\* Mutant: the count is compared with the limit before the last token.
StatusAfterTaking_OffByOne(p, counts) ==
    IF total_mine_count(counts) > TokenLimit + 1
    THEN [status EXCEPT ![p] = "NEED_RETURN_MINE"]
    ELSE PassTurn(p)

\* How take_3_mines, take_2_mines and reserve_coupon end.
StatusAfterTaking(p, counts) ==
    IF total_mine_count(counts) > TokenLimit
    THEN [status EXCEPT ![p] = "NEED_RETURN_MINE"]
    ELSE PassTurn(p)

TakeMines(p, taken) ==
    /\ mine_count' = [mine_count EXCEPT ![p] = [m \in Tokens |-> @[m] + taken[m]]]
    /\ bank' = [m \in Tokens |-> bank[m] - taken[m]]
    /\ status' = StatusAfterTaking(p, mine_count'[p])
    /\ UNCHANGED <<coupons, coupons_rest, owner, coupon_count, reserved, bought,
                   reputation, is_game_on, aborted>>

\* take_3_mines: three different mines of which the bank has one.
Take3Mines(p, mines) ==
    /\ status[p] = "ACTION"
    /\ Cardinality(mines) = 3
    /\ \A m \in mines : bank[m] # 0
    /\ TakeMines(p, [m \in Tokens |-> IF m \in mines THEN 1 ELSE 0])

\* take_2_mines: two of a mine of which the bank has four.
Take2Mines(p, mine) ==
    /\ status[p] = "ACTION"
    /\ bank[mine] >= 4
    /\ TakeMines(p, [m \in Tokens |-> IF m = mine THEN 2 ELSE 0])

\* Mutant: the turn passes at once.
ReturnMine_AlwaysPasses(p, mine) ==
    /\ status[p] = "NEED_RETURN_MINE"
    /\ mine_count[p][mine] >= 1
    /\ mine_count' = [mine_count EXCEPT ![p][mine] = @ - 1]
    /\ bank' = [bank EXCEPT ![mine] = @ + 1]
    /\ status' = PassTurn(p)
    /\ UNCHANGED <<coupons, coupons_rest, owner, coupon_count, reserved, bought,
                   reputation, is_game_on, aborted>>

\* return_mine: one token at a time, gold included.
ReturnMine(p, mine) ==
    /\ status[p] = "NEED_RETURN_MINE"
    /\ mine_count[p][mine] >= 1
    /\ mine_count' = [mine_count EXCEPT ![p][mine] = @ - 1]
    /\ bank' = [bank EXCEPT ![mine] = @ + 1]
    /\ status' = IF total_mine_count(mine_count'[p]) < TokenLimit + 1
                 THEN PassTurn(p) ELSE status
    /\ UNCHANGED <<coupons, coupons_rest, owner, coupon_count, reserved, bought,
                   reputation, is_game_on, aborted>>

--------------------------------------------------------------------------------
\* Mutant: the card that fills the slot stays in the deck.
FillCoupon_KeepsDeck(s) ==
    LET next == {c \in coupons_rest : c.level = level[s]}
    IN  \/ next = {} /\ coupons' = [coupons EXCEPT ![s] = EMPTY]
                     /\ UNCHANGED coupons_rest
        \/ \E c \in next :
              /\ coupons' = [coupons EXCEPT ![s] = c]
              /\ UNCHANGED coupons_rest

\* fill_coupon: the next card of that level in the deck, or none.
FillCoupon(s) ==
    LET next == {c \in coupons_rest : c.level = level[s]}
    IN  \/ next = {} /\ coupons' = [coupons EXCEPT ![s] = EMPTY]
                     /\ UNCHANGED coupons_rest
        \/ \E c \in next :
              /\ coupons' = [coupons EXCEPT ![s] = c]
              /\ coupons_rest' = coupons_rest \ {c}

\* Mutant: the limit may be passed by one.
ReserveCoupon_OneMore(p, s) ==
    LET gold == IF bank[GOLD] > 0 THEN 1 ELSE 0
    IN  /\ status[p] = "ACTION"
        /\ Len(reserved[p]) <= ReserveLimit
        /\ reserved' = [reserved EXCEPT ![p] = Append(@, coupons[s])]
        /\ FillCoupon(s)
        /\ mine_count' = [mine_count EXCEPT ![p][GOLD] = @ + gold]
        /\ bank' = [bank EXCEPT ![GOLD] = @ - gold]
        /\ status' = StatusAfterTaking(p, mine_count'[p])
        /\ UNCHANGED <<owner, coupon_count, bought, reputation, is_game_on, aborted>>

\* reserve_coupon: the card of slot s, an empty one too, and a gold token if
\* the bank has one.
ReserveCoupon(p, s) ==
    LET gold == IF bank[GOLD] > 0 THEN 1 ELSE 0
    IN  /\ status[p] = "ACTION"
        /\ Len(reserved[p]) < ReserveLimit
        /\ reserved' = [reserved EXCEPT ![p] = Append(@, coupons[s])]
        /\ FillCoupon(s)
        /\ mine_count' = [mine_count EXCEPT ![p][GOLD] = @ + gold]
        /\ bank' = [bank EXCEPT ![GOLD] = @ - gold]
        /\ status' = StatusAfterTaking(p, mine_count'[p])
        /\ UNCHANGED <<owner, coupon_count, bought, reputation, is_game_on, aborted>>

--------------------------------------------------------------------------------
Positive(x) == IF x > 0 THEN x ELSE 0

\* check_affordabillity: what the mines lack is made up for with gold.
CheckAffordability(p, c) ==
    SumFunction([m \in Mines |-> Positive(c.costs[m] - mine_count[p][m] - coupon_count[p][m])])
        <= mine_count[p][GOLD]

\* What p pays for c: the cost of each mine less the cards of that type, in
\* tokens as far as they go and the rest in gold.
Owed(p, c, m) == Positive(c.costs[m] - coupon_count[p][m])
Paid(p, c) ==
    [m \in Tokens |->
        IF m = GOLD
        THEN SumFunction([n \in Mines |-> Positive(Owed(p, c, n) - mine_count[p][n])])
        ELSE IF Owed(p, c, m) < mine_count[p][m] THEN Owed(p, c, m)
        ELSE mine_count[p][m]]

\* Mutant: the gold is spent but not put back.
Pay_LosesGold(p, c) ==
    LET paid == Paid(p, c)
    IN  /\ mine_count' = [mine_count EXCEPT ![p] = [m \in Tokens |-> @[m] - paid[m]]]
        /\ bank' = [m \in Tokens |-> IF m = GOLD THEN bank[m] ELSE bank[m] + paid[m]]

Pay(p, c) ==
    LET paid == Paid(p, c)
    IN  /\ mine_count' = [mine_count EXCEPT ![p] = [m \in Tokens |-> @[m] - paid[m]]]
        /\ bank' = [m \in Tokens |-> bank[m] + paid[m]]

\* The reputation of cards or of allies.
Worth(S) == SumFunction([x \in S |-> x.reputation])

Meets(counts, a) == \A m \in Mines : counts[m] >= a.condition[m]

\* Each ally of toAward goes to whoever meets its condition.  The loop over the
\* players has no break: all who meet it get the reputation, and the last one
\* becomes the owner.
Award(toAward, counts, rep) ==
    LET Claimants(a) == {i \in DOMAIN Order : Meets(counts[Order[i]], a)}
    IN  /\ owner' = [a \in Allies |->
                        IF a \in toAward /\ Claimants(a) # {}
                        THEN Order[Max(Claimants(a))] ELSE owner[a]]
        /\ reputation' = [q \in Players |->
                            rep[q] + Worth({a \in toAward : Meets(counts[q], a)})]

\* check_ally
CheckAlly(counts, rep) == Award({a \in Allies : owner[a] = NOBODY}, counts, rep)

\* Mutant: the game goes on.
CheckWinner_Never == UNCHANGED is_game_on

\* check_winner, and what the handlers of the two purchases do with it.
CheckWinner ==
    is_game_on' = (is_game_on /\ \A q \in Players : reputation'[q] < WinningReputation)

\* What buy_coupon and buy_reserved_coupon have in common.
Purchase(p, c) ==
    /\ status[p] = "ACTION"
    /\ CheckAffordability(p, c)
    /\ Pay(p, c)
    /\ bought' = [bought EXCEPT ![p] = @ \cup {c}]
    /\ coupon_count' = [coupon_count EXCEPT ![p][c.type] = @ + 1]
    /\ CheckAlly(coupon_count', [reputation EXCEPT ![p] = @ + c.reputation])
    /\ CheckWinner
    /\ status' = PassTurn(p)
    /\ UNCHANGED aborted

BuyCoupon(p, s) ==
    /\ coupons[s] # EMPTY
    /\ Purchase(p, coupons[s])
    /\ FillCoupon(s)
    /\ UNCHANGED reserved

\* Mutant: the card stays among the reserved ones.
BuyReservedCoupon_Keeps(p, i) ==
    /\ i \in DOMAIN reserved[p]
    /\ reserved[p][i] # EMPTY
    /\ Purchase(p, reserved[p][i])
    /\ UNCHANGED <<coupons, coupons_rest, reserved>>

BuyReservedCoupon(p, i) ==
    /\ i \in DOMAIN reserved[p]
    /\ reserved[p][i] # EMPTY
    /\ Purchase(p, reserved[p][i])
    /\ reserved' = [reserved EXCEPT ![p] = SubSeq(@, 1, i - 1) \o SubSeq(@, i + 1, Len(@))]
    /\ UNCHANGED <<coupons, coupons_rest>>

\* An empty slot has idx 0, which is also what a message without coupon_idx
\* says.  It costs nothing, and its type is GOLD: coupon_count[GOLD] is beyond
\* the array, and the int there is the buyer's count of COPPER.
BuyEmptySlot(p, s) ==
    /\ status[p] = "ACTION"
    /\ coupons[s] = EMPTY
    /\ mine_count' = [mine_count EXCEPT ![p][COPPER] = @ + 1]
    /\ CheckAlly(coupon_count, [reputation EXCEPT ![p] = @ - 1])
    /\ CheckWinner
    /\ status' = PassTurn(p)
    /\ bought' = [bought EXCEPT ![p] = @ \cup {EMPTY}]
    /\ UNCHANGED <<bank, coupons, coupons_rest, coupon_count, reserved, aborted>>

\* buy_reserved_coupon asserts that the card is none of those.
BuyReservedEmptySlot(p) ==
    /\ status[p] = "ACTION"
    /\ \E i \in DOMAIN reserved[p] : reserved[p][i] = EMPTY
    /\ aborted' = TRUE
    /\ UNCHANGED <<bank, coupons, coupons_rest, owner, mine_count, coupon_count,
                   reserved, bought, reputation, status, is_game_on>>

--------------------------------------------------------------------------------
Move(p) ==
    \/ \E mines \in SUBSET Mines : Take3Mines(p, mines)
    \/ \E mine \in Mines : Take2Mines(p, mine)
    \/ \E mine \in Tokens : ReturnMine(p, mine)
    \/ \E s \in Slots : BuyCoupon(p, s)
    \/ \E s \in Slots : coupons[s] # EMPTY /\ ReserveCoupon(p, s)
    \/ \E i \in 1..ReserveLimit : BuyReservedCoupon(p, i)

\* Players who pick only cards that the table shows.
Next == \E p \in Players : Move(p)

\* Players who also pick empty slots.
PickEmptySlot(p) ==
    \/ \E s \in Slots : coupons[s] = EMPTY /\ ReserveCoupon(p, s)
    \/ \E s \in Slots : BuyEmptySlot(p, s)
    \/ BuyReservedEmptySlot(p)

NextWithEmptySlots ==
    /\ ~aborted
    /\ Next \/ \E p \in Players : PickEmptySlot(p)

Spec               == Init /\ [][Next]_vars
SpecWithEmptySlots == Init /\ [][NextWithEmptySlots]_vars

--------------------------------------------------------------------------------
(* Properties *)

\* The variables keep their types, and nobody reserves more cards than allowed.
TypeOK ==
    /\ bank \in [Tokens -> Int]
    /\ coupons \in [Slots -> Coupons \cup {EMPTY}]
    /\ coupons_rest \in SUBSET Coupons
    /\ owner \in [Allies -> Players \cup {NOBODY}]
    /\ mine_count \in [Players -> [Tokens -> Int]]
    /\ coupon_count \in [Players -> [Mines -> Nat]]
    /\ reserved \in [Players -> Seq(Coupons \cup {EMPTY})]
    /\ \A p \in Players : Len(reserved[p]) <= ReserveLimit
    /\ bought \in [Players -> SUBSET (Coupons \cup {EMPTY})]
    /\ reputation \in [Players -> Int]
    /\ status \in [Players -> {"WAITING", "ACTION", "NEED_RETURN_MINE"}]
    /\ is_game_on \in BOOLEAN
    /\ aborted \in BOOLEAN

\* It is always exactly one player's turn.
OneTurn == \E p \in Players : \A q \in Players : status[q] # "WAITING" <=> q = p

\* No token is made or lost: bank and players together hold what the bank had,
\* and nobody is in debt, whatever a purchase that check_affordabillity lets
\* pass is paid with, in tokens, in discounts and in gold.
TokensConserved ==
    \A m \in Tokens :
        /\ bank[m] + SumFunction([p \in Players |-> mine_count[p][m]]) = FreshBank[m]
        /\ bank[m] >= 0 /\ \A p \in Players : mine_count[p][m] >= 0

\* Who is not taking a turn holds no more tokens than allowed, and who must
\* return some has too many.
HandLimit ==
    \A p \in Players :
        (total_mine_count(mine_count[p]) > TokenLimit) <=> (status[p] = "NEED_RETURN_MINE")

\* The places a card is in.
Places(c) ==
    ({"slot"} \X {s \in Slots : coupons[s] = c})
    \cup (IF c \in coupons_rest THEN {<<"deck">>} ELSE {})
    \cup {x \in {"reserved"} \X Players \X (1..ReserveLimit) :
              x[3] \in DOMAIN reserved[x[2]] /\ reserved[x[2]][x[3]] = c}
    \cup ({"bought"} \X {p \in Players : c \in bought[p]})

\* Each card is in exactly one place, the deck, a slot, reserved or bought, and
\* there only once.
CardInOnePlace == \A c \in Coupons : \E x \in Places(c) : Places(c) = {x}

Earned(p) == Worth(bought[p]) + Worth({a \in Allies : owner[a] = p})

\* A game in which somebody has won is over, and nobody wins with more than the
\* cards bought and the allies owned have earned: no ally is awarded twice,
\* though check_ally does not stop at the first player.
NoOvertime ==
    \A p \in Players :
        /\ reputation[p] = Earned(p)
        /\ is_game_on => reputation[p] < WinningReputation

\* assert(coupon_it->type != GOLD), Splendor.hpp:619.
ReservedIsNoGold == ~aborted

\* What the proofs need beside.  Nobody meets the condition of an ally that is
\* still to be had; and nobody has bought an empty slot.
AlliesAreAwarded ==
    \A a \in Allies, p \in Players : owner[a] = NOBODY => ~Meets(coupon_count[p], a)
BoughtAreCards == \A p \in Players : bought[p] \subseteq Coupons

\* The inductive invariant behind the theorems of SplendorProofs.
IInv ==
    /\ TypeOK
    /\ OneTurn
    /\ TokensConserved
    /\ HandLimit
    /\ CardInOnePlace
    /\ NoOvertime
    /\ AlliesAreAwarded
    /\ BoughtAreCards

================================================================================
