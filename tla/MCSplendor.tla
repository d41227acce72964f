------------------------------ MODULE MCSplendor -------------------------------
(***************************************************************************)
(* A small game: two players, three mines, four cards on two levels, one   *)
(* face-up card of each level, two allies.                                 *)
(***************************************************************************)
EXTENDS Splendor, TLC

CONSTANTS p1, p2, c1, c2, c3, low, high

MCOrder == <<p1, p2>>
MCMines == {c1, c2, c3}
MCSlots == {low, high}
MCLevel == (low :> 1) @@ (high :> 2)

Cost(x, y, z) == (c1 :> x) @@ (c2 :> y) @@ (c3 :> z)
Card(rep, cost, type, lvl, i) ==
    [reputation |-> rep, costs |-> cost, type |-> type, level |-> lvl, idx |-> i]

MCCoupons == { Card(0, Cost(1, 1, 0), c1, 1, 1),
               Card(1, Cost(0, 2, 0), c2, 1, 2),
               Card(2, Cost(2, 0, 1), c1, 2, 3),
               Card(1, Cost(0, 0, 2), c3, 2, 4) }

MCAllies == { [reputation |-> 1, condition |-> Cost(1, 0, 0)],
              [reputation |-> 2, condition |-> Cost(2, 0, 0)] }

================================================================================
