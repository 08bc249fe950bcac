----------------------------- MODULE MCUpgrade -----------------------------
(***************************************************************************)
(* Upgrade on small inventories.                                           *)
(***************************************************************************)
EXTENDS Upgrade, TLC

CONSTANTS m1, m2, w1, w2, w3

TwoMasters  == {m1, m2}
OneMaster   == {m1}
OneWorker   == {w1}
TwoWorkers  == {w1, w2}
ThreeWorkers == {w1, w2, w3}

InventoryOrder == (m1 :> 1) @@ (m2 :> 2) @@ (w1 :> 3) @@ (w2 :> 4) @@ (w3 :> 5)
Order == [n \in Nodes |-> InventoryOrder[n]]
=============================================================================
