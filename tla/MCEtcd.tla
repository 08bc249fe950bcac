------------------------------- MODULE MCEtcd -------------------------------
(***************************************************************************)
(* Instances of EtcdCluster for TLC.                                       *)
(***************************************************************************)
EXTENDS EtcdCluster, TLC

CONSTANTS e1, e2, e3, e4, e5

NoMembers == {}
One == {e1}
Three == {e1, e2, e3}
Four == {e1, e2, e3, e4}
Five == {e1, e2, e3, e4, e5}

(* Every address is found in its own host's entry only; or that of e1 is   *)
(* the beginning of two others.                                            *)
Apart == [h \in Hosts |-> {h}]
Overlapping == [h \in Hosts |-> IF h = e1 THEN {e1, e2, e4} \cap Hosts ELSE {h}]

(* The hosts that found a cluster are alike, and so are the new ones.      *)
Alike == Permutations(InitialMembers) \cup Permutations(Hosts \ InitialMembers)
=============================================================================
