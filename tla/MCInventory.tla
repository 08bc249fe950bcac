---------------------------- MODULE MCInventory ----------------------------
(***************************************************************************)
(* An instance of Inventory for TLC: five machines, names node1, node2 ... *)
(* and one other name, thresholds of four and five hosts.                  *)
(***************************************************************************)
EXTENDS Inventory

Machines == 1 .. 5
Names == 1 .. 6

Ip(a) == [op |-> "ip", ip |-> a]
Name(n, a) == [op |-> "named", name |-> n, ip |-> a]
Bare(n) == [op |-> "bare", name |-> n]
DelName(n) == [op |-> "del_name", name |-> n]
DelIp(a) == [op |-> "del_ip", ip |-> a]

(* Lists of new addresses, as in the usage of the script.                  *)
Lists == {[i \in 1 .. k |-> Ip(i)] : k \in {1, 2, 3, 5}} \cup {<<Ip(4)>>}

Named == {<<Name(2, 4)>>, <<Name(6, 4), Ip(4)>>}

(* A name alone: on its own, after its address, and after its deletion.    *)
BareNames ==
    {<<Bare(2)>>, <<Ip(4), Bare(6)>>, <<Name(6, 4), DelName(6), Bare(5)>>,
     <<DelName(2), Ip(2), DelIp(2), Bare(6)>>}

Deletions == {<<DelName(2)>>, <<DelIp(3)>>}

(* A machine or its address is replaced in one invocation. *)
Replacements == {<<DelName(2), Name(2, 4)>>, <<DelIp(1), Ip(1)>>}

Edits == Lists \cup Named \cup BareNames \cup Deletions \cup Replacements

Entry(g, n) == [group |-> g, name |-> n, ip |-> IF n = 6 THEN 4 ELSE n]
Masters == [json |-> TRUE,
            entries |-> <<Entry("kube_control_plane", 1), Entry("etcd", 2)>>]
Workers == [json |-> TRUE,
            entries |-> <<Entry("kube_node", 3), Entry("all", 6), Entry("etcd", 1)>>]
(* Two hosts share an address; a host of "all" that a group lists as well. *)
Shared == [json |-> TRUE,
           entries |-> <<Entry("kube_node", 4), Entry("all", 2),
                         Entry("etcd", 2), Entry("kube_node", 6)>>]
Broken == [json |-> FALSE, entries |-> <<>>]
Loads == {<<Workers>>, <<Masters, Workers>>, <<Shared, Broken, Workers>>, <<Broken>>}
=============================================================================
