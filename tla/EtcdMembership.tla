--------------------------- MODULE EtcdMembership ---------------------------
(***************************************************************************)
(* What the etcd role promises: the hosts of group etcd are members of one *)
(* cluster.  It is founded once, never replaced, and members are added one *)
(* at a time, each after all the earlier ones have started.                *)
(***************************************************************************)
EXTENDS Naturals, FiniteSets

CONSTANT Hosts       \* group etcd

VARIABLES
    founders,        \* the members the cluster was founded with, {} before
    membership,      \* its members now
    started          \* members that have started once

mvars == <<founders, membership, started>>

MInit ==
    /\ founders \in SUBSET Hosts
    /\ membership = founders
    /\ started = founders

Found(S) ==
    /\ founders = {} /\ S # {}
    /\ founders' = S
    /\ membership' = S
    /\ UNCHANGED started

StartMember(h) ==
    /\ h \in membership \ started
    /\ started' = started \cup {h}
    /\ UNCHANGED <<founders, membership>>

AddMember(h) ==
    /\ founders # {} /\ started = membership
    /\ h \notin membership
    /\ membership' = membership \cup {h}
    /\ UNCHANGED <<founders, started>>

MNext ==
    \/ \E S \in SUBSET Hosts : Found(S)
    \/ \E h \in Hosts : StartMember(h) \/ AddMember(h)

MSpec == MInit /\ [][MNext]_mvars
=============================================================================
