---------------------------- MODULE EtcdRecovery ----------------------------
(***************************************************************************)
(* recover-control-plane.yml for etcd (roles/recover_control_plane/etcd):  *)
(* some members of an etcd cluster are broken.  If the others still have a *)
(* quorum the broken ones are removed from the cluster; otherwise a new    *)
(* cluster is restored from a snapshot on the first host.  Either is       *)
(* followed by cluster.yml, whose etcd role lets the other hosts of group  *)
(* etcd join.  A run may be interrupted between any two tasks, and the     *)
(* playbook is then run again.                                             *)
(*                                                                         *)
(* etcd, etcdctl and systemd are outside the repository.  Cluster 1 is the *)
(* old one, cluster r + 1 the one that run r restores; 0 is none.          *)
(* EtcdCluster has the etcd role in detail; here it is what it does beside *)
(* a healthy cluster: hosts are added and started one after the other.     *)
(***************************************************************************)
EXTENDS Naturals, FiniteSets

CONSTANTS
    Machines,
    First,        \* etcd[0]
    Scenarios,    \* records: the sets survivors, broken and new
    MaxRuns,      \* bound: invocations of the playbook
    MaxFaults,    \* bound: runs that are interrupted
    MaxGlitches   \* bound: endpoints whose health check fails for no reason

ASSUME ScenariosAssumption ==
    /\ Scenarios \subseteq [survivors : SUBSET Machines, broken : SUBSET Machines,
                            new : SUBSET Machines]
    /\ \A s \in Scenarios : First \in s.survivors /\ First \notin s.new
    /\ First \in Machines /\ IsFiniteSet(Machines)
ASSUME BoundsAssumption ==
    MaxRuns \in Nat /\ MaxFaults \in Nat /\ MaxGlitches \in Nat

VARIABLES
    (* The inventory. *)
    survivors, broken, new,   \* etcd is survivors and new, broken_etcd broken
    etcd_snapshot,            \* the operator provides a snapshot
    (* The run. *)
    phase,        \* the task it is in
    has_quorum,   \* the fact of that name
    member_list,  \* the registered list, without the members that are done
    joining,      \* the host in join_etcd_member.yml, as a set
    runs, faults, glitches,
    (* The machines. *)
    up,           \* etcd runs
    data,         \* the cluster of its data directory
    snapshot,     \* the cluster that /tmp/snapshot.db on First is a copy of
    (* The clusters. *)
    members

inventory == <<survivors, broken, new, etcd_snapshot>>
facts == <<has_quorum, member_list, joining>>
counters == <<runs, faults, glitches>>
etcdVars == <<up, data, snapshot, members>>
vars == <<inventory, phase, facts, counters, etcdVars>>

Group == survivors \cup new
Clusters == 1 .. MaxRuns + 1

Init ==
    /\ \E s \in Scenarios :
          survivors = s.survivors /\ broken = s.broken /\ new = s.new
    /\ etcd_snapshot \in BOOLEAN
    /\ phase = "idle" /\ has_quorum = FALSE /\ member_list = {} /\ joining = {}
    /\ runs = 0 /\ faults = 0 /\ glitches = 0
    /\ up = survivors
    /\ data = [m \in Machines |-> IF m \in survivors THEN 1 ELSE 0]
    /\ snapshot = 0
    /\ members = [c \in Clusters |-> IF c = 1 THEN survivors \cup broken ELSE {}]

-----------------------------------------------------------------------------
(* etcd. *)

Running(c) == {m \in up : data[m] = c}

HasQuorum(c) == 2 * Cardinality(Running(c) \cap members[c]) > Cardinality(members[c])

WithQuorum == {c \in Clusters : HasQuorum(c)}

(* A member is healthy when it can commit a proposal. *)
Healthy == {m \in up : m \in members[data[m]] /\ HasQuorum(data[m])}

(* A member is added when all the others are connected.                    *)
AcceptsMembers(c) ==
    c \in Clusters /\ HasQuorum(c) /\ members[c] \subseteq Running(c)

-----------------------------------------------------------------------------
(* The play: recover_control_plane/etcd on First. *)

Goto(p) == phase' = p

Stop == Goto("stopped") /\ has_quorum' = FALSE /\ member_list' = {} /\ joining' = {}

Fails == Stop /\ UNCHANGED <<inventory, counters, etcdVars>>

StartRun ==
    /\ phase \in {"idle", "stopped"} /\ runs < MaxRuns
    /\ Goto("health")
    /\ runs' = runs + 1
    /\ UNCHANGED <<inventory, facts, faults, glitches, etcdVars>>

Interrupt ==
    /\ phase \notin {"idle", "stopped", "done"}
    /\ faults < MaxFaults
    /\ Stop
    /\ faults' = faults + 1
    /\ UNCHANGED <<inventory, runs, glitches, etcdVars>>

(* Mutant: the quorum counts as lost when any endpoint is unhealthy.       *)
HasQuorumFact_All(healthy) == healthy = Group

(* As many endpoints of the group, the new hosts among them, are healthy   *)
(* as are not.                                                             *)
HasQuorumFact(healthy) == Cardinality(healthy) >= Cardinality(Group \ healthy)

(* Get etcd endpoint health, Set has_quorum fact, and Remove etcd data dir *)
(* of the broken hosts, which have no data that counts.                    *)
CheckHealth ==
    /\ phase = "health"
    /\ \E late \in SUBSET Healthy :
          /\ glitches + Cardinality(late) <= MaxGlitches
          /\ glitches' = glitches + Cardinality(late)
          /\ has_quorum' = HasQuorumFact(Healthy \ late)
    /\ Goto(IF has_quorum' THEN "list" ELSE "save")
    /\ UNCHANGED <<inventory, member_list, joining, runs, faults, etcdVars>>

(* Save etcd snapshot, from First's etcd, or Transfer etcd snapshot.       *)
SaveSnapshot ==
    /\ phase = "save"
    /\ etcd_snapshot \/ First \in up
    /\ snapshot' = IF etcd_snapshot THEN 1 ELSE data[First]
    /\ Goto("stop")
    /\ UNCHANGED <<inventory, facts, counters, up, data, members>>

SaveSnapshotFails ==
    phase = "save" /\ ~etcd_snapshot /\ First \notin up /\ Fails

StopEtcd ==
    /\ phase = "stop"
    /\ up' = up \ {First}
    /\ Goto("remove")
    /\ UNCHANGED <<inventory, facts, counters, data, snapshot, members>>

(* Mutant: the snapshot goes together with the data directory.             *)
RemoveDataDir_Snapshot ==
    /\ phase = "remove"
    /\ data' = [data EXCEPT ![First] = 0]
    /\ snapshot' = 0
    /\ Goto("restore")
    /\ UNCHANGED <<inventory, facts, counters, up, members>>

RemoveDataDir ==
    /\ phase = "remove"
    /\ data' = [data EXCEPT ![First] = 0]
    /\ Goto("restore")
    /\ UNCHANGED <<inventory, facts, counters, up, snapshot, members>>

(* Mutant: the members of the old cluster are restored, too.               *)
RestoreSnapshot_Members ==
    /\ phase = "restore"
    /\ data' = [data EXCEPT ![First] = runs + 1]
    /\ members' = [members EXCEPT ![runs + 1] = Group]
    /\ Goto("forget")
    /\ UNCHANGED <<inventory, facts, counters, up, snapshot>>

(* Restore etcd snapshot: First alone is a new cluster with the old data.  *)
RestoreSnapshot ==
    /\ phase = "restore"
    /\ data' = [data EXCEPT ![First] = runs + 1]
    /\ members' = [members EXCEPT ![runs + 1] = {First}]
    /\ Goto("forget")
    /\ UNCHANGED <<inventory, facts, counters, up, snapshot>>

RemoveSnapshot ==
    /\ phase = "forget"
    /\ snapshot' = 0
    /\ Goto("start")
    /\ UNCHANGED <<inventory, facts, counters, up, data, members>>

(* Change etcd data-dir owner, Reconfigure etcd, Start etcd.               *)
StartEtcd ==
    /\ phase = "start"
    /\ up' = up \cup {First}
    /\ Goto("list")
    /\ UNCHANGED <<inventory, facts, counters, data, snapshot, members>>

(* Mutant: a cluster whose survivors are healthy keeps its members.        *)
GetMembers_Healthy ==
    /\ phase = "list"
    /\ IF has_quorum /\ ~survivors \subseteq Healthy
       THEN \E c \in WithQuorum : member_list' = members[c]
       ELSE UNCHANGED member_list
    /\ Goto("members")
    /\ UNCHANGED <<inventory, has_quorum, joining, counters, etcdVars>>

(* Get etcd cluster members: only where the quorum was not lost. The fact  *)
(* "healthy" is never true: the error that it looks for comes after the    *)
(* lines of the endpoints.                                                 *)
GetMembers ==
    /\ phase = "list"
    /\ IF has_quorum
       THEN \E c \in WithQuorum : member_list' = members[c]
       ELSE UNCHANGED member_list
    /\ Goto("members")
    /\ UNCHANGED <<inventory, has_quorum, joining, counters, etcdVars>>

(* Remove broken cluster members, one item of the loop after the other.    *)
RemoveMember(m) ==
    /\ phase = "members" /\ m \in member_list \cap broken
    /\ m = CHOOSE b \in member_list \cap broken : TRUE
    /\ \E c \in WithQuorum : members' = [members EXCEPT ![c] = @ \ {m}]
    /\ member_list' = member_list \ {m}
    /\ UNCHANGED <<inventory, phase, has_quorum, joining, counters, up, data, snapshot>>

Recovered ==
    /\ phase = "members" /\ member_list \cap broken = {}
    /\ Goto("cluster")
    /\ UNCHANGED <<inventory, facts, counters, etcdVars>>

-----------------------------------------------------------------------------
(* cluster.yml: the etcd role on the hosts of the group. *)

(* Mutant: the broken hosts join again.                                    *)
NotJoined_Broken ==
    {h \in Group \cup broken : \A c \in WithQuorum : h \notin members[c]}

NotJoined == {h \in Group : \A c \in WithQuorum : h \notin members[c]}

(* Join member(s) to etcd cluster one at a time, in the order of the group,*)
(* where the survivors come first.                                         *)
NextToJoin ==
    {CHOOSE h \in NotJoined : NotJoined \cap survivors # {} => h \in survivors}

(* Add member to etcd cluster. *)
AddMember(h) ==
    /\ phase = "cluster" /\ joining = {} /\ NotJoined # {} /\ h \in NextToJoin
    /\ AcceptsMembers(data[First])
    /\ members' = [members EXCEPT ![data[First]] = @ \cup {h}]
    /\ joining' = {h}
    /\ UNCHANGED <<inventory, phase, has_quorum, member_list, counters, up, data, snapshot>>

AddMemberFails(h) ==
    /\ phase = "cluster" /\ joining = {} /\ NotJoined # {} /\ h \in NextToJoin
    /\ ~AcceptsMembers(data[First])
    /\ Fails

(* Ensure etcd is running: an etcd that runs with the data of another      *)
(* cluster is left alone, and so is a data directory.                      *)
StartMember(h) ==
    /\ h \in joining
    /\ joining' = {}
    /\ up' = up \cup {h}
    /\ data' = [data EXCEPT ![h] =
                   IF @ = 0 THEN data[First] ELSE @]
    /\ UNCHANGED <<inventory, phase, has_quorum, member_list, counters, snapshot, members>>

(* A member that a former run has added and not started is started by the  *)
(* first "Ensure etcd is running".                                         *)
StartListed(h) ==
    /\ phase = "cluster" /\ joining = {} /\ NotJoined = {}
    /\ h \in new \ up
    /\ up' = up \cup {h}
    /\ data' = [data EXCEPT ![h] =
                   IF @ = 0 THEN data[First] ELSE @]
    /\ UNCHANGED <<inventory, phase, facts, counters, snapshot, members>>

Working ==
    \E c \in Clusters : members[c] = Group /\ \A h \in Group : h \in up /\ data[h] = c

(* The handler restarts etcd and waits for it to be up.                    *)
ClusterDone ==
    /\ phase = "cluster" /\ joining = {} /\ NotJoined = {} /\ Group \subseteq up
    /\ HasQuorum(data[First])
    /\ Goto("done")
    /\ UNCHANGED <<inventory, facts, counters, etcdVars>>

-----------------------------------------------------------------------------
RecoveryTask ==
    \/ CheckHealth \/ SaveSnapshot \/ SaveSnapshotFails \/ StopEtcd
    \/ RemoveDataDir \/ RestoreSnapshot \/ RemoveSnapshot \/ StartEtcd
    \/ GetMembers \/ Recovered
    \/ \E m \in Machines : RemoveMember(m)

EtcdRole ==
    \/ ClusterDone
    \/ \E h \in Machines :
          AddMember(h) \/ AddMemberFails(h) \/ StartMember(h) \/ StartListed(h)

Next == StartRun \/ Interrupt \/ RecoveryTask \/ EtcdRole

Spec == Init /\ [][Next]_vars

(* The run goes on, and the operator runs the playbook again when it has   *)
(* failed.                                                                 *)
FairSpec ==
    /\ Spec
    /\ WF_vars(RecoveryTask) /\ WF_vars(EtcdRole) /\ WF_vars(StartRun)

-----------------------------------------------------------------------------
(* Properties. *)

TypeOK ==
    /\ survivors \subseteq Machines /\ broken \subseteq Machines /\ new \subseteq Machines
    /\ etcd_snapshot \in BOOLEAN
    /\ phase \in {"idle", "health", "save", "stop", "remove", "restore", "forget",
                  "start", "list", "members", "cluster", "done", "stopped"}
    /\ has_quorum \in BOOLEAN
    /\ member_list \subseteq Machines /\ joining \subseteq Group
    /\ runs \in 0 .. MaxRuns /\ faults \in 0 .. MaxFaults
    /\ glitches \in 0 .. MaxGlitches
    /\ up \subseteq Group
    /\ data \in [Machines -> {0} \cup Clusters]
    /\ snapshot \in {0} \cup Clusters
    /\ members \in [Clusters -> SUBSET Machines]

(* The data is never lost: the first host has it in its data directory or  *)
(* in /tmp/snapshot.db, whenever the run is interrupted and however often  *)
(* it is repeated; otherwise the operator has the snapshot.                *)
DataKept == etcd_snapshot \/ data[First] # 0 \/ snapshot # 0

(* "The playbook attempts to figure out it the etcd quorum is intact. If   *)
(* quorum is lost it will attempt to take a snapshot" (docs/recover-       *)
(* control-plane.md): the cluster whose members are broken is not thrown   *)
(* away while it works.                                                    *)
QuorumRespected ==
    [][phase = "stop" /\ phase' = "remove" /\ glitches = 0 => ~HasQuorum(1)]_vars

(* The recovery leaves the etcd role a cluster that is healthy: no broken  *)
(* host is a member, and all members run but those that an earlier run has *)
(* added and not started.                                                  *)
HandsOver ==
    [][phase # "cluster" /\ phase' = "cluster" /\ glitches = 0 =>
          \E c \in WithQuorum' :
             /\ First \in members'[c] /\ members'[c] \cap broken = {}
             /\ members'[c] \ Running(c)' \subseteq new]_vars

(* What a repeated run does not repair: an interruption that leaves the    *)
(* first host's etcd stopped, unless the operator provides the snapshot;   *)
(* a member that was added and not started, while there is another host to *)
(* add; and a host that goes on with the data of an earlier cluster, a     *)
(* second survivor where the quorum was lost or one that joined a cluster  *)
(* which a later run replaced.                                             *)
Blocked ==
    \/ First \notin up /\ ~etcd_snapshot
    \/ \E c \in WithQuorum : (members[c] \cap new) \ Running(c) # {} /\ NotJoined # {}
    \/ \E h \in Group : data[h] \notin {0, data[First]}

(* "When finished you should have a fully working control plane again":    *)
(* where nothing of this happened, all the hosts of group etcd end up as   *)
(* the running members of one cluster.                                     *)
Repaired == <>[](Working \/ Blocked)
=============================================================================
