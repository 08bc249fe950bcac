------------------------- MODULE EtcdRecoveryProofs -------------------------
(***************************************************************************)
(* The recovery of etcd never loses the data, for any scenario, any number *)
(* of runs and interruptions.  Where the new hosts replace the broken ones *)
(* and endpoints that work answer, it throws away no cluster that has a    *)
(* quorum, and hands a healthy one to cluster.yml.                         *)
(***************************************************************************)
EXTENDS EtcdRecovery, FiniteSetTheorems, TLAPS

(* What the safety of the data rests on: the first host's etcd runs only   *)
(* with data, it is stopped and there is a snapshot as long as the data    *)
(* directory is in danger, and there is one before the snapshot goes.      *)
FirstInv == First \in survivors /\ First \notin new

CopyInv ==
    /\ First \in up => data[First] # 0
    /\ phase \in {"stop", "remove", "restore", "forget"} => snapshot # 0
    /\ phase \in {"remove", "restore"} => First \notin up
    /\ phase \in {"forget", "start"} => data[First] # 0
    /\ joining # {} => phase = "cluster" /\ data[First] # 0

IInv == TypeOK /\ FirstInv /\ CopyInv /\ DataKept

(* The invariant holds at first.                                           *)
LEMMA InitIInv == Init => IInv
<1> SUFFICES ASSUME Init PROVE IInv
  OBVIOUS
<1> USE ScenariosAssumption, BoundsAssumption
<1>1. PICK s \in Scenarios :
        survivors = s.survivors /\ broken = s.broken /\ new = s.new
  BY DEF Init
<1>2. /\ survivors \subseteq Machines /\ broken \subseteq Machines
      /\ new \subseteq Machines /\ FirstInv
  BY <1>1 DEF FirstInv
<1>3. 1 \in Clusters
  BY DEF Clusters
<1>4. TypeOK
  <2>1. data \in [Machines -> {0} \cup Clusters]
    BY <1>3 DEF Init
  <2>2. members \in [Clusters -> SUBSET Machines]
    BY <1>2 DEF Init
  <2>3. runs \in 0 .. MaxRuns /\ faults \in 0 .. MaxFaults /\ glitches \in 0 .. MaxGlitches
    BY DEF Init
  <2> QED
    BY <1>2, <2>1, <2>2, <2>3 DEF Init, TypeOK, Group
<1>5. CopyInv /\ DataKept
  BY <1>2 DEF Init, CopyInv, DataKept, FirstInv
<1> QED
  BY <1>2, <1>4, <1>5 DEF IInv

(* Every task of the recovery, the etcd role, a new run and an interruption*)
(* preserve it.                                                            *)
LEMMA NextIInv == IInv /\ [Next]_vars => IInv'
<1> SUFFICES ASSUME IInv, [Next]_vars PROVE IInv'
  OBVIOUS
<1> USE ScenariosAssumption, BoundsAssumption DEF IInv
<1>1. CASE StartRun
  BY <1>1 DEF StartRun, Goto, TypeOK, FirstInv, CopyInv, DataKept, Group, Clusters,
              inventory, facts, etcdVars
<1>2. CASE Interrupt
  <2>1. faults' \in 0 .. MaxFaults
    BY <1>2 DEF Interrupt, TypeOK
  <2>2. phase' = "stopped" /\ joining' = {} /\ member_list' = {} /\ has_quorum' = FALSE
    BY <1>2 DEF Interrupt, Stop, Goto
  <2>3. TypeOK'
    BY <1>2, <2>1, <2>2 DEF Interrupt, TypeOK, Group, Clusters, inventory, etcdVars
  <2>4. FirstInv' /\ CopyInv' /\ DataKept'
    BY <1>2, <2>2 DEF Interrupt, FirstInv, CopyInv, DataKept, inventory, etcdVars
  <2> QED
    BY <2>3, <2>4
<1>3. CASE CheckHealth
  <2>1. IsFiniteSet(Healthy)
    <3>1. Healthy \subseteq Machines
      BY DEF Healthy, TypeOK, Group
    <3> QED
      BY <3>1, FS_Subset
  <2>2. PICK late \in SUBSET Healthy :
          /\ glitches + Cardinality(late) <= MaxGlitches
          /\ glitches' = glitches + Cardinality(late)
    BY <1>3 DEF CheckHealth
  <2>3. Cardinality(late) \in Nat
    BY <2>1, FS_Subset, FS_CardinalityType
  <2>4. glitches' \in 0 .. MaxGlitches
    BY <2>2, <2>3 DEF TypeOK
  <2>5. has_quorum' \in BOOLEAN /\ phase' \in {"list", "save"}
    BY <1>3 DEF CheckHealth, HasQuorumFact, Goto
  <2>6. TypeOK'
    BY <1>3, <2>4, <2>5 DEF CheckHealth, TypeOK, Group, Clusters, inventory, etcdVars
  <2>7. FirstInv' /\ CopyInv' /\ DataKept'
    BY <1>3, <2>5 DEF CheckHealth, FirstInv, CopyInv, DataKept, inventory, etcdVars
  <2> QED
    BY <2>6, <2>7
<1>4. CASE SaveSnapshot
  <2>1. 1 \in Clusters
    BY DEF Clusters
  <2>2. First \in Machines /\ snapshot' \in {0} \cup Clusters /\ snapshot' # 0
    BY <1>4, <2>1 DEF SaveSnapshot, TypeOK, CopyInv
  <2> QED
    BY <1>4, <2>2 DEF SaveSnapshot, Goto, TypeOK, FirstInv, CopyInv, DataKept, Group,
                      Clusters, inventory, facts, counters
<1>5. CASE SaveSnapshotFails
  BY <1>5 DEF SaveSnapshotFails, Fails, Stop, Goto, TypeOK, FirstInv, CopyInv, DataKept,
              Group, Clusters, inventory, counters, etcdVars
<1>6. CASE StopEtcd
  BY <1>6 DEF StopEtcd, Goto, TypeOK, FirstInv, CopyInv, DataKept, Group, Clusters,
              inventory, facts, counters
<1>7. CASE RemoveDataDir
  BY <1>7 DEF RemoveDataDir, Goto, TypeOK, FirstInv, CopyInv, DataKept, Group, Clusters,
              inventory, facts, counters
<1>8. CASE RestoreSnapshot
  <2>1. runs + 1 \in Clusters /\ runs + 1 # 0
    BY DEF TypeOK, Clusters
  <2> QED
    BY <1>8, <2>1 DEF RestoreSnapshot, Goto, TypeOK, FirstInv, CopyInv, DataKept, Group,
                      Clusters, inventory, facts, counters
<1>9. CASE RemoveSnapshot
  BY <1>9 DEF RemoveSnapshot, Goto, TypeOK, FirstInv, CopyInv, DataKept, Group, Clusters,
              inventory, facts, counters
<1>10. CASE StartEtcd
  BY <1>10 DEF StartEtcd, Goto, TypeOK, FirstInv, CopyInv, DataKept, Group, Clusters,
               inventory, facts, counters
<1>11. CASE GetMembers
  BY <1>11 DEF GetMembers, WithQuorum, Goto, TypeOK, FirstInv, CopyInv, DataKept, Group,
               Clusters, inventory, counters, etcdVars
<1>12. CASE Recovered
  BY <1>12 DEF Recovered, Goto, TypeOK, FirstInv, CopyInv, DataKept, Group, Clusters,
               inventory, facts, counters, etcdVars
<1>13. ASSUME NEW m \in Machines, RemoveMember(m) PROVE IInv'
  BY <1>13 DEF RemoveMember, WithQuorum, TypeOK, FirstInv, CopyInv, DataKept, Group,
               Clusters, inventory, counters
<1>14. CASE ClusterDone
  BY <1>14 DEF ClusterDone, Goto, TypeOK, FirstInv, CopyInv, DataKept, Group, Clusters,
               inventory, facts, counters, etcdVars
<1>15. ASSUME NEW h \in Machines, AddMember(h) PROVE IInv'
  <2>1. h \in NextToJoin /\ NotJoined # {} /\ data[First] \in Clusters /\ phase = "cluster"
    BY <1>15 DEF AddMember, AcceptsMembers
  <2>2. h \in Group
    BY <2>1 DEF NextToJoin, NotJoined
  <2>3. data[First] # 0
    BY <2>1 DEF Clusters
  <2>4. members' \in [Clusters -> SUBSET Machines]
    BY <1>15, <2>1 DEF AddMember, TypeOK
  <2> QED
    BY <1>15, <2>1, <2>2, <2>3, <2>4 DEF AddMember, TypeOK, FirstInv, CopyInv, DataKept,
            Group, inventory, counters
<1>16. ASSUME NEW h \in Machines, AddMemberFails(h) PROVE IInv'
  BY <1>16 DEF AddMemberFails, Fails, Stop, Goto, TypeOK, FirstInv, CopyInv, DataKept,
               Group, Clusters, inventory, counters, etcdVars
<1>17. ASSUME NEW h \in Machines, StartMember(h) PROVE IInv'
  <2>1. h \in Group /\ data[First] # 0 /\ phase = "cluster"
    BY <1>17 DEF StartMember, CopyInv, TypeOK
  <2>2. data' \in [Machines -> {0} \cup Clusters] /\ data'[First] # 0
    BY <1>17, <2>1 DEF StartMember, TypeOK
  <2> QED
    BY <1>17, <2>1, <2>2 DEF StartMember, TypeOK, FirstInv, CopyInv, DataKept, Group,
            inventory, counters
<1>18. ASSUME NEW h \in Machines, StartListed(h) PROVE IInv'
  <2>1. h \in Group /\ h # First /\ phase = "cluster"
    BY <1>18 DEF StartListed, FirstInv, Group
  <2>2. data' \in [Machines -> {0} \cup Clusters] /\ data'[First] = data[First]
    BY <1>18, <2>1 DEF StartListed, TypeOK
  <2> QED
    BY <1>18, <2>1, <2>2 DEF StartListed, TypeOK, FirstInv, CopyInv, DataKept, Group,
            inventory, facts, counters
<1>19. CASE UNCHANGED vars
  BY <1>19 DEF vars, inventory, facts, counters, etcdVars, TypeOK, FirstInv, CopyInv,
               DataKept, Group, Clusters
<1> QED
  BY <1>1, <1>2, <1>3, <1>4, <1>5, <1>6, <1>7, <1>8, <1>9, <1>10, <1>11, <1>12, <1>13,
     <1>14, <1>15, <1>16, <1>17, <1>18, <1>19 DEF Next, RecoveryTask, EtcdRole

LEMMA RecoveryInvariant == Spec => []IInv
BY InitIInv, NextIInv, PTL DEF Spec

(* Every variable of the recovery keeps its type.                          *)
THEOREM RecoveryTypeCorrect == Spec => []TypeOK
<1>1. IInv => TypeOK
  BY DEF IInv
<1> QED
  BY <1>1, RecoveryInvariant, PTL

(* roles/recover_control_plane/etcd always leaves a copy of the data, on   *)
(* the first host or with the operator, wherever it is interrupted and     *)
(* however often it is repeated.                                           *)
THEOREM RecoveryKeepsData == Spec => []DataKept
<1>1. IInv => DataKept
  BY DEF IInv
<1> QED
  BY <1>1, RecoveryInvariant, PTL

-----------------------------------------------------------------------------
(* Which cluster the recovery leaves: the old one where most of its        *)
(* members have survived, and otherwise one that First has restored.       *)

(* The new hosts replace the broken ones, and are no more than those.      *)
Replacing ==
    \A s \in Scenarios :
        /\ s.survivors \cap s.broken = {} /\ s.new \cap (s.survivors \cup s.broken) = {}
        /\ Cardinality(s.new) <= Cardinality(s.broken)

ReplacedInv ==
    /\ survivors \cap broken = {} /\ new \cap (survivors \cup broken) = {}
    /\ Cardinality(new) <= Cardinality(broken)

(* Most of the old members have survived. *)
Majority == Cardinality(survivors) > Cardinality(broken)

(* Where they have, their cluster is kept: it has its quorum at any time,  *)
(* since hosts are added one by one after the broken ones have left.       *)
OldCluster ==
    /\ survivors \subseteq up /\ \A m \in up : data[m] = 1
    /\ \A m \in Machines : data[m] \in {0, 1}
    /\ survivors \subseteq members[1] /\ members[1] \subseteq Group \cup broken
    /\ \A c \in Clusters \ {1} : members[c] = {}
    /\ \/ members[1] \subseteq survivors \cup broken
       \/ members[1] \cap broken = {} /\ \E h \in Machines : members[1] \ up \subseteq {h}

KeptPlay ==
    /\ phase \in {"idle", "health", "list", "members", "cluster", "done", "stopped"}
    /\ phase \in {"list", "members"} => has_quorum
    /\ phase = "members" => members[1] \cap broken \subseteq member_list
    /\ phase = "cluster" => members[1] \cap broken = {}

(* Where they have not, the old cluster is gone for good, and each one     *)
(* that is restored consists of First and of hosts that joined: survivors, *)
(* as long as there are others, and these go on with the old data.         *)
RestoredClusters ==
    /\ members[1] = survivors \cup broken
    /\ \A c \in Clusters \ {1} :
          /\ members[c] \subseteq Group
          /\ members[c] # {} => First \in members[c]
          /\ survivors # {First} => members[c] \subseteq survivors
    /\ \A s \in survivors \ {First} : data[s] = 1
    /\ \A m \in up : data[m] # 0
    /\ \A m \in Group \ (up \cup {First}) : data[m] = 0

(* Healthy members of clusters that First has left. *)
Behind == {m \in Healthy : First \notin up \/ data[m] # data[First]}

(* They are never enough for the quorum fact, which is therefore true only *)
(* where First's cluster works.                                            *)
RestoringPlay ==
    /\ ~HasQuorumFact(Behind)
    /\ phase \in {"save", "stop"} => ~HasQuorumFact(Healthy)
    /\ phase # "idle" => runs >= 1
    /\ \A m \in Machines : data[m] <= runs + 1
    /\ phase \in {"health", "save", "stop", "remove", "restore"} =>
          \A m \in Machines : data[m] <= runs
    /\ phase \in {"remove", "restore", "forget", "start"} => First \notin up
    /\ phase \in {"forget", "start"} =>
          data[First] = runs + 1 /\ members[runs + 1] = {First}
    /\ phase \in {"list", "members", "cluster"} => First \in up
    /\ phase \in {"list", "members"} => HasQuorum(data[First])
    /\ member_list \cap broken = {}

GlitchFree ==
    glitches = 0 =>
        /\ Majority => OldCluster /\ KeptPlay
        /\ ~Majority => RestoredClusters /\ RestoringPlay

-----------------------------------------------------------------------------
(* Finite sets and majorities. *)

LEMMA FiniteMachines ==
    ASSUME NEW X, X \subseteq Machines
    PROVE  IsFiniteSet(X) /\ Cardinality(X) \in Nat
BY ScenariosAssumption, FS_Subset, FS_CardinalityType

(* More healthy endpoints, fewer that are not.                             *)
LEMMA MoreHealthy ==
    ASSUME NEW G, G \subseteq Machines, NEW X, NEW Y, X \subseteq Y, Y \subseteq G,
           Cardinality(X) >= Cardinality(G \ X)
    PROVE  Cardinality(Y) >= Cardinality(G \ Y)
<1>1. /\ IsFiniteSet(X) /\ IsFiniteSet(Y) /\ IsFiniteSet(G \ X)
      /\ Cardinality(X) \in Nat /\ Cardinality(Y) \in Nat
      /\ Cardinality(G \ X) \in Nat /\ Cardinality(G \ Y) \in Nat
  BY FiniteMachines
<1>2. Cardinality(X) <= Cardinality(Y)
  BY <1>1, FS_Subset
<1>3. G \ Y \in SUBSET (G \ X)
  OBVIOUS
<1>4. Cardinality(G \ Y) <= Cardinality(G \ X)
  BY <1>1, <1>3, FS_Subset
<1>5. QED
  BY <1>1, <1>2, <1>4

LEMMA DisjointUnion ==
    ASSUME NEW X, X \subseteq Machines, NEW Y, Y \subseteq Machines, X \cap Y = {}
    PROVE  Cardinality(X \cup Y) = Cardinality(X) + Cardinality(Y)
<1>1. /\ IsFiniteSet(X) /\ IsFiniteSet(Y)
      /\ Cardinality(X) \in Nat /\ Cardinality(Y) \in Nat
  BY FiniteMachines
<1>2. /\ Cardinality(X \cup Y) = Cardinality(X) + Cardinality(Y) - Cardinality(X \cap Y)
  BY <1>1, FS_Union
<1>3. X \cap Y = {} /\ Cardinality({}) = 0
  BY FS_EmptySet
<1>4. Cardinality(X \cap Y) = 0
  BY <1>3
<1>5. QED
  BY <1>1, <1>2, <1>4

LEMMA Larger ==
    ASSUME NEW X, NEW Y, X \subseteq Y, Y \subseteq Machines
    PROVE  Cardinality(X) <= Cardinality(Y)
BY FiniteMachines, FS_Subset

-----------------------------------------------------------------------------
(* Scenarios. *)

LEMMA InitReplaced == Replacing /\ Init => ReplacedInv
BY DEF Replacing, Init, ReplacedInv

LEMMA NextReplaced == ReplacedInv /\ [Next]_vars => ReplacedInv' /\ UNCHANGED inventory
<1>1. [Next]_vars => UNCHANGED inventory
  BY DEF Next, RecoveryTask, EtcdRole, StartRun, Interrupt, CheckHealth, SaveSnapshot,
         SaveSnapshotFails, Fails, StopEtcd, RemoveDataDir, RestoreSnapshot, RemoveSnapshot,
         StartEtcd, GetMembers, Recovered, RemoveMember, ClusterDone, AddMember,
         AddMemberFails, StartMember, StartListed, vars
<1>2. QED
  BY <1>1 DEF inventory, ReplacedInv

(* As long as every endpoint answers, the quorum fact is about the healthy *)
(* members.                                                                *)
LEMMA NoGlitches ==
    ASSUME IInv, [Next]_vars, glitches' = 0
    PROVE  /\ glitches = 0
           /\ CheckHealth => has_quorum' = HasQuorumFact(Healthy)
<1>1. ASSUME CheckHealth
      PROVE  glitches = 0 /\ has_quorum' = HasQuorumFact(Healthy)
  <2>1. PICK late \in SUBSET Healthy :
          /\ glitches' = glitches + Cardinality(late)
          /\ has_quorum' = HasQuorumFact(Healthy \ late)
    BY <1>1 DEF CheckHealth
  <2>2. Healthy \subseteq Machines
    BY DEF Healthy, IInv, TypeOK, Group
  <2>3. IsFiniteSet(late) /\ Cardinality(late) \in Nat
    BY <2>2, FiniteMachines
  <2>4. glitches \in Nat
    BY BoundsAssumption DEF IInv, TypeOK
  <2>5. glitches = 0 /\ Cardinality(late) = 0
    BY <2>1, <2>3, <2>4
  <2>6. late = {}
    BY <2>3, <2>5, FS_EmptySet
  <2>7. Healthy \ late = Healthy
    BY <2>6
  <2>8. QED
    BY <2>1, <2>5, <2>7
<1>2. CASE UNCHANGED glitches
  BY <1>1, <1>2
<1>3. QED
  BY <1>1, <1>2 DEF Next, RecoveryTask, EtcdRole, StartRun, Interrupt, SaveSnapshot,
         SaveSnapshotFails, Fails, StopEtcd, RemoveDataDir, RestoreSnapshot, RemoveSnapshot,
         StartEtcd, GetMembers, Recovered, RemoveMember, ClusterDone, AddMember,
         AddMemberFails, StartMember, StartListed, vars, counters

-----------------------------------------------------------------------------
(* Most of the members have survived. *)

(* The old cluster works, and is the only one.                             *)
LEMMA OldClusterWorks ==
    ASSUME IInv, ReplacedInv, Majority, OldCluster
    PROVE  /\ WithQuorum = {1} /\ survivors \subseteq Healthy
           /\ Healthy \subseteq Group /\ HasQuorumFact(Healthy)
<1> USE DEF IInv
<1>1. Running(1) = up /\ up \cap members[1] \subseteq Machines /\ members[1] \subseteq Machines
  BY DEF Running, OldCluster, TypeOK, Group
<1>2. survivors \subseteq up \cap members[1]
  BY DEF OldCluster
<1>3. /\ Cardinality(survivors) \in Nat /\ Cardinality(broken) \in Nat
      /\ Cardinality(new) \in Nat /\ Cardinality(members[1]) \in Nat
      /\ Cardinality(up \cap members[1]) \in Nat
  BY <1>1, FiniteMachines DEF TypeOK
<1>4. Cardinality(survivors) <= Cardinality(up \cap members[1])
  BY <1>1, <1>2, Larger
<1>5. 2 * Cardinality(up \cap members[1]) > Cardinality(members[1])
  <2>1. CASE members[1] \subseteq survivors \cup broken
    <3>1. Cardinality(members[1]) <= Cardinality(survivors \cup broken)
      BY <2>1, Larger DEF TypeOK
    <3>2. Cardinality(survivors \cup broken) = Cardinality(survivors) + Cardinality(broken)
      BY DisjointUnion DEF ReplacedInv, TypeOK
    <3>3. QED
      BY <1>3, <1>4, <3>1, <3>2 DEF Majority
  <2>2. CASE ~(members[1] \subseteq survivors \cup broken)
    <3>1. PICK h \in Machines : members[1] \ up \subseteq {h}
      BY <2>2 DEF OldCluster
    <3>2. new # {}
      BY <2>2 DEF OldCluster, Group
    <3>3. IsFiniteSet(new)
      BY FiniteMachines DEF TypeOK
    <3>4. Cardinality(new) # 0
      BY <3>2, <3>3, FS_EmptySet
    <3>5. Cardinality(survivors) >= 2
      BY <1>3, <3>4 DEF ReplacedInv, Majority
    <3>6. /\ members[1] = (up \cap members[1]) \cup (members[1] \ up)
          /\ (up \cap members[1]) \cap (members[1] \ up) = {}
      OBVIOUS
    <3>7. Cardinality(members[1]) =
             Cardinality(up \cap members[1]) + Cardinality(members[1] \ up)
      BY <1>1, <3>6, DisjointUnion
    <3>8. Cardinality(members[1] \ up) <= 1
      <4>1. Cardinality({h}) = 1 /\ {h} \subseteq Machines
        BY FS_Singleton
      <4>2. Cardinality(members[1] \ up) <= Cardinality({h})
        BY <3>1, <4>1, Larger
      <4>3. QED
        BY <4>1, <4>2
    <3>9. Cardinality(members[1] \ up) \in Nat
      BY <1>1, FiniteMachines
    <3>10. QED
      BY <1>3, <1>4, <3>5, <3>7, <3>8, <3>9
  <2>3. QED
    BY <2>1, <2>2
<1>6. 1 \in Clusters
  BY BoundsAssumption DEF Clusters
<1>7. HasQuorum(1)
  BY <1>1, <1>5 DEF HasQuorum
<1>8. ASSUME NEW c \in Clusters \ {1}  PROVE ~HasQuorum(c)
  <2>1. members[c] = {} /\ Running(c) \cap members[c] = {}
    BY DEF OldCluster
  <2>2. QED
    BY <2>1, FS_EmptySet DEF HasQuorum
<1>9. WithQuorum = {1}
  BY <1>6, <1>7, <1>8 DEF WithQuorum
<1>10. survivors \subseteq Healthy /\ Healthy \subseteq Group
  BY <1>2, <1>7 DEF Healthy, OldCluster, TypeOK
<1>11. HasQuorumFact(Healthy)
  <2>1. Group \ Healthy \subseteq new /\ Healthy \subseteq Machines /\ new \subseteq Machines
        /\ Group \ Healthy \subseteq Machines
    BY <1>10 DEF Group, TypeOK
  <2>2. Cardinality(Group \ Healthy) <= Cardinality(new)
    BY <2>1, Larger
  <2>3. Cardinality(survivors) <= Cardinality(Healthy)
    BY <1>10, <2>1, Larger
  <2>4. Cardinality(Group \ Healthy) \in Nat /\ Cardinality(Healthy) \in Nat
    BY <2>1, FiniteMachines
  <2>5. QED
    BY <1>3, <2>2, <2>3, <2>4 DEF HasQuorumFact, ReplacedInv, Majority
<1>12. QED
  BY <1>9, <1>10, <1>11

LEMMA InitOld ==
    ASSUME Init, IInv, ReplacedInv
    PROVE  OldCluster /\ KeptPlay
<1>1. 1 \in Clusters
  BY BoundsAssumption DEF Clusters
<1>2. QED
  BY <1>1 DEF Init, OldCluster, KeptPlay, Group, IInv, TypeOK

(* The broken members leave, and new ones join one by one.                 *)
LEMMA NextOld ==
    ASSUME IInv, ReplacedInv, Majority, OldCluster, KeptPlay, [Next]_vars, glitches' = 0
    PROVE  OldCluster' /\ KeptPlay'
<1> USE DEF IInv
<1>1. UNCHANGED <<survivors, broken, new>>
  BY NextReplaced DEF inventory
<1>2. /\ WithQuorum = {1} /\ HasQuorumFact(Healthy) /\ 1 \in Clusters
      /\ data[First] = 1 /\ First \in survivors /\ survivors \cap broken = {}
  BY OldClusterWorks, BoundsAssumption DEF Clusters, OldCluster, FirstInv, ReplacedInv
<1>3. CASE UNCHANGED <<up, data, members>> /\ KeptPlay'
  BY <1>1, <1>3 DEF OldCluster, Group
<1>4. CASE StartRun \/ Interrupt \/ SaveSnapshotFails \/ (\E h \in Machines : AddMemberFails(h))
  BY <1>1, <1>3, <1>4 DEF StartRun, Interrupt, SaveSnapshotFails, AddMemberFails, Fails,
     Stop, Goto, KeptPlay, etcdVars
<1>5. CASE CheckHealth
  <2>1. has_quorum' = TRUE
    BY <1>2, <1>5, NoGlitches
  <2>2. phase' = "list" /\ UNCHANGED <<up, data, members>>
    BY <1>5, <2>1 DEF CheckHealth, Goto, etcdVars
  <2>3. QED
    BY <1>3, <2>1, <2>2 DEF KeptPlay
<1>6. CASE SaveSnapshot \/ StopEtcd \/ RemoveDataDir \/ RestoreSnapshot \/ RemoveSnapshot
           \/ StartEtcd
  BY <1>6 DEF SaveSnapshot, StopEtcd, RemoveDataDir, RestoreSnapshot, RemoveSnapshot,
     StartEtcd, KeptPlay
<1>7. CASE GetMembers
  <2>1. member_list' = members[1]
    BY <1>2, <1>7 DEF GetMembers, KeptPlay
  <2>2. phase' = "members" /\ UNCHANGED <<up, data, members, has_quorum>>
    BY <1>7 DEF GetMembers, Goto, etcdVars
  <2>3. has_quorum'
    BY <1>7, <2>2 DEF KeptPlay, GetMembers
  <2>4. QED
    BY <1>3, <2>1, <2>2, <2>3 DEF KeptPlay
<1>8. CASE Recovered
  BY <1>1, <1>3, <1>8 DEF Recovered, KeptPlay, Goto, etcdVars
<1>9. ASSUME NEW m \in Machines, RemoveMember(m)
      PROVE  OldCluster' /\ KeptPlay'
  <2>1. members' = [members EXCEPT ![1] = @ \ {m}] /\ UNCHANGED <<up, data, phase, has_quorum>>
    BY <1>2, <1>9 DEF RemoveMember
  <2>2. members'[1] = members[1] \ {m} /\ \A c \in Clusters \ {1} : members'[c] = members[c]
    BY <1>2, <2>1 DEF TypeOK
  <2>3. m \notin survivors /\ member_list' = member_list \ {m} /\ phase = "members"
    BY <1>2, <1>9 DEF RemoveMember
  <2>4. OldCluster'
    BY <1>1, <2>1, <2>2, <2>3 DEF OldCluster, Group
  <2>5. KeptPlay'
    BY <1>1, <2>1, <2>2, <2>3 DEF KeptPlay
  <2>6. QED
    BY <2>4, <2>5
<1>10. CASE ClusterDone
  BY <1>3, <1>10 DEF ClusterDone, KeptPlay, Goto, etcdVars
<1>11. ASSUME NEW h \in Machines, AddMember(h)
       PROVE  OldCluster' /\ KeptPlay'
  <2>1. h \in Group
    BY <1>11 DEF AddMember, NextToJoin, NotJoined
  <2>2. members'[1] = members[1] \cup {h} /\ \A c \in Clusters \ {1} : members'[c] = members[c]
    BY <1>2, <1>11 DEF AddMember, TypeOK
  <2>3. members[1] \subseteq up /\ phase = "cluster" /\ UNCHANGED <<up, data, phase, has_quorum>>
    BY <1>2, <1>11 DEF AddMember, AcceptsMembers, Running
  <2>4. members'[1] \cap broken = {} /\ members'[1] \ up \subseteq {h}
    BY <2>1, <2>2, <2>3 DEF KeptPlay, ReplacedInv, Group
  <2>5. OldCluster'
    BY <1>1, <2>1, <2>2, <2>3, <2>4 DEF OldCluster, Group
  <2>6. KeptPlay'
    BY <1>1, <2>3, <2>4 DEF KeptPlay
  <2>7. QED
    BY <2>5, <2>6
<1>12. ASSUME NEW h \in Machines, StartMember(h) \/ StartListed(h)
       PROVE  OldCluster' /\ KeptPlay'
  <2>1. /\ up' = up \cup {h} /\ UNCHANGED <<members, phase, has_quorum>>
        /\ data' = [data EXCEPT ![h] = IF @ = 0 THEN data[First] ELSE @]
    BY <1>12 DEF StartMember, StartListed, facts
  <2>2. phase = "cluster"
    BY <1>12 DEF StartMember, StartListed, CopyInv
  <2>3. \A m \in Machines : data'[m] = IF m = h THEN 1 ELSE data[m]
    BY <1>2, <2>1 DEF OldCluster, TypeOK
  <2>4. OldCluster'
    BY <1>1, <2>1, <2>3 DEF OldCluster, Group, TypeOK
  <2>5. KeptPlay'
    BY <1>1, <2>1, <2>2 DEF KeptPlay
  <2>6. QED
    BY <2>4, <2>5
<1>13. CASE UNCHANGED vars
  BY <1>3, <1>1, <1>13 DEF vars, etcdVars, facts, KeptPlay
<1>14. QED
  BY <1>4, <1>5, <1>6, <1>7, <1>8, <1>9, <1>10, <1>11, <1>12, <1>13
     DEF Next, RecoveryTask, EtcdRole

-----------------------------------------------------------------------------
(* Few of the members have survived. *)

LEMMA OldClusterGone ==
    ASSUME IInv, ReplacedInv, ~Majority, RestoredClusters
    PROVE  ~HasQuorum(1)
<1> USE DEF IInv
<1>1. Running(1) \cap members[1] \subseteq survivors
  BY DEF Running, RestoredClusters, ReplacedInv, TypeOK, Group
<1>2. /\ Cardinality(Running(1) \cap members[1]) <= Cardinality(survivors)
      /\ Cardinality(Running(1) \cap members[1]) \in Nat
      /\ Cardinality(survivors) \in Nat /\ Cardinality(broken) \in Nat
  BY <1>1, Larger, FiniteMachines DEF TypeOK
<1>3. Cardinality(members[1]) = Cardinality(survivors) + Cardinality(broken)
  BY DisjointUnion DEF RestoredClusters, ReplacedInv, TypeOK
<1>4. QED
  BY <1>2, <1>3 DEF HasQuorum, Majority

(* A cluster that works is one that was restored, without other survivors. *)
LEMMA RestoredWithQuorum ==
    ASSUME IInv, ReplacedInv, ~Majority, RestoredClusters, NEW c \in WithQuorum
    PROVE  /\ c # 1 /\ First \in members[c] /\ members[c] \subseteq Group
           /\ members[c] \cap survivors \subseteq {First} /\ members[c] \cap broken = {}
<1> USE DEF IInv
<1>1. c \in Clusters /\ c # 1 /\ HasQuorum(c)
  BY OldClusterGone DEF WithQuorum
<1>2. members[c] # {}
  <2>1. SUFFICES ASSUME members[c] = {} PROVE FALSE
    OBVIOUS
  <2>2. Running(c) \cap members[c] = {}
    BY <2>1
  <2>3. QED
    BY <1>1, <2>1, <2>2, FS_EmptySet DEF HasQuorum
<1>3. First \in members[c] /\ members[c] \subseteq Group
  BY <1>1, <1>2 DEF RestoredClusters
<1>4. ASSUME NEW s \in members[c] \cap survivors, s # First
      PROVE  FALSE
  <2>1. members[c] \subseteq survivors
    BY <1>1, <1>4, <1>3 DEF RestoredClusters, FirstInv
  <2>2. Running(c) \cap members[c] \subseteq {First}
    BY <1>1, <2>1 DEF Running, RestoredClusters
  <2>3. /\ Cardinality({First}) = 1 /\ IsFiniteSet({First}) /\ {First} \subseteq Machines
        /\ {First, s} \subseteq Machines /\ members[c] \subseteq Machines
    BY <1>3, <1>4, ScenariosAssumption, FS_Singleton DEF TypeOK, Group
  <2>4. {First} \cup {s} = {First, s} /\ s \notin {First}
    BY <1>4
  <2>5. Cardinality({First, s}) = 2
    <3>1. Cardinality({First} \cup {s}) = Cardinality({First}) + 1
      BY <2>3, <2>4, FS_AddElement
    <3>2. QED
      BY <2>3, <2>4, <3>1
  <2>6. Cardinality(Running(c) \cap members[c]) <= 1
    BY <2>2, <2>3, Larger
  <2>7. Cardinality(members[c]) >= 2
    BY <1>3, <1>4, <2>3, <2>5, Larger
  <2>8. /\ Cardinality(members[c]) \in Nat
        /\ Cardinality(Running(c) \cap members[c]) \in Nat
    BY <2>3, FiniteMachines
  <2>9. QED
    BY <1>1, <2>6, <2>7, <2>8 DEF HasQuorum
<1>5. members[c] \cap broken = {}
  BY <1>3 DEF Group, ReplacedInv
<1>6. QED
  BY <1>1, <1>3, <1>4, <1>5

(* Where the quorum fact is true, First's cluster works.                   *)
LEMMA FactOfFirst ==
    ASSUME ~HasQuorumFact(Behind), HasQuorumFact(Healthy)
    PROVE  First \in up /\ HasQuorum(data[First])
<1>1. SUFFICES ASSUME ~(First \in up /\ HasQuorum(data[First])) PROVE FALSE
  OBVIOUS
<1>2. Behind = Healthy
  BY <1>1 DEF Behind, Healthy
<1>3. QED
  BY <1>2

(* Fewer healthy members are not enough, either.                           *)
LEMMA FewerHealthy ==
    ASSUME IInv, IInv', UNCHANGED inventory, NEW Y, Y \subseteq Group,
           ~HasQuorumFact(Y), Behind' \subseteq Y
    PROVE  ~HasQuorumFact(Behind)'
<1>1. Group' = Group /\ Group \subseteq Machines
  BY DEF inventory, Group, IInv, TypeOK
<1>2. SUFFICES ASSUME Cardinality(Behind') >= Cardinality(Group \ Behind') PROVE FALSE
  BY <1>1 DEF HasQuorumFact
<1>3. Cardinality(Y) >= Cardinality(Group \ Y)
  BY <1>1, <1>2, MoreHealthy
<1>4. QED
  BY <1>3 DEF HasQuorumFact

LEMMA HealthyInGroup ==
    ASSUME IInv
    PROVE  Healthy \subseteq Group /\ Behind \subseteq Group
BY DEF IInv, TypeOK, Healthy, Behind

(* A cluster whose members and whose running members are the same.         *)
LEMMA SameQuorum ==
    ASSUME NEW c, members'[c] = members[c], Running(c)' = Running(c)
    PROVE  HasQuorum(c)' <=> HasQuorum(c)
BY DEF HasQuorum

LEMMA InitRestored ==
    ASSUME Init, IInv, ReplacedInv, ~Majority
    PROVE  RestoredClusters /\ RestoringPlay
<1> USE DEF IInv
<1>1. 1 \in Clusters
  BY BoundsAssumption DEF Clusters
<1>2. RestoredClusters
  BY <1>1 DEF Init, RestoredClusters, Group, FirstInv, ReplacedInv, TypeOK
<1>3. \A m \in Machines : data[m] <= runs + 1
  BY DEF Init
<1>4. Behind = {}
  <2>1. \A m \in up : data[m] = 1
    BY DEF Init, TypeOK, Group
  <2>2. QED
    BY <1>2, <2>1, OldClusterGone DEF Behind, Healthy
<1>5. ~HasQuorumFact(Behind)
  <2>1. First \in Group /\ Group \subseteq Machines
    BY DEF Group, FirstInv, TypeOK
  <2>2. IsFiniteSet(Group) /\ Cardinality(Group) \in Nat /\ Cardinality(Group) # 0
    BY <2>1, FiniteMachines, FS_EmptySet
  <2>3. Group \ {} = Group /\ Cardinality({}) = 0
    BY FS_EmptySet
  <2>4. QED
    BY <1>4, <2>2, <2>3 DEF HasQuorumFact
<1>6. QED
  BY <1>2, <1>3, <1>5 DEF Init, RestoringPlay

(* A task that touches no etcd leaves the clusters as they are.            *)
LEMMA SameClusters ==
    ASSUME UNCHANGED <<inventory, etcdVars>>
    PROVE  /\ Healthy' = Healthy /\ Behind' = Behind /\ Group' = Group
           /\ \A c : HasQuorum(c)' <=> HasQuorum(c)
BY DEF Healthy, Behind, HasQuorum, Running, Group, inventory, etcdVars

(* First stops, its old data goes and a new cluster is restored, while the *)
(* members of the clusters it leaves are behind.                           *)
LEMMA RestoreTasks ==
    ASSUME IInv, IInv', ReplacedInv, ~Majority, RestoredClusters, RestoringPlay,
           UNCHANGED inventory,
           StopEtcd \/ RemoveDataDir \/ RestoreSnapshot \/ StartEtcd
    PROVE  RestoredClusters' /\ RestoringPlay'
<1> USE DEF IInv
<1>1. UNCHANGED <<survivors, broken, new>> /\ Group' = Group
  BY DEF inventory, Group
<1>2. /\ Healthy \subseteq Group /\ Behind \subseteq Group
      /\ runs \in Nat /\ \A m \in Machines : data[m] \in Nat
  BY HealthyInGroup, BoundsAssumption DEF TypeOK, Clusters
<1>3. CASE StopEtcd
  <2>1. RestoredClusters'
    BY <1>1, <1>3 DEF StopEtcd, RestoredClusters, Group
  <2>2. ASSUME NEW c, HasQuorum(c)', c \in Clusters  PROVE HasQuorum(c)
    <3>1. /\ Running(c)' \cap members[c] \subseteq Running(c) \cap members[c]
          /\ members[c] \subseteq Machines /\ members'[c] = members[c]
      BY <1>3, <2>2 DEF StopEtcd, Running, TypeOK
    <3>2. /\ Cardinality(Running(c)' \cap members[c])
                <= Cardinality(Running(c) \cap members[c])
          /\ Cardinality(Running(c)' \cap members[c]) \in Nat
          /\ Cardinality(Running(c) \cap members[c]) \in Nat
          /\ Cardinality(members[c]) \in Nat
      BY <3>1, Larger, FiniteMachines
    <3>3. QED
      BY <2>2, <3>1, <3>2 DEF HasQuorum
  <2>3. Behind' \subseteq Healthy
    BY <1>3, <2>2 DEF StopEtcd, Behind, Healthy, RestoredClusters, TypeOK, Group
  <2>4. ~HasQuorumFact(Behind)'
    BY <1>2, <1>3, <2>3, FewerHealthy DEF StopEtcd, RestoringPlay
  <2>5. QED
    BY <1>1, <1>3, <2>1, <2>4 DEF StopEtcd, Goto, RestoringPlay, facts, counters
<1>4. CASE RemoveDataDir
  <2>1. /\ First \notin up /\ up' = up /\ members' = members /\ phase' = "restore"
        /\ \A m \in Machines \ {First} : data'[m] = data[m]
        /\ data'[First] = 0 /\ UNCHANGED <<runs, member_list>>
    BY <1>4, ScenariosAssumption
       DEF RemoveDataDir, RestoringPlay, TypeOK, Goto, facts, counters
  <2>2. RestoredClusters'
    BY <1>1, <2>1 DEF RestoredClusters, Group, TypeOK
  <2>3. \A c : Running(c)' = Running(c)
    BY <2>1 DEF Running, TypeOK, Group
  <2>4. Behind' \subseteq Behind
    BY <2>1, <2>3, SameQuorum DEF Behind, Healthy, TypeOK, Group
  <2>5. ~HasQuorumFact(Behind)'
    BY <1>2, <2>4, FewerHealthy DEF RestoringPlay
  <2>6. \A m \in Machines : data'[m] <= runs
    BY <1>2, <1>4, <2>1 DEF RestoringPlay, RemoveDataDir
  <2>7. \A m \in Machines : data'[m] <= runs + 1
    BY <1>2, <1>4, <2>1 DEF RestoringPlay
  <2>8. QED
    BY <1>1, <1>4, <2>1, <2>2, <2>5, <2>6, <2>7 DEF RestoringPlay, RemoveDataDir
<1>5. CASE RestoreSnapshot
  <2>1. /\ First \notin up /\ up' = up /\ phase' = "forget" /\ UNCHANGED <<runs, member_list>>
        /\ runs >= 1 /\ runs + 1 \in Clusters /\ runs + 1 # 1
    BY <1>2, <1>5, BoundsAssumption
       DEF RestoreSnapshot, RestoringPlay, TypeOK, Goto, facts, counters, Clusters
  <2>2. /\ \A m \in Machines \ {First} : data'[m] = data[m]
        /\ data'[First] = runs + 1
        /\ members'[runs + 1] = {First}
        /\ \A c \in Clusters \ {runs + 1} : members'[c] = members[c]
    BY <1>5, <2>1, ScenariosAssumption DEF RestoreSnapshot, TypeOK
  <2>3. RestoredClusters'
    <3>1. members'[1] = members[1]
      BY <2>1, <2>2, BoundsAssumption DEF Clusters
    <3>2. First \in Group /\ First \in survivors
      BY DEF Group, FirstInv
    <3>3. QED
      BY <1>1, <2>1, <2>2, <3>1, <3>2 DEF RestoredClusters, Group, TypeOK
  <2>4. \A m \in up : m \in Machines /\ m # First /\ data[m] # runs + 1 /\ data[m] \in Clusters
    BY <1>2, <1>5, <2>1 DEF RestoreSnapshot, RestoringPlay, RestoredClusters, TypeOK, Group
  <2>5. \A c \in Clusters \ {runs + 1} : Running(c)' = Running(c)
    BY <2>1, <2>2, <2>4 DEF Running
  <2>6. Behind' \subseteq Behind
    <3>1. SUFFICES ASSUME NEW m \in Behind' PROVE m \in Behind
      OBVIOUS
    <3>2. m \in up /\ data'[m] = data[m] /\ m \in members'[data[m]] /\ HasQuorum(data[m])'
      BY <2>1, <2>2, <2>4 DEF Behind, Healthy
    <3>3. HasQuorum(data[m]) /\ m \in members[data[m]]
      BY <2>2, <2>4, <2>5, <3>2, SameQuorum
    <3>4. QED
      BY <2>1, <3>2, <3>3 DEF Behind, Healthy
  <2>7. ~HasQuorumFact(Behind)'
    BY <1>2, <2>6, FewerHealthy DEF RestoringPlay
  <2>8. \A m \in Machines : data'[m] <= runs + 1
    BY <1>2, <2>2 DEF RestoringPlay
  <2>9. QED
    BY <1>1, <2>1, <2>2, <2>3, <2>7, <2>8 DEF RestoringPlay
<1>6. CASE StartEtcd
  <2>1. /\ First \notin up /\ up' = up \cup {First} /\ phase' = "list"
        /\ UNCHANGED <<runs, member_list, data, members>> /\ runs + 1 \in Clusters
        /\ data[First] = runs + 1 /\ members[runs + 1] = {First} /\ runs >= 1
    BY <1>2, <1>6, BoundsAssumption
       DEF StartEtcd, RestoringPlay, TypeOK, Goto, facts, counters, Clusters
  <2>2. RestoredClusters'
    BY <1>1, <1>2, <2>1 DEF RestoredClusters, Group
  <2>3. HasQuorum(runs + 1)'
    <3>1. Running(runs + 1)' \cap members'[runs + 1] = {First}
      BY <2>1 DEF Running
    <3>2. Cardinality({First}) = 1
      BY FS_Singleton
    <3>3. QED
      BY <2>1, <3>1, <3>2 DEF HasQuorum
  <2>4. \A c : c # runs + 1 => Running(c)' = Running(c)
    BY <2>1 DEF Running
  <2>5. Behind' \subseteq Behind
    <3>1. SUFFICES ASSUME NEW m \in Behind' PROVE m \in Behind
      OBVIOUS
    <3>2. m \in up' /\ data[m] # runs + 1 /\ m \in members[data[m]] /\ HasQuorum(data[m])'
      BY <2>1 DEF Behind, Healthy
    <3>3. m \in up /\ HasQuorum(data[m])
      BY <2>1, <2>4, <3>2, SameQuorum
    <3>4. QED
      BY <2>1, <3>2, <3>3 DEF Behind, Healthy
  <2>6. ~HasQuorumFact(Behind)'
    BY <1>2, <2>5, FewerHealthy DEF RestoringPlay
  <2>7. QED
    BY <1>1, <2>1, <2>2, <2>3, <2>6 DEF RestoringPlay
<1>7. QED
  BY <1>3, <1>4, <1>5, <1>6

(* Hosts join the cluster of First.                                        *)
LEMMA JoinTasks ==
    ASSUME IInv, IInv', ReplacedInv, ~Majority, RestoredClusters, RestoringPlay,
           UNCHANGED inventory, NEW h \in Machines,
           AddMember(h) \/ StartMember(h) \/ StartListed(h)
    PROVE  RestoredClusters' /\ RestoringPlay'
<1> USE DEF IInv
<1>1. UNCHANGED <<survivors, broken, new>> /\ Group' = Group
  BY DEF inventory, Group
<1>2. /\ Behind \subseteq Group /\ h \in Group
      /\ runs \in Nat /\ \A m \in Machines : data[m] \in Nat
  BY HealthyInGroup, BoundsAssumption
     DEF TypeOK, Clusters, AddMember, NextToJoin, NotJoined, StartMember, StartListed, Group
<1>3. /\ phase = "cluster" /\ UNCHANGED <<phase, runs, member_list>>
      /\ First \in up /\ First \in Group /\ data[First] \in Clusters
  BY DEF AddMember, StartMember, StartListed, CopyInv, RestoringPlay, FirstInv, TypeOK,
         facts, counters, Group
<1>4. CASE AddMember(h)
  <2>1. /\ members' = [members EXCEPT ![data[First]] = @ \cup {h}]
        /\ data[First] \in WithQuorum /\ UNCHANGED <<up, data>>
    BY <1>4 DEF AddMember, AcceptsMembers, WithQuorum
  <2>2. /\ members'[data[First]] = members[data[First]] \cup {h}
        /\ \A c \in Clusters \ {data[First]} : members'[c] = members[c]
    BY <1>3, <2>1 DEF TypeOK
  <2>3. data[First] # 1 /\ First \in members[data[First]]
    BY <2>1, RestoredWithQuorum
  <2>4. ASSUME survivors # {First}  PROVE h \in survivors
    <3>1. PICK s \in survivors : s # First
      BY <2>4 DEF FirstInv
    <3>2. s \in NotJoined
      BY <3>1, RestoredWithQuorum DEF NotJoined, Group
    <3>3. h = CHOOSE i \in NotJoined : NotJoined \cap survivors # {} => i \in survivors
      BY <1>4 DEF AddMember, NextToJoin
    <3>4. QED
      BY <3>1, <3>2, <3>3
  <2>5. RestoredClusters'
    BY <1>1, <1>2, <2>1, <2>2, <2>3, <2>4, BoundsAssumption
       DEF RestoredClusters, Group, Clusters
  <2>6. Behind' \subseteq Behind
    <3>1. SUFFICES ASSUME NEW m \in Behind' PROVE m \in Behind
      OBVIOUS
    <3>2. /\ m \in up /\ data[m] # data[First] /\ data[m] \in Clusters
          /\ m \in members'[data[m]] /\ HasQuorum(data[m])'
      BY <1>3, <2>1 DEF Behind, Healthy, RestoredClusters, TypeOK, Group
    <3>3. members'[data[m]] = members[data[m]] /\ Running(data[m])' = Running(data[m])
      BY <2>1, <2>2, <3>2 DEF Running
    <3>4. HasQuorum(data[m])
      BY <2>1, <3>2, <3>3, SameQuorum
    <3>5. QED
      BY <2>1, <3>2, <3>3, <3>4 DEF Behind, Healthy
  <2>7. ~HasQuorumFact(Behind)'
    BY <1>2, <2>6, FewerHealthy DEF RestoringPlay
  <2>8. QED
    BY <1>1, <1>3, <2>1, <2>5, <2>7 DEF RestoringPlay
<1>5. CASE StartMember(h) \/ StartListed(h)
  <2>1. /\ up' = up \cup {h} /\ members' = members
        /\ data' = [data EXCEPT ![h] = IF @ = 0 THEN data[First] ELSE @]
    BY <1>5 DEF StartMember, StartListed
  <2>2. CASE h \in up
    <3>1. up' = up /\ data' = data
      BY <2>1, <2>2 DEF RestoredClusters, TypeOK
    <3>2. UNCHANGED etcdVars
      BY <1>5, <2>1, <3>1 DEF StartMember, StartListed, etcdVars
    <3>3. ~HasQuorumFact(Behind)'
      BY <1>1, <3>2, SameClusters DEF RestoringPlay, HasQuorumFact
    <3>4. QED
      BY <1>1, <1>3, <2>1, <3>1, <3>3 DEF RestoringPlay, RestoredClusters, Group
  <2>3. CASE h \notin up
    <3>1. h # First /\ data[h] = 0 /\ h \notin survivors
      BY <1>2, <1>3, <2>3 DEF RestoredClusters
    <3>2. /\ \A m \in Machines \ {h} : data'[m] = data[m]
          /\ data'[h] = data[First]
      BY <2>1, <3>1 DEF TypeOK
    <3>3. data'[First] = data[First] /\ data[First] # 0 /\ First \in Machines
      BY <1>3, <3>1, <3>2, ScenariosAssumption DEF CopyInv
    <3>4. RestoredClusters'
      BY <1>1, <2>1, <3>1, <3>2, <3>3 DEF RestoredClusters, Group, TypeOK
    <3>5. \A c : c # data[First] => Running(c)' = Running(c)
      BY <2>1, <2>3, <3>2 DEF Running, TypeOK, Group
    <3>6. Behind' \subseteq Behind
      <4>1. SUFFICES ASSUME NEW m \in Behind' PROVE m \in Behind
        OBVIOUS
      <4>2. /\ m \in up' /\ data'[m] # data[First]
            /\ m \in members[data'[m]] /\ HasQuorum(data[m])'
        BY <1>3, <2>1, <3>3 DEF Behind, Healthy
      <4>3. m \in up /\ data'[m] = data[m]
        BY <2>1, <3>2, <4>2 DEF TypeOK, Group
      <4>4. HasQuorum(data[m])
        BY <2>1, <3>5, <4>2, <4>3, SameQuorum
      <4>5. QED
        BY <4>2, <4>3, <4>4 DEF Behind, Healthy
    <3>7. ~HasQuorumFact(Behind)'
      BY <1>2, <3>6, FewerHealthy DEF RestoringPlay
    <3>8. \A m \in Machines : data'[m] <= runs + 1
      BY <3>2, <3>3 DEF RestoringPlay
    <3>9. QED
      BY <1>1, <1>3, <2>1, <3>4, <3>7, <3>8 DEF RestoringPlay
  <2>4. QED
    BY <2>2, <2>3
<1>6. QED
  BY <1>4, <1>5

LEMMA NextRestored ==
    ASSUME IInv, IInv', ReplacedInv, ~Majority, RestoredClusters, RestoringPlay,
           [Next]_vars, glitches' = 0
    PROVE  RestoredClusters' /\ RestoringPlay'
<1> USE DEF IInv
<1>1. UNCHANGED inventory /\ UNCHANGED <<survivors, broken, new>> /\ Group' = Group
  BY NextReplaced DEF inventory, Group
<1>2. /\ runs \in Nat /\ \A m \in Machines : data[m] \in Nat
  BY BoundsAssumption DEF TypeOK, Clusters
<1>3. ASSUME UNCHANGED etcdVars
      PROVE  /\ RestoredClusters' /\ ~HasQuorumFact(Behind)'
             /\ HasQuorumFact(Healthy)' <=> HasQuorumFact(Healthy)
             /\ \A c : HasQuorum(c)' <=> HasQuorum(c)
             /\ UNCHANGED <<up, data, members>>
  <2>1. /\ Healthy' = Healthy /\ Behind' = Behind
        /\ \A c : HasQuorum(c)' <=> HasQuorum(c)
    BY <1>1, <1>3, SameClusters
  <2>2. RestoredClusters'
    BY <1>1, <1>3 DEF RestoredClusters, Group, etcdVars
  <2>3. QED
    BY <1>1, <1>3, <2>1, <2>2 DEF HasQuorumFact, RestoringPlay, etcdVars
<1>4. CASE StartRun
  <2>1. \A m \in Machines : data[m] <= runs' /\ data[m] <= runs' + 1
    BY <1>2, <1>4 DEF StartRun, RestoringPlay
  <2>2. QED
    BY <1>1, <1>2, <1>3, <1>4, <2>1 DEF StartRun, Goto, RestoringPlay, facts, etcdVars
<1>5. CASE Interrupt \/ SaveSnapshotFails \/ (\E h \in Machines : AddMemberFails(h))
  BY <1>1, <1>3, <1>5 DEF Interrupt, SaveSnapshotFails, AddMemberFails, Fails, Stop, Goto,
     RestoringPlay, counters
<1>6. CASE CheckHealth
  <2>1. has_quorum' = HasQuorumFact(Healthy)
    BY <1>6, NoGlitches
  <2>2. /\ UNCHANGED etcdVars /\ UNCHANGED <<runs, member_list>> /\ phase = "health"
        /\ phase' = IF has_quorum' THEN "list" ELSE "save"
    BY <1>6 DEF CheckHealth, Goto
  <2>3. CASE HasQuorumFact(Healthy)
    <3>1. First \in up /\ HasQuorum(data[First])
      BY <2>3, FactOfFirst DEF RestoringPlay
    <3>2. QED
      BY <1>1, <1>3, <2>1, <2>2, <2>3, <3>1 DEF RestoringPlay
  <2>4. CASE ~HasQuorumFact(Healthy)
    BY <1>1, <1>3, <2>1, <2>2, <2>4 DEF RestoringPlay
  <2>5. QED
    BY <2>3, <2>4
<1>7. CASE SaveSnapshot
  <2>1. /\ UNCHANGED <<up, data, members, runs, member_list>> /\ phase = "save"
        /\ phase' = "stop"
    BY <1>7 DEF SaveSnapshot, Goto, facts, counters
  <2>2. Healthy' = Healthy /\ Behind' = Behind
    BY <2>1 DEF Healthy, Behind, HasQuorum, Running
  <2>3. RestoredClusters'
    BY <1>1, <2>1 DEF RestoredClusters, Group
  <2>4. ~HasQuorumFact(Behind)' /\ ~HasQuorumFact(Healthy)'
    BY <1>1, <2>1, <2>2 DEF HasQuorumFact, RestoringPlay
  <2>5. QED
    BY <1>1, <2>1, <2>3, <2>4 DEF RestoringPlay
<1>8. CASE StopEtcd \/ RemoveDataDir \/ RestoreSnapshot \/ StartEtcd
  BY <1>1, <1>8, RestoreTasks
<1>9. CASE RemoveSnapshot
  <2>1. /\ UNCHANGED <<up, data, members, runs, member_list>> /\ phase = "forget"
        /\ phase' = "start"
    BY <1>9 DEF RemoveSnapshot, Goto, facts, counters
  <2>2. Behind' = Behind
    BY <2>1 DEF Healthy, Behind, HasQuorum, Running
  <2>3. RestoredClusters'
    BY <1>1, <2>1 DEF RestoredClusters, Group
  <2>4. ~HasQuorumFact(Behind)'
    BY <1>1, <2>1, <2>2 DEF HasQuorumFact, RestoringPlay
  <2>5. QED
    BY <1>1, <2>1, <2>3, <2>4 DEF RestoringPlay
<1>10. CASE GetMembers
  <2>1. /\ UNCHANGED etcdVars /\ UNCHANGED runs /\ phase = "list" /\ phase' = "members"
    BY <1>10 DEF GetMembers, Goto, counters
  <2>2. member_list' \cap broken = {}
    BY <1>10, RestoredWithQuorum DEF GetMembers, RestoringPlay
  <2>3. QED
    BY <1>1, <1>3, <2>1, <2>2 DEF RestoringPlay
<1>11. ASSUME NEW m \in Machines, RemoveMember(m)
       PROVE  RestoredClusters' /\ RestoringPlay'
  BY <1>11 DEF RemoveMember, RestoringPlay
<1>12. CASE Recovered \/ ClusterDone
  BY <1>1, <1>3, <1>12 DEF Recovered, ClusterDone, Goto, RestoringPlay, facts, counters
<1>13. ASSUME NEW h \in Machines, AddMember(h) \/ StartMember(h) \/ StartListed(h)
       PROVE  RestoredClusters' /\ RestoringPlay'
  BY <1>1, <1>13, JoinTasks
<1>14. CASE UNCHANGED vars
  BY <1>1, <1>3, <1>14 DEF vars, RestoringPlay, facts, counters
<1>15. QED
  BY <1>4, <1>5, <1>6, <1>7, <1>8, <1>9, <1>10, <1>11, <1>12, <1>13, <1>14
     DEF Next, RecoveryTask, EtcdRole

-----------------------------------------------------------------------------
RecoveryInv == IInv /\ ReplacedInv /\ GlitchFree

LEMMA RecoveryInitInv == Replacing /\ Init => RecoveryInv
<1>1. SUFFICES ASSUME Replacing, Init PROVE RecoveryInv
  OBVIOUS
<1>2. IInv /\ ReplacedInv
  BY <1>1, InitIInv, InitReplaced
<1>3. QED
  BY <1>1, <1>2, InitOld, InitRestored DEF RecoveryInv, GlitchFree

LEMMA RecoveryNextInv == RecoveryInv /\ [Next]_vars => RecoveryInv'
<1>1. SUFFICES ASSUME RecoveryInv, [Next]_vars PROVE RecoveryInv'
  OBVIOUS
<1>2. IInv' /\ ReplacedInv' /\ UNCHANGED inventory
  BY <1>1, NextIInv, NextReplaced DEF RecoveryInv
<1>3. Majority' <=> Majority
  BY <1>2 DEF Majority, inventory
<1>4. ASSUME glitches' = 0
      PROVE  /\ Majority' => OldCluster' /\ KeptPlay'
             /\ ~Majority' => RestoredClusters' /\ RestoringPlay'
  <2>1. glitches = 0
    BY <1>1, <1>4, NoGlitches DEF RecoveryInv
  <2>2. CASE Majority
    BY <1>1, <1>3, <1>4, <2>1, <2>2, NextOld DEF RecoveryInv, GlitchFree
  <2>3. CASE ~Majority
    BY <1>1, <1>2, <1>3, <1>4, <2>1, <2>3, NextRestored DEF RecoveryInv, GlitchFree
  <2>4. QED
    BY <2>2, <2>3
<1>5. QED
  BY <1>2, <1>4 DEF RecoveryInv, GlitchFree

LEMMA RecoveryInvAlways == Replacing => (Spec => []RecoveryInv)
<1>1. SUFFICES ASSUME Replacing PROVE Spec => []RecoveryInv
  OBVIOUS
<1>2. Init => RecoveryInv
  BY <1>1, RecoveryInitInv
<1>3. QED
  BY <1>2, RecoveryNextInv, PTL DEF Spec

(* "If quorum is lost it will attempt to take a snapshot": where the new   *)
(* hosts replace the broken ones and endpoints that work answer, no run of *)
(* the recovery, repeated or not, throws away a cluster with a quorum.     *)
THEOREM QuorumIsRespected == Replacing => (Spec => QuorumRespected)
<1>1. SUFFICES ASSUME Replacing PROVE Spec => QuorumRespected
  OBVIOUS
<1>2. RecoveryInv /\ [Next]_vars =>
         [phase = "stop" /\ phase' = "remove" /\ glitches = 0 => ~HasQuorum(1)]_vars
  <2>1. SUFFICES ASSUME RecoveryInv, phase = "stop", glitches = 0
                 PROVE  ~HasQuorum(1)
    OBVIOUS
  <2>2. ~Majority /\ RestoredClusters
    BY <2>1 DEF RecoveryInv, GlitchFree, KeptPlay
  <2>3. QED
    BY <2>1, <2>2, OldClusterGone DEF RecoveryInv
<1>3. QED
  BY <1>1, <1>2, RecoveryInvAlways, PTL DEF Spec, QuorumRespected

(* cluster.yml, which the recovery imports, finds a cluster that works, of *)
(* which First is a member, no broken host is, and survivors run.          *)
THEOREM RecoveryHandsOver == Replacing => (Spec => HandsOver)
<1>1. SUFFICES ASSUME Replacing PROVE Spec => HandsOver
  OBVIOUS
<1>2. ASSUME RecoveryInv, [Next]_vars, phase # "cluster", phase' = "cluster", glitches = 0
      PROVE  \E c \in WithQuorum' :
                /\ First \in members'[c] /\ members'[c] \cap broken = {}
                /\ members'[c] \ Running(c)' \subseteq new
  <2> USE <1>2 DEF RecoveryInv, IInv
  <2>1. Recovered
    BY DEF Next, RecoveryTask, EtcdRole, StartRun, Interrupt, CheckHealth, SaveSnapshot,
       SaveSnapshotFails, Fails, Stop, StopEtcd, RemoveDataDir, RestoreSnapshot,
       RemoveSnapshot, StartEtcd, GetMembers, RemoveMember, ClusterDone, AddMember,
       AddMemberFails, StartMember, StartListed, vars, Goto, CopyInv
  <2>2. /\ UNCHANGED <<up, data, members>> /\ phase = "members"
        /\ member_list \cap broken = {}
    BY <2>1 DEF Recovered, etcdVars
  <2>3. /\ \A c : Running(c)' = Running(c) /\ (HasQuorum(c)' <=> HasQuorum(c))
        /\ WithQuorum' = WithQuorum
    BY <2>2 DEF Running, HasQuorum, WithQuorum
  <2>4. SUFFICES \E c \in WithQuorum :
                    /\ First \in members[c] /\ members[c] \cap broken = {}
                    /\ members[c] \ Running(c) \subseteq new
    BY <2>2, <2>3
  <2>5. CASE Majority
    <3>1. OldCluster /\ KeptPlay
      BY <2>5 DEF GlitchFree
    <3>2. 1 \in WithQuorum
      BY <2>5, <3>1, OldClusterWorks
    <3>3. members[1] \cap broken = {} /\ First \in members[1]
      BY <2>2, <3>1 DEF KeptPlay, OldCluster, FirstInv
    <3>4. members[1] \ Running(1) \subseteq new
      BY <3>1, <3>3 DEF OldCluster, Running, Group
    <3>5. QED
      BY <3>2, <3>3, <3>4
  <2>6. CASE ~Majority
    <3>1. RestoredClusters /\ RestoringPlay
      BY <2>6 DEF GlitchFree
    <3>2. First \in up /\ data[First] \in WithQuorum
      BY <2>2, <3>1, ScenariosAssumption
         DEF RestoringPlay, RestoredClusters, WithQuorum, TypeOK
    <3>3. /\ First \in members[data[First]] /\ members[data[First]] \subseteq Group
          /\ members[data[First]] \cap survivors \subseteq {First}
          /\ members[data[First]] \cap broken = {}
      BY <2>6, <3>1, <3>2, RestoredWithQuorum
    <3>4. First \in Running(data[First])
      BY <3>2 DEF Running
    <3>5. members[data[First]] \ Running(data[First]) \subseteq new
      BY <3>3, <3>4 DEF Group
    <3>6. QED
      BY <3>2, <3>3, <3>5
  <2>7. QED
    BY <2>5, <2>6
<1>3. RecoveryInv /\ [Next]_vars =>
         [phase # "cluster" /\ phase' = "cluster" /\ glitches = 0 =>
            \E c \in WithQuorum' :
               /\ First \in members'[c] /\ members'[c] \cap broken = {}
               /\ members'[c] \ Running(c)' \subseteq new]_vars
  BY <1>2
<1>4. QED
  BY <1>1, <1>3, RecoveryInvAlways, PTL DEF Spec, HandsOver
=============================================================================
