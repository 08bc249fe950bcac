--------------------------- MODULE UpgradeProofs ---------------------------
(***************************************************************************)
(* For every inventory, batch size, setting of the options and number of   *)
(* runs and faults: the order of the upgrade; which nodes it makes         *)
(* unschedulable, and that it drains them before it touches them; and what *)
(* it leaves when no run fails.                                            *)
(***************************************************************************)
EXTENDS Upgrade, FiniteSetTheorems, TLAPS

USE GroupsAssumption

(* A batch is part of a play that goes on, and consists of its hosts.      *)
BatchOfPlay ==
    /\ play \in {"idle", "done"} => batch = {} /\ pending = {}
    /\ play = "masters" => pending \cup batch \subseteq Masters
    /\ play = "workers" => pending \cup batch \subseteq Workers

(* A kubelet that runs the new version is installed.                       *)
RunsInstalled == kubeletRun \subseteq kubeletDisk

UpToDate == server \cap kubeletRun

(* Once the masters' play is over every master is up to date.              *)
MastersDone == play \in {"workers", "done"} \/ cpDone => Masters \subseteq UpToDate

(* The masters that the current play has dealt with are up to date.        *)
DealtWith == play = "masters" => Masters \ (pending \cup batch) \subseteq UpToDate

(* The masters before those of the batch have been dealt with.             *)
InOrder ==
    play = "masters" =>
        \A n \in batch, m \in Masters :
            Position[m] < Position[n] => m \notin pending \cup batch

(* How far the masters of the batch have come, task by task.               *)
Finished == batch \ (todo \cup failed)

BatchProgress ==
    play = "masters" =>
    /\ task = "kubelet_install" => Finished \subseteq kubeletDisk
    /\ task \in {"kubelet_config", "kubelet_flush", "control_plane",
                 "uncordon", "handlers"} => batch \subseteq kubeletDisk
    /\ task = "control_plane" => /\ Finished \subseteq server
                                 /\ {"kubelet"} \X Finished \subseteq notified
    /\ task \in {"uncordon", "handlers"} => batch \subseteq server
    /\ task = "uncordon" => {"kubelet"} \X batch \subseteq notified
    /\ task = "handlers" => /\ {"kubelet"} \X todo \subseteq notified
                            /\ Finished \subseteq kubeletRun

IInv ==
    /\ TypeOK
    /\ BatchOfPlay
    /\ RunsInstalled
    /\ MastersDone
    /\ DealtWith
    /\ InOrder
    /\ BatchProgress
    /\ WorkersNeverAhead
    /\ MastersInOrder
-----------------------------------------------------------------------------
(* The variables keep their types, for every value of the constants.       *)
LEMMA TypeInit == Init => TypeOK
<1> SUFFICES ASSUME Init PROVE TypeOK
  OBVIOUS
<1>1. /\ runs \in 0..MaxRuns /\ faults \in 0..MaxFaults
      /\ flaps \in 0..MaxFlaps
  BY BoundsAssumption DEF Init
<1>2. notified \subseteq Handlers \X Nodes
  BY DEF Init
<1>3. play \in {"idle", "masters", "workers", "done"} /\ task \in Tasks
  BY DEF Init, Tasks
<1> QED
  BY <1>1, <1>2, <1>3, Zenon DEF Init, TypeOK

LEMMA TypeNext == TypeOK /\ [Next]_vars => TypeOK'
<1> SUFFICES ASSUME TypeOK, [Next]_vars PROVE TypeOK'
  OBVIOUS
<1> USE BoundsAssumption DEF TypeOK
<1>1. CASE Start
  BY <1>1 DEF Start, StartRun, Limits, Nodes, diskVars, apiVars
<1>2. CASE StartBatch
  BY <1>2 DEF StartBatch, Batches, Tasks, diskVars, apiVars
<1>3. CASE NextTask
  BY <1>3 DEF NextTask, After, Tasks, diskVars, apiVars
<1>4. CASE NextPlay
  BY <1>4 DEF NextPlay, Nodes, diskVars, apiVars
<1>5. CASE Abort
  BY <1>5 DEF Abort, StopRun, Tasks, diskVars
<1>6. CASE Interrupt
  BY <1>6 DEF Interrupt, StopRun, Tasks, diskVars
<1>7. ASSUME NEW n \in Nodes, HostTask(n) PROVE TypeOK'
  <2> USE DEF AtTask, sameRun, diskVars, apiVars
  <2>1. CASE CheckNode(n)
    BY <2>1 DEF CheckNode, Check
  <2>2. CASE CordonNode(n)
    BY <2>2 DEF CordonNode
  <2>3. CASE DrainNode(n)
    BY <2>3 DEF DrainNode
  <2>4. CASE RescueNode(n)
    BY <2>4 DEF RescueNode
  <2>5. CASE InstallEngine(n)
    BY <2>5 DEF InstallEngine, Notify, Handlers
  <2>6. CASE InstallKubelet(n)
    BY <2>6 DEF InstallKubelet, Notify, Handlers
  <2>7. CASE WriteKubeletConfig(n)
    BY <2>7 DEF WriteKubeletConfig, Notify, Handlers
  <2>8. CASE FlushHandlers(n)
    BY <2>8 DEF FlushHandlers, FlushTasks, RestartServices
  <2>9. CASE UpgradeControlPlane(n)
    BY <2>9 DEF UpgradeControlPlane, Notify, Handlers
  <2>10. CASE UncordonNode(n)
    BY <2>10 DEF UncordonNode
  <2> QED
    BY <1>7, <2>1, <2>2, <2>3, <2>4, <2>5, <2>6, <2>7, <2>8, <2>9, <2>10
       DEF HostTask
<1>8. ASSUME NEW n \in Nodes, HostFault(n) PROVE TypeOK'
  <2> USE DEF AtTask, sameRun, diskVars, apiVars
  <2>1. CASE CheckUnanswered(n)
    <3>1. PICK r \in BOOLEAN, k \in BOOLEAN : Check(n, r, k)
      BY <2>1 DEF CheckUnanswered
    <3>2. faults' \in 0..MaxFaults
      BY <2>1 DEF CheckUnanswered
    <3> QED
      BY <3>1, <3>2 DEF Check
  <2>2. CASE BlockFails(n)
    BY <2>2 DEF BlockFails
  <2>3. CASE TaskFails(n)
    BY <2>3 DEF TaskFails, RestartServices
  <2>4. CASE RescueFails(n)
    BY <2>4 DEF RescueFails
  <2> QED
    BY <1>8, <2>1, <2>2, <2>3, <2>4 DEF HostFault
<1>9. ASSUME NEW n \in Nodes, Environment(n) PROVE TypeOK'
  <2> USE <1>9 DEF runVars, diskVars, apiVars
  <2>1. CASE NodeDown(n)
    BY <2>1 DEF NodeDown
  <2>2. CASE NodeUp(n)
    BY <2>2 DEF NodeUp, RestartServices
  <2>3. CASE Schedule(n)
    BY <2>3 DEF Schedule
  <2>4. CASE AdminCordon(n)
    BY <2>4 DEF AdminCordon
  <2>5. CASE AdminUncordon(n)
    BY <2>5 DEF AdminUncordon
  <2> QED
    BY <2>1, <2>2, <2>3, <2>4, <2>5 DEF Environment
<1>10. CASE UNCHANGED vars
  BY <1>10 DEF vars, runVars, diskVars, apiVars
<1> QED
  BY <1>1, <1>2, <1>3, <1>4, <1>5, <1>6, <1>7, <1>8, <1>9, <1>10 DEF Next

(* Every variable of the upgrade keeps its type. *)
THEOREM TypeCorrect == Spec => []TypeOK
BY TypeInit, TypeNext, PTL DEF Spec

-----------------------------------------------------------------------------
LEMMA IInvInit == Init => IInv
BY TypeInit DEF Init, IInv, BatchOfPlay, RunsInstalled, MastersDone,
   DealtWith, InOrder, BatchProgress, WorkersNeverAhead, MastersInOrder

(* Tasks without a clause in BatchProgress, and the rest of the cluster,   *)
(* disturb nothing.                                                        *)
orderVars == <<play, pending, batch, task, cpDone, notified, engineDisk,
               kubeletDisk, kubeletRun, server>>

LEMMA Undisturbed ==
  ASSUME IInv, TypeOK', UNCHANGED orderVars,
         \/ task \notin {"kubelet_install", "control_plane", "handlers"}
         \/ UNCHANGED <<todo, failed>>
  PROVE  IInv'
<1>1. (/\ BatchOfPlay /\ RunsInstalled /\ MastersDone /\ DealtWith
       /\ InOrder /\ WorkersNeverAhead /\ MastersInOrder)'
  BY DEF IInv, orderVars, BatchOfPlay, RunsInstalled, MastersDone, DealtWith,
     InOrder, WorkersNeverAhead, MastersInOrder, UpToDate, Nodes
<1>2. BatchProgress'
  BY DEF IInv, orderVars, BatchProgress, Finished
<1> QED
  BY <1>1, <1>2 DEF IInv

(* A play begins, ends or stops: no host is touched.                       *)
LEMMA RunKeeps ==
  ASSUME IInv, TypeOK',
         Start \/ StartBatch \/ NextPlay \/ Abort \/ Interrupt
  PROVE  IInv'
<1> USE DEF TypeOK, Start, StartRun, StartBatch, NextPlay, Abort, Interrupt,
        StopRun, diskVars, apiVars
<1>1. (RunsInstalled /\ WorkersNeverAhead /\ MastersInOrder)'
  BY DEF IInv, RunsInstalled, WorkersNeverAhead, MastersInOrder
<1>2. BatchOfPlay'
  BY DEF IInv, BatchOfPlay, Batches
<1>3. MastersDone'
  BY DEF IInv, BatchOfPlay, MastersDone, DealtWith, UpToDate
<1>4. DealtWith'
  <2>1. CASE Start
    BY <2>1 DEF IInv, BatchOfPlay, MastersDone, DealtWith, UpToDate, Limits,
       Nodes
  <2>2. CASE StartBatch \/ NextPlay \/ Abort \/ Interrupt
    BY <2>2 DEF IInv, DealtWith, UpToDate, Batches
  <2> QED
    BY <2>1, <2>2
<1>5. InOrder'
  <2>1. CASE StartBatch
    <3> SUFFICES ASSUME play = "masters",
                        NEW n \in batch', NEW m \in Masters,
                        Position[m] < Position[n]
                 PROVE  m \notin pending' \cup batch'
      BY <2>1 DEF InOrder
    <3>1. batch' = {n} /\ pending' = pending \ {n} /\ n \in Nodes
      BY <2>1 DEF Batches
    <3>2. \A k \in pending \ {n} : Position[n] < Position[k]
      BY <2>1, <3>1 DEF Batches
    <3>3. Position[m] \in Nat /\ Position[n] \in Nat
      BY <3>1, PositionAssumption DEF Nodes
    <3> QED
      BY <3>1, <3>2, <3>3
  <2>2. CASE Start \/ NextPlay \/ Abort \/ Interrupt
    BY <2>2 DEF IInv, BatchOfPlay, InOrder
  <2> QED
    BY <2>1, <2>2
<1>6. BatchProgress'
  BY DEF IInv, BatchOfPlay, BatchProgress, Batches, Finished
<1> QED
  BY <1>1, <1>2, <1>3, <1>4, <1>5, <1>6 DEF IInv

(* The barrier turns what holds of the hosts that finished a task into     *)
(* what holds of the batch.                                                *)
LEMMA BarrierKeeps == ASSUME IInv, TypeOK', NextTask PROVE IInv'
<1> USE DEF TypeOK, NextTask, diskVars, apiVars
<1>1. (/\ BatchOfPlay /\ RunsInstalled /\ MastersDone
       /\ InOrder /\ WorkersNeverAhead /\ MastersInOrder)'
  BY DEF IInv, BatchOfPlay, RunsInstalled, MastersDone, InOrder,
     WorkersNeverAhead, MastersInOrder, UpToDate
<1>2. DealtWith'
  BY DEF IInv, DealtWith, BatchProgress, Finished, UpToDate
<1>3. BatchProgress'
  BY DEF IInv, BatchProgress, Finished, After, Tasks
<1> QED
  BY <1>1, <1>2, <1>3 DEF IInv

(* A host that installs or upgrades something belongs to the batch: it is  *)
(* a worker when every master is up to date, or a master whose             *)
(* predecessors are.                                                       *)
LEMMA Turn ==
  ASSUME IInv, NEW n \in todo
  PROVE  /\ n \in Workers => Masters \subseteq UpToDate
         /\ \A m \in Masters : n \in Masters /\ Position[m] < Position[n]
                                  => m \in UpToDate
<1>1. n \in batch
  BY DEF IInv, TypeOK
<1>2. CASE play = "masters"
  BY <1>1, <1>2 DEF IInv, BatchOfPlay, DealtWith, InOrder
<1>3. CASE play # "masters"
  BY <1>1, <1>3 DEF IInv, TypeOK, BatchOfPlay, MastersDone
<1> QED
  BY <1>2, <1>3

(* Installing the engine or the kubelet and upgrading the static pods.     *)
LEMMA InstallKeeps ==
  ASSUME IInv, TypeOK', NEW n \in Nodes,
         InstallEngine(n) \/ InstallKubelet(n) \/ UpgradeControlPlane(n)
  PROVE  IInv'
<1> USE DEF AtTask, sameRun, Notify, apiVars, InstallEngine, InstallKubelet,
        UpgradeControlPlane
<1>1. n \in todo
  OBVIOUS
<1>2. (BatchOfPlay /\ RunsInstalled /\ MastersDone /\ DealtWith /\ InOrder)'
  BY DEF IInv, BatchOfPlay, RunsInstalled, MastersDone, DealtWith, InOrder,
     UpToDate
<1>3. BatchProgress'
  BY DEF IInv, TypeOK, BatchProgress, Finished
<1>4. WorkersNeverAhead'
  BY <1>1, Turn DEF IInv, RunsInstalled, WorkersNeverAhead, UpToDate, Nodes
<1>5. MastersInOrder'
  BY <1>1, Turn DEF IInv, MastersInOrder, UpToDate
<1> QED
  BY <1>2, <1>3, <1>4, <1>5 DEF IInv

(* Restarting services: nothing runs that is not installed.                *)
LEMMA RestartKeeps ==
  ASSUME IInv, TypeOK', NEW n \in Nodes,
         FlushHandlers(n) \/ NodeUp(n)
  PROVE  IInv'
<1> USE DEF AtTask, sameRun, runVars, apiVars, RestartServices, Handlers,
        FlushHandlers, FlushTasks, NodeUp
<1>1. (BatchOfPlay /\ RunsInstalled /\ MastersDone /\ DealtWith /\ InOrder)'
  BY DEF IInv, BatchOfPlay, RunsInstalled, MastersDone, DealtWith, InOrder,
     UpToDate
<1>2. (WorkersNeverAhead /\ MastersInOrder)'
  BY DEF IInv, RunsInstalled, WorkersNeverAhead, MastersInOrder
<1>3. BatchProgress'
  BY DEF IInv, TypeOK, BatchProgress, Finished
<1> QED
  BY <1>1, <1>2, <1>3 DEF IInv

(* A failed task may have installed the engine, restarted a service or     *)
(* upgraded the static pods of its host.                                   *)
LEMMA FaultKeeps ==
  ASSUME IInv, TypeOK', NEW n \in Nodes, TaskFails(n) PROVE IInv'
<1> USE DEF AtTask, sameRun, diskVars, apiVars, RestartServices, TaskFails
<1>1. n \in todo
  OBVIOUS
<1>2. (BatchOfPlay /\ RunsInstalled /\ MastersDone /\ DealtWith /\ InOrder)'
  BY DEF IInv, BatchOfPlay, RunsInstalled, MastersDone, DealtWith, InOrder,
     UpToDate
<1>3. BatchProgress'
  BY DEF IInv, TypeOK, BatchProgress, Finished
<1>4. WorkersNeverAhead'
  BY DEF IInv, RunsInstalled, WorkersNeverAhead
<1>5. MastersInOrder'
  BY <1>1, Turn DEF IInv, MastersInOrder, UpToDate
<1> QED
  BY <1>2, <1>3, <1>4, <1>5 DEF IInv

LEMMA IInvNext == IInv /\ [Next]_vars => IInv'
<1> SUFFICES ASSUME IInv, [Next]_vars PROVE IInv'
  OBVIOUS
<1>t. TypeOK'
  BY TypeNext DEF IInv
<1>1. CASE Start \/ StartBatch \/ NextPlay \/ Abort \/ Interrupt
  BY <1>1, <1>t, RunKeeps
<1>2. CASE NextTask
  BY <1>2, <1>t, BarrierKeeps
<1>3. ASSUME NEW n \in Nodes, HostTask(n) PROVE IInv'
  <2>1. CASE InstallEngine(n) \/ InstallKubelet(n) \/ UpgradeControlPlane(n)
    BY <2>1, <1>t, InstallKeeps
  <2>2. CASE FlushHandlers(n)
    BY <2>2, <1>t, RestartKeeps
  <2>3. CASE WriteKubeletConfig(n)
    BY <2>3, <1>t DEF WriteKubeletConfig, AtTask, sameRun, Notify, IInv,
       BatchOfPlay, RunsInstalled, MastersDone, DealtWith, InOrder,
       BatchProgress, WorkersNeverAhead, MastersInOrder, UpToDate
  <2>4. CASE CheckNode(n) \/ CordonNode(n) \/ DrainNode(n) \/ RescueNode(n)
              \/ UncordonNode(n)
    BY <2>4, <1>t, Undisturbed
       DEF CheckNode, Check, CordonNode, DrainNode, RescueNode, UncordonNode,
           AtTask, sameRun, orderVars, diskVars
  <2> QED
    BY <1>3, <2>1, <2>2, <2>3, <2>4 DEF HostTask
<1>4. ASSUME NEW n \in Nodes, HostFault(n) PROVE IInv'
  <2>1. CASE TaskFails(n)
    BY <2>1, <1>t, FaultKeeps
  <2>2. CASE CheckUnanswered(n) \/ BlockFails(n) \/ RescueFails(n)
    BY <2>2, <1>t, Undisturbed
       DEF CheckUnanswered, Check, BlockFails, RescueFails, AtTask, sameRun,
           orderVars, diskVars
  <2> QED
    BY <1>4, <2>1, <2>2 DEF HostFault
<1>5. ASSUME NEW n \in Nodes, Environment(n) PROVE IInv'
  <2>1. CASE NodeUp(n)
    BY <2>1, <1>t, RestartKeeps
  <2>2. CASE NodeDown(n) \/ Schedule(n) \/ AdminCordon(n) \/ AdminUncordon(n)
    BY <2>2, <1>t, Undisturbed
       DEF NodeDown, Schedule, AdminCordon, AdminUncordon, orderVars,
           runVars, diskVars
  <2> QED
    BY <1>5, <2>1, <2>2 DEF Environment
<1>6. CASE UNCHANGED vars
  BY <1>6, <1>t, Undisturbed DEF vars, runVars, diskVars, orderVars
<1> QED
  BY <1>1, <1>2, <1>3, <1>4, <1>5, <1>6 DEF Next

(* The invariants of the order of an upgrade, across failed, interrupted   *)
(* and repeated runs.                                                      *)
THEOREM UpgradeInvariant == Spec => []IInv
BY IInvInit, IInvNext, PTL DEF Spec

(* No worker is ahead of the control plane.                                *)
THEOREM WorkersFollow == Spec => []WorkersNeverAhead
<1>1. IInv => WorkersNeverAhead
  BY DEF IInv
<1> QED
  BY <1>1, UpgradeInvariant, PTL

(* Masters are upgraded one after the other, in inventory order.           *)
THEOREM MastersFollow == Spec => []MastersInOrder
<1>1. IInv => MastersInOrder
  BY DEF IInv
<1> QED
  BY <1>1, UpgradeInvariant, PTL

(* A run over the control plane that succeeds leaves every master up to    *)
(* date, although the restart of a kubelet may have been lost before.      *)
THEOREM ControlPlaneConverges == Spec => []MastersConverge
<1>1. IInv => MastersConverge
  BY DEF IInv, MastersDone, MastersConverge, UpToDate
<1> QED
  BY <1>1, UpgradeInvariant, PTL

-----------------------------------------------------------------------------
(* Cordons.  A node that is unschedulable because of the current run is in *)
(* the batch, is one that the run decided to cordon, and is waiting to be  *)
(* uncordoned.                                                             *)
Cordons == (cordoned \ adminCordoned) \ stranded

CordonInv ==
    /\ Cordons \subseteq batch \cap needs
    /\ task = "uncordon" => Cordons \subseteq todo \cup failed
    /\ task = "handlers" => Cordons = {}

(* A batch is one master, or as many workers as "serial" says.             *)
BatchBound ==
    /\ play = "masters" => batch = {} \/ \E m \in Masters : batch = {m}
    /\ play = "workers" => Cardinality(batch) <= BatchSize

LEMMA CordonInit == Init => CordonInv /\ BatchBound
<1>1. Cardinality({}) = 0
  BY FS_EmptySet
<1> QED
  BY <1>1, BoundsAssumption DEF Init, CordonInv, Cordons, BatchBound

LEMMA BatchBoundNext == IInv /\ BatchBound /\ [Next]_vars => BatchBound'
<1> SUFFICES ASSUME IInv, BatchBound, [Next]_vars PROVE BatchBound'
  OBVIOUS
<1> USE DEF IInv, BatchBound
<1>0. Cardinality({}) = 0 /\ 0 <= BatchSize
  BY FS_EmptySet, BoundsAssumption
<1>1. CASE StartBatch
  BY <1>1 DEF StartBatch, Batches, BatchOfPlay
<1>2. CASE Start \/ NextTask \/ NextPlay \/ Abort \/ Interrupt
  BY <1>0, <1>2 DEF Start, StartRun, NextTask, NextPlay, Abort, Interrupt,
     StopRun, BatchOfPlay
<1>3. ASSUME NEW n \in Nodes, HostTask(n) \/ HostFault(n) \/ Environment(n)
      PROVE  UNCHANGED <<play, batch>>
  BY <1>3 DEF HostTask, HostFault, Environment, CheckNode, CordonNode,
     DrainNode, RescueNode, InstallEngine, InstallKubelet, WriteKubeletConfig,
     FlushHandlers, UpgradeControlPlane, UncordonNode, CheckUnanswered, Check,
     BlockFails, TaskFails, RescueFails, NodeDown, NodeUp, Schedule,
     AdminCordon, AdminUncordon, sameRun, runVars
<1>4. CASE UNCHANGED vars
  BY <1>4 DEF vars, runVars
<1> QED
  BY <1>1, <1>2, <1>3, <1>4 DEF Next

(* A step that makes no node unschedulable for the run, and in a batch     *)
(* that stays, has the task, and decides, as before.                       *)
LEMMA CordonsKeep ==
  ASSUME CordonInv, Cordons' \subseteq Cordons,
         UNCHANGED <<batch, task>>,
         needs \subseteq needs',
         todo \cup failed \subseteq (todo \cup failed)'
  PROVE  CordonInv'
BY DEF CordonInv

LEMMA CordonNext == IInv /\ CordonInv /\ [Next]_vars => CordonInv'
<1> SUFFICES ASSUME IInv, CordonInv, [Next]_vars PROVE CordonInv'
  OBVIOUS
<1> USE DEF diskVars, apiVars, sameRun, AtTask
<1>1. CASE Start \/ StartBatch \/ NextPlay
  BY <1>1 DEF IInv, BatchOfPlay, CordonInv, Cordons, Start, StartRun,
     StartBatch, NextPlay
<1>2. CASE Abort \/ Interrupt
  BY <1>2 DEF CordonInv, Cordons, Abort, Interrupt, StopRun
<1>3. CASE NextTask
  BY <1>3 DEF IInv, TypeOK, CordonInv, Cordons, NextTask, After, Tasks
<1>4. ASSUME NEW n \in Nodes, HostTask(n) PROVE CordonInv'
  <2>1. CASE CordonNode(n)
    BY <2>1 DEF IInv, TypeOK, CordonInv, Cordons, CordonNode
  <2>2. CASE UncordonNode(n)
    BY <2>2 DEF CordonInv, Cordons, UncordonNode
  <2>3. CASE RescueNode(n)
    BY <2>3 DEF CordonInv, Cordons, RescueNode
  <2>4. CASE CheckNode(n) \/ DrainNode(n) \/ InstallEngine(n)
             \/ InstallKubelet(n) \/ WriteKubeletConfig(n) \/ FlushHandlers(n)
             \/ UpgradeControlPlane(n)
    BY <2>4 DEF CordonInv, Cordons, CheckNode, Check, DrainNode,
       InstallEngine, InstallKubelet, WriteKubeletConfig, FlushHandlers,
       FlushTasks, UpgradeControlPlane
  <2> QED
    BY <1>4, <2>1, <2>2, <2>3, <2>4 DEF HostTask
<1>5. ASSUME NEW n \in Nodes, HostFault(n) PROVE CordonInv'
  BY <1>5 DEF CordonInv, Cordons, HostFault, CheckUnanswered, Check,
     BlockFails, TaskFails, RescueFails
<1>6. ASSUME NEW n \in Nodes, Environment(n) PROVE CordonInv'
  BY <1>6, CordonsKeep DEF Cordons, Environment, NodeDown, NodeUp, Schedule,
     AdminCordon, AdminUncordon, runVars
<1>7. CASE UNCHANGED vars
  BY <1>7 DEF CordonInv, Cordons, vars, runVars
<1> QED
  BY <1>1, <1>2, <1>3, <1>4, <1>5, <1>6, <1>7 DEF Next

(* "serial" bounds the nodes that one run makes unschedulable at a time,   *)
(* also when earlier runs have failed; what those left cordoned is not     *)
(* counted.                                                                *)
THEOREM OneBatchCordoned == Spec => []AtMostOneBatchCordoned
<1>1. IInv /\ CordonInv /\ BatchBound => AtMostOneBatchCordoned
  <2> SUFFICES ASSUME IInv, CordonInv, BatchBound
               PROVE  AtMostOneBatchCordoned
    OBVIOUS
  <2>1. Cordons \subseteq batch /\ batch \subseteq Nodes
    BY DEF IInv, TypeOK, CordonInv
  <2>2. IsFiniteSet(batch)
    <3>1. IsFiniteSet(Nodes)
      BY GroupsAssumption, FS_Union, Zenon DEF Nodes
    <3> QED
      BY <2>1, <3>1, FS_Subset
  <2>3. /\ Cardinality(Cordons) <= Cardinality(batch)
        /\ Cardinality(Cordons) \in Nat /\ Cardinality(batch) \in Nat
    BY <2>1, <2>2, FS_Subset, FS_CardinalityType
  <2>4. BatchSize \in Nat /\ Cardinality({}) = 0
    BY BoundsAssumption, FS_EmptySet
  <2>5. CASE play = "masters"
    <3>1. batch = {} \/ \E m \in Masters : batch = {m}
      BY <2>5 DEF BatchBound
    <3>2. \A m : Cardinality({m}) = 1
      BY FS_Singleton
    <3>3. Cardinality(batch) = 0 \/ Cardinality(batch) = 1
      BY <2>4, <3>1, <3>2
    <3> QED
      BY <2>3, <2>5, <3>3 DEF AtMostOneBatchCordoned, Cordons
  <2>6. CASE play # "masters"
    <3>1. Cardinality(batch) <= BatchSize
      BY <2>4, <2>6 DEF BatchBound, IInv, TypeOK, BatchOfPlay
    <3> QED
      BY <2>3, <2>4, <2>6, <3>1 DEF AtMostOneBatchCordoned, Cordons
  <2> QED
    BY <2>5, <2>6
<1> QED
  BY <1>1, CordonInit, CordonNext, BatchBoundNext, UpgradeInvariant, PTL
     DEF Spec

-----------------------------------------------------------------------------
(* Drains.  What is known of a node that the run decided to cordon, task   *)
(* by task: it is cordoned and then drained, or it is on its way to the    *)
(* rescue, which fails it.                                                 *)
DrainInv ==
    DrainNodes /\ FailIfDrainFails =>
    /\ task = "cordon" =>
          (batch \ todo) \cap needs \subseteq cordoned \cup rescuing
    /\ task = "drain" =>
          /\ batch \cap needs \subseteq cordoned \cup rescuing
          /\ (batch \ todo) \cap needs \cap busy \subseteq rescuing
    /\ task = "rescue" =>
          /\ batch \cap needs \subseteq (cordoned \ busy) \cup rescuing \cup failed
          /\ (batch \ todo) \cap rescuing \subseteq failed
    /\ task \in UpgradeTasks => batch \cap needs \subseteq cordoned \ busy

LEMMA DrainInit == Init => DrainInv
BY DEF Init, DrainInv, UpgradeTasks

LEMMA DrainNext == IInv /\ DrainInv /\ [Next]_vars => DrainInv'
<1> SUFFICES ASSUME IInv, DrainInv, DrainNodes, FailIfDrainFails, [Next]_vars
             PROVE  DrainInv'
  BY DEF DrainInv
<1>0. todo \subseteq batch /\ failed \subseteq batch
  BY DEF IInv, TypeOK
<1> USE DEF DrainInv, UpgradeTasks, diskVars, apiVars, sameRun, AtTask
<1>1. CASE Start \/ StartBatch \/ NextPlay
  BY <1>0, <1>1 DEF IInv, BatchOfPlay, Start, StartRun, StartBatch, NextPlay
<1>2. CASE Abort \/ Interrupt
  BY <1>2 DEF Abort, Interrupt, StopRun
<1>3. CASE NextTask
  BY <1>3 DEF IInv, TypeOK, NextTask, After, Tasks
<1>4. ASSUME NEW n \in Nodes, HostTask(n) PROVE DrainInv'
  <2>1. CASE CheckNode(n)
    BY <2>1 DEF CheckNode, Check
  <2>2. CASE CordonNode(n)
    BY <2>2 DEF CordonNode
  <2>3. CASE DrainNode(n)
    BY <2>3 DEF DrainNode
  <2>4. CASE RescueNode(n)
    BY <1>0, <2>4 DEF RescueNode
  <2>5. CASE InstallEngine(n) \/ InstallKubelet(n) \/ WriteKubeletConfig(n)
             \/ FlushHandlers(n) \/ UpgradeControlPlane(n)
    BY <2>5 DEF InstallEngine, InstallKubelet, WriteKubeletConfig,
       FlushHandlers, FlushTasks, UpgradeControlPlane
  <2>6. CASE UncordonNode(n)
    BY <2>6 DEF UncordonNode
  <2> QED
    BY <1>4, <2>1, <2>2, <2>3, <2>4, <2>5, <2>6 DEF HostTask
<1>5. ASSUME NEW n \in Nodes, HostFault(n) PROVE DrainInv'
  BY <1>5 DEF HostFault, CheckUnanswered, Check, BlockFails, TaskFails,
     RescueFails
<1>6. ASSUME NEW n \in Nodes, Environment(n) PROVE DrainInv'
  BY <1>6 DEF Environment, NodeDown, NodeUp, Schedule, AdminCordon,
     AdminUncordon, runVars
<1>7. CASE UNCHANGED vars
  BY <1>7 DEF vars, runVars
<1> QED
  BY <1>1, <1>2, <1>3, <1>4, <1>5, <1>6, <1>7 DEF Next

(* No node that the run decided to cordon is upgraded while pods that a    *)
(* drain evicts run on it, whatever the scheduler does in the meantime, if *)
(* draining is on, a failing drain is an error, and the operator leaves    *)
(* the nodes of the batch alone.  Nothing is said of nodes that are not    *)
(* cordoned by the run: they are upgraded without a drain.                 *)
THEOREM UpgradesDrainedNodes == Spec => []DrainedWhileUpgraded
<1>1. DrainInv => DrainedWhileUpgraded
  BY DEF DrainInv, DrainedWhileUpgraded
<1> QED
  BY <1>1, DrainInit, DrainNext, UpgradeInvariant, PTL DEF Spec

-----------------------------------------------------------------------------
(* Without a fault.  No host fails, so no run stops and leaves nodes       *)
(* cordoned.                                                               *)
Smooth == faults = 0 => rescuing = {} /\ failed = {} /\ stranded = {}

(* The hosts that the run has not decided about.                           *)
Undecided ==
    pending \cup (IF play = "masters" THEN Workers ELSE {})
            \cup (IF task = "check" THEN todo ELSE {})

(* A host is taken out of the queue when it is put into a batch.           *)
BatchTaken == batch \cap pending = {}

(* The run decides to cordon, and so to uncordon, no node that the         *)
(* operator has cordoned.                                                  *)
AdminInv ==
    faults = 0 /\ ~AlwaysCordon =>
    /\ needs \cap Undecided = {}
    /\ batch \cap needs \cap adminCordoned = {}
    /\ adminCordoned \subseteq cordoned

(* What is installed and does not run is about to be restarted.            *)
Notified ==
    faults = 0 =>
    /\ \A n \in engineDisk \ engineRun : <<"engine", n>> \in notified
    /\ \A n \in kubeletDisk \ kubeletRun : <<"kubelet", n>> \in notified

(* How far the hosts of the batch have come, task by task.                 *)
AfterEngine == {"kubelet_install", "kubelet_config", "kubelet_flush",
                "control_plane", "uncordon", "handlers"}
AfterKubelet == {"control_plane", "uncordon", "handlers"}

HostProgress ==
    faults = 0 =>
    /\ task = "engine_install" => batch \ todo \subseteq engineDisk
    /\ task = "engine_flush" =>
          batch \subseteq engineDisk /\ batch \ todo \subseteq engineRun
    /\ task \in AfterEngine => batch \subseteq engineRun
    /\ task = "kubelet_install" => batch \ todo \subseteq kubeletDisk
    /\ task \in {"kubelet_config", "kubelet_flush"} => batch \subseteq kubeletDisk
    /\ task = "kubelet_flush" => batch \ todo \subseteq kubeletRun
    /\ task \in AfterKubelet => batch \subseteq kubeletRun

(* The selected hosts that the run has dealt with are upgraded.            *)
Waiting == pending \cup batch \cup (IF play = "masters" THEN Workers ELSE {})

Upgraded == faults = 0 => limit \ Waiting \subseteq engineRun \cap kubeletRun

SmoothInv ==
    Smooth /\ BatchTaken /\ AdminInv /\ Notified /\ HostProgress /\ Upgraded

LEMMA SmoothInit == Init => SmoothInv
BY DEF Init, SmoothInv, Smooth, BatchTaken, AdminInv, Notified, HostProgress,
   Upgraded, AfterEngine, AfterKubelet

(* A run without a fault is one that had none before.                      *)
LEMMA FaultsStay == TypeOK /\ [Next]_vars /\ faults' = 0 => faults = 0
<1> SUFFICES ASSUME TypeOK, [Next]_vars, faults # 0 PROVE faults' # 0
  OBVIOUS
<1>0. faults \in Nat /\ faults + 1 # 0
  BY BoundsAssumption DEF TypeOK
<1>1. CASE Start \/ StartBatch \/ NextTask \/ NextPlay \/ Abort \/ Interrupt
  BY <1>0, <1>1 DEF Start, StartRun, StartBatch, NextTask, NextPlay, Abort,
     Interrupt
<1>2. ASSUME NEW n \in Nodes, HostTask(n) PROVE faults' # 0
  BY <1>0, <1>2 DEF HostTask, CheckNode, CordonNode, DrainNode, RescueNode,
     InstallEngine, InstallKubelet, WriteKubeletConfig, FlushHandlers,
     UpgradeControlPlane, UncordonNode
<1>3. ASSUME NEW n \in Nodes, HostFault(n) PROVE faults' # 0
  BY <1>0, <1>3 DEF HostFault, CheckUnanswered, BlockFails, TaskFails,
     RescueFails
<1>4. ASSUME NEW n \in Nodes, Environment(n) PROVE faults' # 0
  BY <1>0, <1>4 DEF Environment, NodeDown, NodeUp, Schedule, AdminCordon,
     AdminUncordon, runVars
<1>5. CASE UNCHANGED vars
  BY <1>0, <1>5 DEF vars, runVars
<1> QED
  BY <1>1, <1>2, <1>3, <1>4, <1>5 DEF Next

(* Without a fault a step is one of these, and not a failure.              *)
LEMMA SmoothStep ==
  ASSUME TypeOK, Smooth, [Next]_vars, faults' = 0
  PROVE  /\ faults = 0
         /\ \/ Start \/ StartBatch \/ NextTask \/ NextPlay \/ UNCHANGED vars
            \/ \E n \in Nodes : HostTask(n) \/ Environment(n)
<1>1. faults = 0
  BY FaultsStay
<1>2. rescuing = {} /\ failed = {}
  BY <1>1 DEF Smooth
<1>3. ~Abort /\ ~Interrupt
  BY <1>1, <1>2 DEF Abort, Interrupt
<1>4. \A n \in Nodes : ~HostFault(n)
  BY <1>1, <1>2 DEF HostFault, CheckUnanswered, BlockFails, TaskFails,
     RescueFails
<1> QED
  BY <1>1, <1>3, <1>4 DEF Next

LEMMA BatchTakenNext == IInv /\ BatchTaken /\ [Next]_vars => BatchTaken'
<1> SUFFICES ASSUME IInv, BatchTaken, [Next]_vars PROVE BatchTaken'
  OBVIOUS
<1> USE DEF BatchTaken
<1>1. CASE Start \/ StartBatch \/ NextTask \/ NextPlay \/ Abort \/ Interrupt
  BY <1>1 DEF IInv, BatchOfPlay, Start, StartRun, StartBatch, NextTask,
     NextPlay, Abort, Interrupt, StopRun
<1>2. ASSUME NEW n \in Nodes, HostTask(n) \/ HostFault(n) \/ Environment(n)
      PROVE  UNCHANGED <<pending, batch>>
  BY <1>2 DEF HostTask, HostFault, Environment, CheckNode, CordonNode,
     DrainNode, RescueNode, InstallEngine, InstallKubelet, WriteKubeletConfig,
     FlushHandlers, UpgradeControlPlane, UncordonNode, CheckUnanswered, Check,
     BlockFails, TaskFails, RescueFails, NodeDown, NodeUp, Schedule,
     AdminCordon, AdminUncordon, sameRun, runVars
<1>3. CASE UNCHANGED vars
  BY <1>3 DEF vars, runVars
<1> QED
  BY <1>1, <1>2, <1>3 DEF Next

LEMMA SmoothNext == IInv /\ SmoothInv /\ [Next]_vars => SmoothInv'
<1> SUFFICES ASSUME IInv, SmoothInv, [Next]_vars, faults' = 0
             PROVE  SmoothInv'
  BY BatchTakenNext DEF SmoothInv, Smooth, AdminInv, Notified, HostProgress,
     Upgraded
<1>0. /\ faults = 0
      /\ \/ Start \/ StartBatch \/ NextTask \/ NextPlay \/ UNCHANGED vars
         \/ \E n \in Nodes : HostTask(n) \/ Environment(n)
  BY SmoothStep DEF IInv, SmoothInv
<1> USE <1>0 DEF SmoothInv, Smooth, BatchTaken, AdminInv, Undecided, Notified,
        HostProgress, AfterEngine, AfterKubelet, Upgraded, Waiting, diskVars,
        apiVars, sameRun, AtTask
<1>1. CASE Start
  <2>1. PICK l \in SUBSET Nodes : StartRun(l)
    BY <1>1 DEF Start
  <2>2. batch = {} /\ batch' = {} /\ play' = "masters"
    BY <2>1 DEF IInv, BatchOfPlay, StartRun
  <2>3. limit' \ Waiting' = {}
    BY <2>1, <2>2 DEF StartRun, Nodes
  <2>4. Smooth' /\ BatchTaken' /\ AdminInv' /\ Notified'
    BY <2>1, <2>2 DEF StartRun
  <2>5. HostProgress'
    BY <2>1, <2>2 DEF StartRun
  <2>6. Upgraded'
    BY <2>3
  <2> QED
    BY <2>4, <2>5, <2>6
<1>2. CASE StartBatch
  BY <1>2 DEF StartBatch, Batches
<1>3. CASE NextTask
  <2>1. task' = After(task) /\ task \in Tasks
    BY <1>3 DEF IInv, TypeOK, NextTask
  <2>2. task' # "check"
    BY <2>1 DEF After, Tasks
  <2>3. Smooth' /\ BatchTaken' /\ AdminInv' /\ Notified' /\ Upgraded'
    BY <1>3, <2>2 DEF NextTask
  <2>4. HostProgress'
    <3>1. CASE task \in {"handlers", "none"}
      BY <2>1, <3>1 DEF After
    <3>2. CASE task \notin {"handlers", "none"}
      <4>1. batch' = batch /\ batch' \ todo' = {} /\ batch \ todo = batch
        BY <1>3, <3>2 DEF NextTask
      <4>2. UNCHANGED <<faults, engineDisk, engineRun, kubeletDisk, kubeletRun>>
        BY <1>3 DEF NextTask
      <4> QED
        BY <2>1, <3>2, <4>1, <4>2 DEF After, Tasks
    <3> QED
      BY <3>1, <3>2
  <2> QED
    BY <2>3, <2>4
<1>4. CASE NextPlay
  BY <1>4 DEF IInv, BatchOfPlay, NextPlay
<1>5. ASSUME NEW n \in Nodes, HostTask(n) PROVE SmoothInv'
  <2>0. todo \subseteq batch
    BY DEF IInv, TypeOK
  <2>1. CASE CheckNode(n)
    BY <2>0, <2>1, GroupsAssumption DEF IInv, BatchOfPlay, CheckNode, Check, NeedsCordoning
  <2>2. CASE CordonNode(n) \/ DrainNode(n) \/ RescueNode(n) \/ UncordonNode(n)
    BY <2>0, <2>2 DEF CordonNode, DrainNode, RescueNode, UncordonNode
  <2>3. CASE InstallEngine(n) \/ InstallKubelet(n)
    BY <2>3 DEF InstallEngine, InstallKubelet, Notify
  <2>4. CASE WriteKubeletConfig(n) \/ UpgradeControlPlane(n)
    BY <2>4 DEF WriteKubeletConfig, UpgradeControlPlane, Notify
  <2>5. CASE FlushHandlers(n)
    BY <2>5 DEF FlushHandlers, FlushTasks, RestartServices, Handlers
  <2> QED
    BY <1>5, <2>1, <2>2, <2>3, <2>4, <2>5 DEF HostTask
<1>6. ASSUME NEW n \in Nodes, Environment(n) PROVE SmoothInv'
  BY <1>6 DEF Environment, NodeDown, NodeUp, RestartServices, Schedule,
     AdminCordon, AdminUncordon, runVars
<1>7. CASE UNCHANGED vars
  BY <1>7 DEF vars, runVars
<1> QED
  BY <1>0, <1>1, <1>2, <1>3, <1>4, <1>5, <1>6, <1>7

LEMMA SmoothInvariant == Spec => [](IInv /\ CordonInv /\ SmoothInv)
BY CordonInit, CordonNext, SmoothInit, SmoothNext, UpgradeInvariant, PTL
   DEF Spec

(* post-upgrade takes no cordon away that the operator has made, while     *)
(* nothing fails and every look-up is answered.                            *)
THEOREM KeepsAdminCordons == Spec => []AdminCordonsKept
<1>1. SmoothInv => AdminCordonsKept
  BY DEF SmoothInv, AdminInv, AdminCordonsKept
<1> QED
  BY <1>1, SmoothInvariant, PTL

(* A run that ends, none having failed, has upgraded every node that it    *)
(* selects, and leaves cordoned only what the operator has.                *)
THEOREM UpgradeConverges == Spec => []Converged
<1>1. IInv /\ CordonInv /\ SmoothInv => Converged
  BY DEF IInv, BatchOfPlay, CordonInv, Cordons, SmoothInv, Smooth, Upgraded,
     Waiting, Converged
<1> QED
  BY <1>1, SmoothInvariant, PTL
=============================================================================
