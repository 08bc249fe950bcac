------------------------------ MODULE Upgrade ------------------------------
(***************************************************************************)
(* The rolling upgrade of a running cluster by upgrade-cluster.yml: the    *)
(* play over the control plane (serial: 1) and then the play over the      *)
(* workers (serial: 20%), each batch of hosts going through the roles      *)
(* upgrade/pre-upgrade, container-engine, kubernetes/node,                 *)
(* kubernetes/control-plane (masters only) and upgrade/post-upgrade.       *)
(*                                                                         *)
(* Ansible runs a task on every host of the batch, in any order, before    *)
(* any host starts the next task.  A failed host aborts the run at the end *)
(* of the task (any_errors_fatal), notified handlers that did not run yet  *)
(* are forgotten, and the operator starts the playbook again.              *)
(*                                                                         *)
(* A version is a set: the nodes where that component already is at the    *)
(* version the playbook installs.                                          *)
(***************************************************************************)
EXTENDS Naturals, FiniteSets

CONSTANTS
    Masters,                     \* group kube_control_plane
    Workers,                     \* kube_node:calico_rr:!kube_control_plane
    Position,                    \* the place of a host in the inventory
    BatchSize,                   \* "serial" of the workers' play
    DrainNodes,                  \* drain_nodes
    AlwaysCordon,                \* upgrade_node_always_cordon
    UncordonAfterDrainFailure,   \* upgrade_node_uncordon_after_drain_failure
    FailIfDrainFails,            \* upgrade_node_fail_if_drain_fails
    ConfigDiffers,               \* do the kubelet templates render differently?
    MaxRuns,                     \* bound: invocations of the playbook
    MaxFaults,                   \* bound: failed tasks and interrupted runs
    MaxFlaps                     \* bound: nodes that become NotReady

Nodes == Masters \cup Workers

ASSUME GroupsAssumption ==
    /\ Masters \cap Workers = {}
    /\ IsFiniteSet(Masters) /\ IsFiniteSet(Workers)
ASSUME PositionAssumption ==
    /\ Position \in [Nodes -> Nat]
    /\ \A m, n \in Nodes : Position[m] = Position[n] => m = n
ASSUME BoundsAssumption ==
    /\ BatchSize \in Nat \ {0}
    /\ MaxRuns \in Nat
    /\ MaxFaults \in Nat
    /\ MaxFlaps \in Nat
ASSUME OptionsAssumption ==
    /\ DrainNodes \in BOOLEAN
    /\ AlwaysCordon \in BOOLEAN
    /\ UncordonAfterDrainFailure \in BOOLEAN
    /\ FailIfDrainFails \in BOOLEAN
    /\ ConfigDiffers \in BOOLEAN

VARIABLES
    (* The run of the playbook. *)
    play,          \* "idle", "masters", "workers" or "done"
    limit,         \* the hosts selected with --limit
    pending,       \* hosts of the play that are in no batch yet
    batch,         \* the current batch
    task,          \* the task the batch is in
    todo,          \* hosts of the batch that have not run the task yet
    failed,        \* hosts of the batch that failed
    rescuing,      \* hosts whose "Node draining" block failed
    needs,         \* hosts whose fact needs_cordoning is true
    notified,      \* handlers notified and not run, as <<handler, host>>
    (* What the operator knows of earlier runs. *)
    cpDone,        \* a run over the whole control plane has succeeded
    runs, faults,
    (* The nodes: what is installed and what runs. *)
    engineDisk, engineRun,
    kubeletDisk, kubeletConf, kubeletRun,
    server,        \* masters whose static pods are at the new version
    (* The Node objects in the API and the load of the nodes. *)
    ready,         \* condition Ready is True
    cordoned,      \* spec.unschedulable
    busy,          \* nodes running pods that a drain evicts
    flaps,
    (* History, read by no action of the playbook. *)
    adminCordoned, \* nodes the operator has cordoned and not uncordoned
    stranded       \* nodes an aborted run left cordoned

runVars  == <<play, limit, pending, batch, task, todo, failed, rescuing,
              needs, notified, cpDone, runs, faults>>
diskVars == <<engineDisk, engineRun, kubeletDisk, kubeletConf, kubeletRun,
              server>>
apiVars  == <<ready, cordoned, busy, flaps, adminCordoned, stranded>>
vars     == <<runVars, diskVars, apiVars>>

Handlers == {"engine", "kubelet"}

(* The order of the tasks.  Only a master has the control-plane role.      *)
After(t) ==
    CASE t = "check"          -> "cordon"
      [] t = "cordon"         -> "drain"
      [] t = "drain"          -> "rescue"
      [] t = "rescue"         -> "engine_install"
      [] t = "engine_install" -> "engine_flush"
      [] t = "engine_flush"   -> "kubelet_install"
      [] t = "kubelet_install"-> "kubelet_config"
      [] t = "kubelet_config" -> "kubelet_flush"
      [] t = "kubelet_flush"  -> IF play = "masters" THEN "control_plane"
                                                     ELSE "uncordon"
      [] t = "control_plane"  -> "uncordon"
      [] t = "uncordon"       -> "handlers"
      [] OTHER                -> "none"

Tasks == {"none", "check", "cordon", "drain", "rescue", "engine_install",
          "engine_flush", "kubelet_install", "kubelet_config",
          "kubelet_flush", "control_plane", "uncordon", "handlers"}

Init ==
    /\ play = "idle" /\ limit = {} /\ pending = {} /\ batch = {}
    /\ task = "none" /\ todo = {} /\ failed = {} /\ rescuing = {}
    /\ needs = {} /\ notified = {} /\ cpDone = FALSE
    /\ runs = 0 /\ faults = 0
    /\ engineDisk = {} /\ engineRun = {}
    /\ kubeletDisk = {} /\ kubeletConf = {} /\ kubeletRun = {}
    /\ server = {}
    /\ ready = Nodes /\ cordoned = {} /\ busy = Nodes /\ flaps = 0
    /\ adminCordoned = {} /\ stranded = {}

-----------------------------------------------------------------------------
(* The run: batches, barriers and the end of a play. *)

(* What the operator may pass as --limit: nothing, the control plane, and  *)
(* workers once the control plane is upgraded.                             *)
Limits_AnyTime == {Nodes, Masters} \cup ((SUBSET Workers) \ {{}})   \* mutant

Limits == {Nodes, Masters} \cup (IF cpDone THEN (SUBSET Workers) \ {{}} ELSE {})

(* Mutant: a node whose kubelet is new counts as upgraded.                 *)
StartRun_SkipsUpgraded(l) ==
    /\ play \in {"idle", "done"}
    /\ runs < MaxRuns
    /\ l \in Limits
    /\ play' = "masters"
    /\ limit' = l
    /\ pending' = (Masters \cap l) \ kubeletRun
    /\ needs' = {}
    /\ runs' = runs + 1
    /\ UNCHANGED <<batch, task, todo, failed, rescuing, notified, cpDone,
                   faults, diskVars, apiVars>>

StartRun(l) ==
    /\ play \in {"idle", "done"}
    /\ runs < MaxRuns
    /\ l \in Limits
    /\ play' = "masters"
    /\ limit' = l
    /\ pending' = Masters \cap l
    /\ needs' = {}
    /\ runs' = runs + 1
    /\ UNCHANGED <<batch, task, todo, failed, rescuing, notified, cpDone,
                   faults, diskVars, apiVars>>

(* The next hosts in inventory order, as many as "serial" says.            *)
Batches ==
    {b \in SUBSET pending :
        /\ b # {}
        /\ \A m \in b, n \in pending \ b : Position[m] < Position[n]
        /\ IF play = "masters"
           THEN \E m \in pending : b = {m}
           ELSE /\ Cardinality(b) <= BatchSize
                /\ b = pending \/ Cardinality(b) = BatchSize}

StartBatch ==
    /\ play \in {"masters", "workers"}
    /\ batch = {}
    /\ \E b \in Batches :
          /\ batch' = b
          /\ pending' = pending \ b
          /\ todo' = b
    /\ task' = "check"
    /\ UNCHANGED <<play, limit, failed, rescuing, needs, notified, cpDone,
                   runs, faults, diskVars, apiVars>>

(* Mutant: any_errors_fatal is off and the batch goes on after a failure.  *)
NextTask_IgnoresFailures ==
    /\ batch # {} /\ todo = {}
    /\ task' = After(task)
    /\ IF task = "handlers"
       THEN batch' = {} /\ todo' = {}
       ELSE batch' = batch /\ todo' = batch
    /\ failed' = {}
    /\ UNCHANGED <<play, limit, pending, rescuing, needs, notified,
                   cpDone, runs, faults, diskVars, apiVars>>

(* The barrier: every host has finished the task and none has failed.      *)
NextTask ==
    /\ batch # {} /\ todo = {} /\ failed = {}
    /\ task' = After(task)
    /\ IF task = "handlers"
       THEN batch' = {} /\ todo' = {}
       ELSE batch' = batch /\ todo' = batch
    /\ UNCHANGED <<play, limit, pending, failed, rescuing, needs, notified,
                   cpDone, runs, faults, diskVars, apiVars>>

NextPlay ==
    /\ play \in {"masters", "workers"}
    /\ batch = {} /\ pending = {}
    /\ IF play = "masters"
       THEN /\ play' = "workers"
            /\ pending' = Workers \cap limit
            /\ cpDone' = cpDone
       ELSE /\ play' = "done"
            /\ pending' = {}
            /\ cpDone' = (cpDone \/ Masters \subseteq limit)
    /\ UNCHANGED <<limit, batch, task, todo, failed, rescuing, needs,
                   notified, runs, faults, diskVars, apiVars>>

(* Mutant: the hosts that have not run the task are not forgotten.         *)
StopRun_KeepsTodo ==
    /\ play' = "idle"
    /\ batch' = {} /\ pending' = {} /\ todo' = todo /\ task' = "none"
    /\ failed' = {} /\ rescuing' = {} /\ needs' = {} /\ notified' = {}
    /\ stranded' = cordoned \ adminCordoned
    /\ UNCHANGED <<limit, cpDone, runs, diskVars, ready, cordoned, busy,
                   flaps, adminCordoned>>

StopRun ==
    /\ play' = "idle"
    /\ batch' = {} /\ pending' = {} /\ todo' = {} /\ task' = "none"
    /\ failed' = {} /\ rescuing' = {} /\ needs' = {} /\ notified' = {}
    /\ stranded' = cordoned \ adminCordoned
    /\ UNCHANGED <<limit, cpDone, runs, diskVars, ready, cordoned, busy,
                   flaps, adminCordoned>>

(* any_errors_fatal: the run stops once the batch has finished the task.   *)
Abort ==
    /\ batch # {} /\ todo = {} /\ failed # {}
    /\ StopRun
    /\ UNCHANGED faults

(* The operator interrupts the run, or the machine it runs on goes away.   *)
Interrupt ==
    /\ play \in {"masters", "workers"}
    /\ faults < MaxFaults
    /\ StopRun
    /\ faults' = faults + 1

-----------------------------------------------------------------------------
(* The tasks.  Each is a step of one host of the batch. *)

AtTask(t, n) == task = t /\ n \in todo /\ todo' = todo \ {n}

sameRun == <<play, limit, pending, batch, task, cpDone, runs>>

(* Mutant: a node already unschedulable is cordoned, and uncordoned, too.  *)
NeedsCordoning_ReadyOnly(n, readyKnown, schedKnown) ==
    (readyKnown /\ n \in ready) \/ AlwaysCordon

(* pre-upgrade: a node needs cordoning when it is Ready and schedulable,   *)
(* or when upgrade_node_always_cordon is set.  Both questions are kubectl  *)
(* calls whose failure is ignored: without an answer the node counts as    *)
(* not Ready, or as schedulable.                                           *)
NeedsCordoning(n, readyKnown, schedKnown) ==
    \/ (readyKnown /\ n \in ready) /\ ~(schedKnown /\ n \in cordoned)
    \/ AlwaysCordon

Check(n, readyKnown, schedKnown) ==
    /\ AtTask("check", n)
    /\ needs' = IF NeedsCordoning(n, readyKnown, schedKnown)
                THEN needs \cup {n} ELSE needs
    /\ UNCHANGED <<sameRun, failed, rescuing, notified, diskVars, apiVars>>

CheckNode(n) == Check(n, TRUE, TRUE) /\ UNCHANGED faults

CheckUnanswered(n) ==
    /\ Check(n, TRUE, FALSE) \/ Check(n, FALSE, TRUE)
    /\ faults < MaxFaults
    /\ faults' = faults + 1

CordonNode(n) ==
    /\ AtTask("cordon", n)
    /\ cordoned' = IF n \in needs THEN cordoned \cup {n} ELSE cordoned
    /\ UNCHANGED <<sameRun, failed, rescuing, needs, notified, faults,
                   diskVars, ready, busy, flaps, adminCordoned, stranded>>

(* The drain, its retries and the fallback drain, when they succeed.       *)
DrainNode(n) ==
    /\ AtTask("drain", n)
    /\ busy' = IF n \in needs \ rescuing /\ DrainNodes
               THEN busy \ {n} ELSE busy
    /\ UNCHANGED <<sameRun, failed, rescuing, needs, notified, faults,
                   diskVars, ready, cordoned, flaps, adminCordoned, stranded>>

(* A step of the block fails for good: the host leaves it for its rescue.  *)
BlockFails(n) ==
    /\ \/ AtTask("cordon", n)
       \/ AtTask("drain", n) /\ n \notin rescuing /\ DrainNodes
    /\ n \in needs
    /\ faults < MaxFaults
    /\ faults' = faults + 1
    /\ rescuing' = rescuing \cup {n}
    /\ UNCHANGED <<sameRun, failed, needs, notified, diskVars, apiVars>>

(* Mutant: the rescue never fails the host.                                *)
RescueNode_GoesOn(n) ==
    /\ AtTask("rescue", n)
    /\ rescuing' = rescuing \ {n}
    /\ cordoned' = IF n \in rescuing /\ UncordonAfterDrainFailure
                   THEN cordoned \ {n} ELSE cordoned
    /\ UNCHANGED <<sameRun, failed, needs, notified, faults, diskVars, ready,
                   busy, flaps, adminCordoned, stranded>>

(* The rescue section, a task without effect on the other hosts.           *)
RescueNode(n) ==
    /\ AtTask("rescue", n)
    /\ rescuing' = rescuing \ {n}
    /\ cordoned' = IF n \in rescuing /\ UncordonAfterDrainFailure
                   THEN cordoned \ {n} ELSE cordoned
    /\ failed' = IF n \in rescuing /\ FailIfDrainFails
                 THEN failed \cup {n} ELSE failed
    /\ UNCHANGED <<sameRun, needs, notified, faults, diskVars, ready, busy,
                   flaps, adminCordoned, stranded>>

Notify(h, n, changed) ==
    notified' = IF changed THEN notified \cup {<<h, n>>} ELSE notified

(* Mutant: the handler is not notified when the binaries change.           *)
InstallEngine_NoNotify(n) ==
    /\ AtTask("engine_install", n)
    /\ engineDisk' = engineDisk \cup {n}
    /\ UNCHANGED <<sameRun, failed, rescuing, needs, notified, faults,
                   engineRun, kubeletDisk, kubeletConf, kubeletRun, server,
                   apiVars>>

InstallEngine(n) ==
    /\ AtTask("engine_install", n)
    /\ engineDisk' = engineDisk \cup {n}
    /\ Notify("engine", n, n \notin engineDisk)
    /\ UNCHANGED <<sameRun, failed, rescuing, needs, faults, engineRun,
                   kubeletDisk, kubeletConf, kubeletRun, server, apiVars>>

InstallKubelet(n) ==
    /\ AtTask("kubelet_install", n)
    /\ kubeletDisk' = kubeletDisk \cup {n}
    /\ Notify("kubelet", n, n \notin kubeletDisk)
    /\ UNCHANGED <<sameRun, failed, rescuing, needs, faults, engineDisk,
                   engineRun, kubeletConf, kubeletRun, server, apiVars>>

WriteKubeletConfig(n) ==
    /\ AtTask("kubelet_config", n)
    /\ kubeletConf' = kubeletConf \cup {n}
    /\ Notify("kubelet", n, ConfigDiffers /\ n \notin kubeletConf)
    /\ UNCHANGED <<sameRun, failed, rescuing, needs, faults, engineDisk,
                   engineRun, kubeletDisk, kubeletRun, server, apiVars>>

(* The handlers that restart a service: what is installed now runs.        *)
RestartServices(n, hs) ==
    /\ engineRun' = IF "engine" \in hs /\ n \in engineDisk
                    THEN engineRun \cup {n} ELSE engineRun
    /\ kubeletRun' = IF "kubelet" \in hs /\ n \in kubeletDisk
                     THEN kubeletRun \cup {n} ELSE kubeletRun

(* meta: flush_handlers in containerd and in kubelet.yml, and the handlers *)
(* that Ansible runs at the end of the play, that is of each batch.        *)
FlushTasks == {"engine_flush", "kubelet_flush", "handlers"}

FlushHandlers(n) ==
    /\ \E t \in FlushTasks : AtTask(t, n)
    /\ RestartServices(n, {h \in Handlers : <<h, n>> \in notified})
    /\ notified' = notified \ (Handlers \X {n})
    /\ UNCHANGED <<sameRun, failed, rescuing, needs, faults, engineDisk,
                   kubeletDisk, kubeletConf, server, apiVars>>

(* Mutant: "Master | restart kubelet" is not notified.                     *)
UpgradeControlPlane_NoNotify(n) ==
    /\ AtTask("control_plane", n)
    /\ server' = server \cup {n}
    /\ UNCHANGED <<sameRun, failed, rescuing, needs, notified, faults,
                   engineDisk, engineRun, kubeletDisk, kubeletConf,
                   kubeletRun, apiVars>>

(* kubeadm upgrade apply, which always notifies "Master | restart kubelet".*)
UpgradeControlPlane(n) ==
    /\ AtTask("control_plane", n)
    /\ server' = server \cup {n}
    /\ Notify("kubelet", n, TRUE)
    /\ UNCHANGED <<sameRun, failed, rescuing, needs, faults, engineDisk,
                   engineRun, kubeletDisk, kubeletConf, kubeletRun, apiVars>>

(* Mutant: only nodes that are Ready are uncordoned.                       *)
UncordonNode_WhenReady(n) ==
    /\ AtTask("uncordon", n)
    /\ cordoned' = IF n \in needs \cap ready THEN cordoned \ {n} ELSE cordoned
    /\ UNCHANGED <<sameRun, failed, rescuing, needs, notified, faults,
                   diskVars, ready, busy, flaps, adminCordoned, stranded>>

UncordonNode(n) ==
    /\ AtTask("uncordon", n)
    /\ cordoned' = IF n \in needs THEN cordoned \ {n} ELSE cordoned
    /\ UNCHANGED <<sameRun, failed, rescuing, needs, notified, faults,
                   diskVars, ready, busy, flaps, adminCordoned, stranded>>

(* A task outside the block fails on a host.  It may have done part of its *)
(* work: the file is there, the service restarted or the static pods are   *)
(* upgraded, yet nothing is notified.                                      *)
TaskFails(n) ==
    /\ task \notin {"check", "cordon", "drain", "rescue"}
    /\ AtTask(task, n)
    /\ faults < MaxFaults
    /\ faults' = faults + 1
    /\ failed' = failed \cup {n}
    /\ \/ UNCHANGED diskVars
       \/ /\ task = "engine_install"
          /\ engineDisk' = engineDisk \cup {n}
          /\ UNCHANGED <<engineRun, kubeletDisk, kubeletConf, kubeletRun,
                         server>>
       \/ /\ task = "kubelet_config"
          /\ kubeletConf' = kubeletConf \cup {n}
          /\ UNCHANGED <<engineDisk, engineRun, kubeletDisk, kubeletRun,
                         server>>
       \/ /\ task \in FlushTasks
          /\ RestartServices(n, {h \in Handlers : <<h, n>> \in notified})
          /\ UNCHANGED <<engineDisk, kubeletDisk, kubeletConf, server>>
       \/ /\ task = "control_plane"
          /\ server' = server \cup {n}
          /\ UNCHANGED <<engineDisk, engineRun, kubeletDisk, kubeletConf,
                         kubeletRun>>
    /\ UNCHANGED <<sameRun, rescuing, needs, notified, apiVars>>

(* kubectl uncordon fails in the rescue section: the node stays cordoned   *)
(* and the host fails.  What failed the block may fail this as well: it    *)
(* does not count as another fault.                                        *)
RescueFails(n) ==
    /\ AtTask("rescue", n)
    /\ n \in rescuing
    /\ UncordonAfterDrainFailure
    /\ failed' = failed \cup {n}
    /\ UNCHANGED <<sameRun, rescuing, needs, notified, faults, diskVars, apiVars>>

-----------------------------------------------------------------------------
(* The rest of the cluster, and its operator. *)

NodeDown(n) ==
    /\ n \in ready /\ flaps < MaxFlaps
    /\ ready' = ready \ {n}
    /\ flaps' = flaps + 1
    /\ UNCHANGED <<runVars, diskVars, cordoned, busy, adminCordoned, stranded>>

(* The node reports again: it was cut off, or it has rebooted and its      *)
(* services run what is installed.                                         *)
NodeUp(n) ==
    /\ n \notin ready
    /\ ready' = ready \cup {n}
    /\ \/ UNCHANGED <<engineRun, kubeletRun>>
       \/ RestartServices(n, Handlers)
    /\ UNCHANGED <<runVars, engineDisk, kubeletDisk, kubeletConf, server,
                   cordoned, busy, flaps, adminCordoned, stranded>>

Schedule(n) ==
    /\ n \in ready \ (cordoned \cup busy)
    /\ busy' = busy \cup {n}
    /\ UNCHANGED <<runVars, diskVars, ready, cordoned, flaps, adminCordoned,
                   stranded>>

(* The operator cordons nodes that the run is not working on ...           *)
AdminCordon(n) ==
    /\ n \notin batch \cup cordoned
    /\ cordoned' = cordoned \cup {n}
    /\ adminCordoned' = adminCordoned \cup {n}
    /\ UNCHANGED <<runVars, diskVars, ready, busy, flaps, stranded>>

(* ... and makes schedulable again only those.                             *)
AdminUncordon(n) ==
    /\ n \in adminCordoned \ batch
    /\ cordoned' = cordoned \ {n}
    /\ adminCordoned' = adminCordoned \ {n}
    /\ UNCHANGED <<runVars, diskVars, ready, busy, flaps, stranded>>

-----------------------------------------------------------------------------
HostTask(n) ==
    \/ CheckNode(n) \/ CordonNode(n) \/ DrainNode(n) \/ RescueNode(n)
    \/ InstallEngine(n) \/ InstallKubelet(n) \/ WriteKubeletConfig(n)
    \/ FlushHandlers(n) \/ UpgradeControlPlane(n) \/ UncordonNode(n)

HostFault(n) ==
    CheckUnanswered(n) \/ BlockFails(n) \/ TaskFails(n) \/ RescueFails(n)

Environment(n) ==
    \/ NodeDown(n) \/ NodeUp(n) \/ Schedule(n)
    \/ AdminCordon(n) \/ AdminUncordon(n)

Start == \E l \in SUBSET Nodes : StartRun(l)

Next ==
    \/ Start \/ StartBatch \/ NextTask \/ NextPlay \/ Abort \/ Interrupt
    \/ \E n \in Nodes : HostTask(n) \/ HostFault(n) \/ Environment(n)

Spec == Init /\ [][Next]_vars

(* Ansible goes on with a run it has started, and the operator starts the  *)
(* playbook again after one that stopped.  Nothing makes the environment   *)
(* or a fault happen.                                                      *)
RunStep ==
    \/ StartBatch \/ NextTask \/ NextPlay \/ Abort
    \/ \E n \in Nodes : HostTask(n) \/ HostFault(n)

RestartAll == play = "idle" /\ StartRun(Nodes)

FairSpec == Spec /\ WF_vars(RunStep) /\ WF_vars(RestartAll)
-----------------------------------------------------------------------------
TypeOK ==
    /\ play \in {"idle", "masters", "workers", "done"}
    /\ limit \subseteq Nodes /\ pending \subseteq Nodes
    /\ batch \subseteq Nodes /\ todo \subseteq batch
    /\ failed \subseteq batch /\ rescuing \subseteq Nodes
    /\ task \in Tasks
    /\ needs \subseteq Nodes
    /\ notified \subseteq Handlers \X Nodes
    /\ cpDone \in BOOLEAN
    /\ runs \in 0..MaxRuns /\ faults \in 0..MaxFaults
    /\ engineDisk \subseteq Nodes /\ engineRun \subseteq Nodes
    /\ kubeletDisk \subseteq Nodes /\ kubeletConf \subseteq Nodes
    /\ kubeletRun \subseteq Nodes /\ server \subseteq Nodes
    /\ ready \subseteq Nodes /\ cordoned \subseteq Nodes
    /\ busy \subseteq Nodes /\ flaps \in 0..MaxFlaps
    /\ adminCordoned \subseteq Nodes /\ stranded \subseteq Nodes

(* A worker has the new kubelet, installed or running, only when the       *)
(* static pods of every master are at the new version: "Handle upgrades to *)
(* master components first to maintain backwards compat."                  *)
WorkersNeverAhead ==
    (kubeletDisk \cup kubeletRun) \cap Workers # {} => Masters \subseteq server

(* No master is touched before the ones that precede it in the inventory   *)
(* are done: their static pods are new and their kubelet runs the new      *)
(* version, however often the playbook failed and was started again.       *)
MastersInOrder ==
    \A m, n \in Masters :
        Position[m] < Position[n] /\ n \in engineDisk \cup kubeletDisk \cup server
            => m \in server \cap kubeletRun

(* One run makes no more nodes unschedulable at a time than its batch      *)
(* holds.  Nodes that an earlier run left cordoned when it stopped are not *)
(* counted: they stay so (pre-upgrade takes them for the operator's) and   *)
(* add up over failed runs.  Nor are those that the operator cordoned.     *)
AtMostOneBatchCordoned ==
    Cardinality((cordoned \ adminCordoned) \ stranded)
        <= IF play = "masters" THEN 1 ELSE BatchSize

(* A node that the run decided to cordon (it was found ready and           *)
(* schedulable, or every node is to be cordoned) runs no evictable pod     *)
(* from the time its container engine is replaced until it is uncordoned,  *)
(* if drains are enabled, a drain that fails is an error, and the operator *)
(* leaves the nodes of the batch alone.  The other nodes of the batch are  *)
(* upgraded with whatever runs on them: those that an earlier run left     *)
(* cordoned, that were not ready, or whose look-up was not answered.       *)
UpgradeTasks == {"engine_install", "engine_flush", "kubelet_install",
                 "kubelet_config", "kubelet_flush", "control_plane"}

DrainedWhileUpgraded ==
    DrainNodes /\ FailIfDrainFails /\ task \in UpgradeTasks
        => batch \cap needs \cap busy = {}

(* When a run over the control plane has succeeded, every master serves    *)
(* and runs the new version, whatever earlier runs left half done.         *)
MastersConverge ==
    play = "done" /\ Masters \subseteq limit
        => Masters \subseteq server \cap kubeletRun

(* post-upgrade undoes only cordons that pre-upgrade made: a node that the *)
(* operator has cordoned stays so until the operator says otherwise, as    *)
(* long as no look-up is left without an answer (which is taken for        *)
(* "schedulable"), no run fails and not every node is cordoned by default.*)
AdminCordonsKept ==
    faults = 0 /\ ~AlwaysCordon => adminCordoned \subseteq cordoned

(* When no run has failed, one that ends has every selected node on the    *)
(* new container engine and kubelet, and leaves none cordoned but the      *)
(* operator's.  After a run that failed neither is promised: restarts that *)
(* were notified are lost, and cordons stay.                               *)
Converged ==
    faults = 0 /\ play = "done" =>
                     /\ limit \subseteq engineRun \cap kubeletRun
                     /\ cordoned \subseteq adminCordoned

(* The operator who starts the playbook again after each failure sees the  *)
(* whole control plane upgraded.                                           *)
ControlPlaneUpgraded == <>[](Masters \subseteq server)

(* The table of versions after "ansible-playbook ... upgrade-cluster.yml": *)
(* every node selected reports the kubelet version just installed.         *)
UpgradedKubeletsRun == play = "done" => limit \subseteq kubeletRun
=============================================================================
