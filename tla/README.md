# Formal models of Kubespray

Kubespray is a set of Ansible playbooks and roles that install, upgrade, scale
and repair Kubernetes clusters, with a few Python programs around them.  What
makes it hard is not one task but the sequence of tasks over many hosts: a run
stops in the middle, the operator starts it again, and the second run must make
the right thing of what the first one left.  The modules here model that, check
it with TLC and prove the most important parts of it with TLAPS.

Paths below are relative to the repository.

## How a run executes

The playbooks are modelled under the execution rules Ansible gives them:

* A task runs on every host of the play (or of its `serial` batch), in any order
  between hosts, before any host starts the next task (strategy `linear`).
* A failing host ends the run at the end of the task (`any_errors_fatal` is on
  in the playbooks, `upgrade-cluster.yml:94`, `:125`).
* Handlers are notified by a task that changed something and run at the end of
  the play or at a `flush_handlers`.  Nothing sets `force_handlers`: a run that
  stops forgets them, and the rerun, which finds the change already made, does
  not notify them again.
* A `run_once` task runs on the first host, and its registered result is a fact
  of every host.

## Components

| Component | State it keeps | Operations | Hard behaviour | What makes it correct | Module |
|---|---|---|---|---|---|
| Rolling upgrade: `upgrade-cluster.yml`, `roles/upgrade`, the installing roles | installed and running versions of every node; node schedulable or not | a play over the masters one by one, then the workers in batches: cordon, drain, install, restart, `kubeadm upgrade`, uncordon | failures, rescue, lost handlers, reruns, `--limit`, an operator and a scheduler that act meanwhile | order of versions, bounded loss of capacity, no upgrade of a loaded node, convergence | `Upgrade` |
| etcd role: `roles/etcd` | `/etc/etcd.env`, the systemd unit, etcd's data and membership | health check, render, start, wait, join one at a time, restart | a check made once and used throughout; crash of etcd; run stopped between `member add` and start | one cluster, quorum kept, every host a member | `EtcdCluster`, `EtcdMembership` |
| Inventory builder: `contrib/inventory_builder/inventory.py` | the inventory file | create, add, name, delete, assign groups | long sequences of edits; groups only ever grow | well-formed, odd etcd, roles separated at scale, no host lost | `Inventory` |
| etcd certificates | CA, member, admin and node certificates on each host | check, generate on the first host, gather, push | partial sets, a handler that sets the fact too late | every host has the certificates of its CA, etcd restarted for new ones | planned: `EtcdCerts` |
| Control plane: `roles/kubernetes/control-plane` | certificates and static pods of each master, the certificate key, tokens | init, upload key, join one by one | first master replaced; retried join; key that expires | one CA, all masters join | planned: `ControlPlaneJoin` |
| Node removal: `remove-node.yml` | node object, etcd membership | drain, remove member, reset, delete node | member found by `grep` | the right member removed | not modelled |
| Recovery of etcd: `recover-control-plane.yml`, `roles/recover_control_plane/etcd` | etcd data, snapshot in `/tmp`, membership | quorum decision, snapshot, restore, member removal, rejoin | interruption between removal and restore; facts read once | no data lost, a working cluster not replaced, repaired at last | `EtcdRecovery` |
| Download: `roles/download` | cache of the delegate, files of the hosts | download once, fetch, push, or each on its own | `run_once` together with delegation | every host has a complete file | planned: `Download` |
| kube module: `library/kube.py` | objects in the API | create, replace, delete, exists | look-up and action are two calls; other clients; outages; a play that stops | what a successful task promises, convergence of reruns | `KubeModule` |
| OpenStack clean-up: `scripts/openstack-cleanup` | the project's servers, ports, networks ... | lists and deletes what is old, loop by loop | CI jobs create and destroy meanwhile; an exception ends the script | young jobs keep what they have, orphans go | `OpenstackCleanup` |
| Terraform inventory: `contrib/terraform/terraform.py` | none between calls; reads terraform's state files | `--list`, `--host`, `--hostfile` | files read twice while terraform writes them | what did not change is listed as it is, nothing is invented | `TerraformInventory` |
| Workers: `roles/kubernetes/node`, `kubeadm` | kubelet, its configuration | install, configure, restart, join | lost handlers | the installed kubelet runs | in `Upgrade` (not the join) |
| Container engines | engine, its configuration | install, flush handlers | lost handlers | the installed engine runs | containerd in `Upgrade` |
| Host preparation, network plugins, applications, load balancer, reset, tokens | files, manifests | render and apply | none of their own | | not modelled |
| AWS inventory, other scripts, CI | none | translate or print | none | | not modelled |

The components meet in four places.  The inventory gives the groups: `etcd` is
the set `Hosts` of `EtcdCluster` and the survivors and new hosts of
`EtcdRecovery`, `kube_control_plane` and `kube_node` are
`Masters` and `Workers` of `Upgrade`.  The recovery ends in the
etcd role: `EtcdRecovery` has that role's joins again, in less detail, because
there they start from what the recovery leaves.  Facts and handlers are per run, and every
module starts a run without them.  The API and etcd are outside of the
repository; the modules describe what the playbooks rely on, and `PROJECT.json`
marks those definitions external.

## Modules

### `Upgrade`

The run is `play`, `batch` (its hosts), `task`, `todo` (hosts that still have to
run it), `failed`, `notified` and the facts `needs_cordoning`.  A version is the
set of nodes where a component is already new: `engineDisk`, `kubeletDisk`,
`kubeletConf` are what is installed, `engineRun`, `kubeletRun`, `server` what
runs.  Each task is an action of one host; `NextTask` is the barrier, `Abort`
the end of a run after a failure.

| Action | Code |
|---|---|
| `StartRun`, `StartBatch`, `NextPlay` | the two upgrade plays, `serial`, `--limit` |
| `CheckNode`, `CheckUnanswered` | `pre-upgrade/tasks/main.yml:19-46` |
| `CordonNode`, `DrainNode`, `BlockFails` | the block, its retries and fallback, `:48-118` |
| `RescueNode`, `RescueFails` | `rescue`, `:120-130` |
| `InstallEngine`, `InstallKubelet`, `WriteKubeletConfig`, `FlushHandlers` | containerd, `node/tasks/install.yml`, `kubelet.yml` and their flushes |
| `UpgradeControlPlane` | `kubeadm-upgrade.yml`, which always notifies the kubelet's restart |
| `UncordonNode` | `post-upgrade/tasks/main.yml:29-33` |
| `TaskFails`, `Interrupt` | any other task fails, having done part of its work or not; the run is killed |
| `NodeDown`, `NodeUp`, `Schedule`, `AdminCordon`, `AdminUncordon` | the rest of the cluster |

`adminCordoned` and `stranded` are history.  The operator is assumed not to
cordon or uncordon the nodes of the current batch, not to upgrade workers alone
before the control plane is done (`docs/upgrades.md`), and not to run two
playbooks at once.

Left out: the plays before and after (preparing hosts, etcd, which has a module
of its own, calico, applications), the confirmation pauses, and engines other
than containerd.

### `EtcdCluster` and `EtcdMembership`

One module for both of the role's clusters; `EventsCluster` selects the tasks of
`etcd-events`, which are copies with differences.  `phase` is the task the run
is in; `healthy`, `inCluster` and `notified` are its facts and handlers; `env`
is `/etc/etcd.env`.  A cluster is named by the set of its founders, from which
etcd computes its identifier, so that two clusters are two names: `data[h]` is
the cluster of the data directory of `h` and `members[c]` the membership of `c`.

etcd is described by what it does with that file: with data it goes on; in state
`new` it founds, in state `existing` it joins if the list is exactly the
membership, and otherwise it exits and systemd starts it again.  It admits a new
member only while it is connected to all it has (`strict-reconfig-check`, the
default).  etcd v3.5 and systemd are external and `EtcdStarts`, `Publish` and
`Crash` are theirs.

| Action | Code |
|---|---|
| `CheckHealth` | `configure.yml:2-38`, asked once |
| `Configure`, `FinalConfig`, `ConfigureMember` | `refresh_config.yml` as included at `configure.yml:40`, `main.yml:60,75`, `join_etcd_member.yml:16` |
| `Launch`, `EnsureRunning` | `configure.yml:43-80` with its `ignore_errors` |
| `WaitHealthy`, `CheckMembers` | `configure.yml:82-158` |
| `NextJoiner`, `AddMember`, `EnsureListed`, `MemberStarted` | `join_etcd_member.yml` |
| `RestartEtcd`, `EtcdUp` | the handlers |
| `...Fails`, `Interrupt` | retries run out; the run is killed |

`CheckMembers` is `etcdctl member list | grep -q` with the host's address
(`configure.yml:129`), which is found in a longer address as well.  `Matches[h]`
is the set of hosts in whose entry the address of `h` is found, `h` among them,
and `Listed` asks whether one of them is a member.  `Unmistaken` says that no
host that is to be added is found in another's entry; the code does not check it,
and properties that need it name it.

A task that waits gives up for free when nothing can happen any more
(`Settled`), and earlier at the price of a fault.

`EtcdMembership` is what the role promises: a cluster is founded once and
members are added one at a time, each after the earlier ones have started.
`MembershipSpec` is the refinement, checked of new groups, where it holds whatever
fails; `GrowsByMembership` says of a group that grows that every step is one of the
protocol until the last host is a member (`Growing`).  In both the founders are all the hosts that the data
directories name, the membership is that of the cluster with these founders, and
a member has started when it is published.  Two clusters make the union of the
founders change, which the abstract protocol never does.

### `Inventory`

One action, `Invoke`, is one invocation of the script.  The hosts are a sequence,
because groups are cut from it by position, and `InFile` keeps the order of the
YAML file, which is not that of `build_hostnames` when a name is deleted and
added in one command.  Names are numbers, those up to `MaxId` being generated
ones.  `command` is history.  The lists that the script builds in loops are
recursive functions: `Only` keeps the hosts that a condition admits, `PutAll` puts
the hosts of a document, and `BuildHostnames` goes through the arguments.

`Load` is the `load` command, which starts from nothing and writes the file after
each document, so that one that is not JSON leaves what the earlier ones made.
Each host is put into group `all` with its options and then into its own group; for
a host listed under `all` the second call has no options and overwrites the first
(`:411-412`), so that it has no address (`NoIP`).  `exists_ip` goes through the
hosts in order and raises ValueError at one without an address (`Found`, `Raises`);
an invocation that raises writes nothing.  A
name without an address (`AddBare`) is handled with the variables of the
argument before it, as the code does.

Left out: `USE_REAL_HOSTNAME`, the distinction of `ip` and `access_ip`, the
expansion of address ranges, and a crash in `write_config`.

### `EtcdRecovery`

The inventory is a scenario: `survivors` and `new` hosts form group `etcd`,
`broken` is `broken_etcd`; the operator may bring a snapshot (`etcd_snapshot`).
`phase` is the task; `has_quorum` and `member_list` are facts.  Clusters are
numbered: 1 is the old one, r + 1 the one that run r restores; `data[h]` is the
cluster in the data directory of `h`, `snapshot` the one of `/tmp/snapshot.db`.

| Action | Code |
|---|---|
| `CheckHealth`, `HasQuorumFact` | `etcd/tasks/main.yml:2-43` |
| `SaveSnapshot`, `StopEtcd`, `RemoveDataDir`, `RestoreSnapshot`, `RemoveSnapshot`, `StartEtcd` | `recover_lost_quorum.yml`, task by task |
| `GetMembers`, `RemoveMember` | `main.yml:62-93` |
| `Recovered`, `NextToJoin`, `AddMember`, `StartMember`, `StartListed`, `ClusterDone` | `cluster.yml`, `configure.yml`, `join_etcd_member.yml` |
| `Interrupt`, `Stop` | the run is killed; a task fails |

`etcd_member_name` is taken to be set per host, as the inventory of
`docs/recover-control-plane.md` needs: the default name depends on a host's
place in the group, so that a broken member would have a survivor's name.

### `KubeModule`

A play of tasks of `library/kube.py`.  `at` and `step` are where it is, `next` the
object that kubectl comes to, `found` the result of `exists`.  A task is a
record of its arguments.  An object is absent, `old` or `new`; one in `going` is
being deleted and waits for its finalizers.  `FirstStep` is `main`'s choice,
`LookUp` `_execute_nofail`, `ApplyNext` and `DeleteNext` one object of a kubectl
command, `Outcome` and `CommandEnds` its exit status, `TaskFails` the retry or
the end of the play.  `Outage`, `OtherWrites`, `OtherDeletes`, `Finalize` and
`Interrupt` are the rest of the world.

Left out: state `stopped`, which no role uses and whose kubectl command is gone;
`all`; and tasks that are guarded by the change of a manifest's file.

### `OpenstackCleanup`

`pass` is the loop of the script, `items` what the loop has still to look at
and `old` the jobs older than `oldest_allowed`.  A resource is a pair of a CI job
and a kind; jobs build up in the order of the Terraform modules (`Apply`), are
tested, take everything down (`Destroy`), or are cancelled.  `FnIfOld` deletes,
`Abort` is the exception nobody handles, `PortConflict` the one that is.

Left out: `--dry-run`, and resources that the script passes over.

### `TerraformInventory`

`pass` says which of the two readings is going on, `todo` which files it has still
to read, `ips` and `hosts` what it has found.  `Write` and `Written` are
terraform, which leaves a file torn for a while.  A state is a record of version
and resources: in version 3 `primary` has the attributes under dotted keys, in
version 4 `attributes` nests them.  `ConvertToV3` flattens these as the code does;
it is a recursive function over `Depth`, the nesting of lists, and gives for each
prefix what the attributes become under it.  A list's index becomes part of a key,
so that `Numerals` has the numbers as strings.  `OpenstackHost` and
`EquinixMetalDevice` make hosts of them, `IterHostIps` adds the floating IPs, and
`QueryList`, `QueryHost` and `QueryHostfile` are the answers.  Of a host's
variables the module keeps those that depend on something else than their own
attribute.

## What is checked

`MC*.tla` gives the constants their values; each `.cfg` is a run.  Every run but
those with `violation` finishes without an error.

| Run | Instance | Shows |
|---|---|---|
| `upgrade_masters` | 2 masters, 1 worker, 2 invocations, 1 fault | types; no worker newer than the control plane; masters in order; a run over the control plane converges; the control plane is upgraded at last |
| `upgrade_workers` | 1 master, 2 workers in a batch, 2 invocations, 1 fault, 1 node lost | the run makes at most a batch unschedulable, beside what failed runs left; no node that the run cordoned is upgraded under load; without a fault, and unless `upgrade_node_always_cordon` says otherwise, the operator's cordons survive; without a failed run everything is upgraded and uncordoned |
| `upgrade_kubelet` | violation | a failed run makes the next one leave the old kubelet running |
| `etcd_new` | 3 new hosts, one address part of another, 7 runs, 3 faults, 2 crashes, 1 wrong check | types; one cluster; assembled at the end; refines `EtcdMembership`; all hosts end up as running members |
| `etcd_scale` | 3 members, one address part of another member's and of a joiner's, 2 joiners, 6 runs, 3 faults | quorum kept while hosts are added; no failure without a cause; steps of `EtcdMembership` until the last is added; all end up running, unless the cluster was missed or a run stopped between the two additions |
| `etcd_split` | violation | a member restarting during the health check makes joiners found a second cluster |
| `etcd_events_scale` | violation | the events cluster cannot be scaled |
| `recovery_cases` | 1 or 2 broken of 3 members, 1 to 4 of 5, as many new hosts, 5 runs, 3 interruptions | the data is never lost; a cluster with a quorum is not replaced; the etcd role gets a healthy cluster; everything is repaired unless `Blocked` |
| `inventory_edit` | 5 machines, any sequence of creations, edits and loads, thresholds 4 and 5 | names well-formed, and addresses unless the file was loaded; etcd redundant, and odd without deletions and loads; roles kept; no host lost |
| `kube_apps` | 5 tasks on 4 objects, 1 outage, 1 change by others, 1 interruption, any state before | a successful task has done what it promises; a successful run has repaired what earlier ones left half done, but for what others changed and what it could not look up; reruns converge |
| `cleanup_jobs` | 2 CI jobs, projects with and without security groups and floating IPs | nothing is taken from a job that is not too old; orphaned servers, and where nothing is in the way everything orphaned, go |
| `terraform_list` | 2 state files, one of version 4 with 2 instances and a floating IP that moves, the other with an instance of the same name or, in version 3, an instance or a device; 3 queries | what stays is listed right; no address is invented; failures have one of two causes |

Bounds.  Two masters are enough for their order and one worker for the order
against them; two workers are the least batch in which one fails and the other
does not.  With one fault and two invocations a run repairs what another left;
that a repair may fail as well is covered by the proofs, which bound neither.  In `etcd_new`
a second fault lets it, and the third is for a run that goes on with a host late and
loses its quorum in the middle of a join.  In `etcd_scale` three faults are what it
takes to found a second cluster (below), so the run includes that.  Three etcd members are the least that
survive the loss of one, and two joiners the least for which "one at a time" matters.
Seven invocations are more than the faults,
crashes and wrong checks that can stop one, and so are five in `recovery_cases`;
its scenarios are all numbers of broken members of three and of five.  `Inventory`
has no bound on the number of invocations: names, addresses and the request lists
of `MCInventory` bound its states.  In `kube_apps` one outage, one other client and
one interruption meet every step of every kind of task.  `cleanup_jobs` runs the
script without end; two jobs are enough for one to be young while the other is
old.  In `terraform_list` terraform may begin as many writes as `MaxWrites` while
a listing is made, and listings are made without end.  A run of the system
stops when its invocations are used up, so deadlock is not checked where they are
bounded.

Fairness.  `Upgrade` and `EtcdCluster` assume that Ansible goes on with a run it
started, which it does as long as it is not killed (`Interrupt`, which is not
fair and is bounded), that the operator starts the playbook again after a
failure, and that systemd and etcd make progress (`Restart=always`).  No fault,
crash, scheduler or second operator has to act.  `EtcdRecovery` assumes the same.
`KubeModule` assumes that the play is run again, that outages end and that
finalizers run; `OpenstackCleanup` that CI runs the script again and again (it is a
scheduled job), that jobs go on unless they are cancelled, and that time passes.

## What the models show about the code

* **A lost handler leaves the old kubelet running** (`upgrade_kubelet`) on a
  worker, when a run stops between `install.yml:13` and the flush in
  `kubelet.yml:43`.  Masters are safe: `kubeadm-upgrade.yml` always notifies the
  restart, which `MastersConverge` checks and `ControlPlaneConverges` proves.
* **One failed health check can split etcd** (`etcd_split`).  `configure.yml:2-19`
  asks once; a restarting member, or a failed connection, makes every host
  "new".  The joiners then found a cluster of all hosts of the group.  The same
  happens from one to more members without a crash, when a run stops between
  `member add` and the start of the second member.
* **etcd-events cannot be scaled** (`etcd_events_scale`): the `ignore_errors` of
  `configure.yml:79` has the condition of line 70 the other way round.
* **Two joiners and a run stopped between them get stuck.**  The rerun finds the
  first listed, so does not join it again, and renders the list of all hosts,
  with which etcd refuses to start it while the second is not a member; and the
  second is refused while the first is not connected.  `AllMembersRun` excludes
  runs that stop there (`StoppedBetween`).
* **The same, interrupted later, founds a second cluster.**  The run stops after
  the last `member add`, before that member has started.  The rerun finds it
  listed, goes past "Ensure etcd is running", which ignores that it has not come
  up, and its handlers restart every etcd; a run killed in the wait after that
  leaves them restarting, so the next health check fails, everything is "new", and
  the late member founds a cluster of its own.  It takes three faults, and with one
  initial member one.  `MembershipSpec` is therefore false of groups that grow and is
  claimed of new ones only; `GrowsByMembership` ends with the last addition, and
  `AllMembersRun` excludes the run that misses the cluster (`ClusterMissed`).
* **A joiner can be taken for a member.**  `configure.yml:129` looks for the
  address with an unanchored `grep`: a host 10.0.0.1 is found in the entry of
  10.0.0.11 and never joined.  With `Matches` of that kind (a joiner's address in a
  member's entry) TLC shows the run fail at "wait for etcd up", without a fault, and
  the run after it end well with the host no member.  `Unmistaken` excludes it.

The models have further behaviour that a reader should know of, and that the
properties therefore exclude:

* `needs_cordoning` is false for a node that is already unschedulable, so a node
  that a failed run left cordoned is upgraded by the next run without a drain and
  stays cordoned.  Such nodes add up over failed runs.  `Converged` speaks of
  sequences without failed runs, `AtMostOneBatchCordoned` of what one run adds, and
  `DrainedWhileUpgraded` of nodes that the run cordons.
* `pre-upgrade` ignores that kubectl fails (`:19-37`).  A node whose readiness is
  not known is upgraded without a drain, and one that the operator has cordoned,
  when that is not known, is cordoned, drained and made schedulable at the end.  So
  `DrainedWhileUpgraded` leaves out nodes whose look-up was not answered, as it does
  those that were not ready, and `AdminCordonsKept` needs `faults = 0`.
* An inventory that grows past a threshold keeps the etcd hosts it has among its
  workers, and the conflicts `set_calico_rr` looks for are never found
  (`inventory.py:356` tests the keys of the group's dictionary), so that masters
  and workers become route reflectors.
* The builder only adds to `etcd`: deleting one of three hosts leaves two etcd
  hosts, and so does replacing one under its name (`-node2 node2,ip`), which moves
  it to the end of the hosts.  `0020-verify-settings.yml:60` refuses an even
  number.  `OddEtcd` speaks of inventories without deletions and loads.
* `load` takes the address away from hosts listed under group `all`
  (`inventory.py:411-412`), and takes two hosts with one address as they come; a
  later `add` that looks for an address and meets a host without one ends with
  ValueError (`:159`).  `WellFormed` speaks of addresses only when nothing was
  loaded.
* A host named in a command whose name is the number that the next address would
  get drops the machine that got it (`inventory.py:207`).
* `name,ip` with a name that is taken replaces the machine that had it
  (`inventory.py:258`), and an address without `add` replaces the whole
  inventory.  `KeepsHosts` is about `add` with addresses.
* Recovery: hosts that are yet to join count as unhealthy (`main.yml:25`), so a
  rerun after an interruption may find a restored cluster without a quorum while
  it grows, and restore another; hosts that had joined the first keep its data.
  `QuorumRespected` is therefore about the old cluster.
* Recovery: where the quorum was lost, a second survivor keeps its old data and
  never joins the restored cluster, although `docs/recover-control-plane.md` says
  that one has a fully working control plane in the end.  An interruption between
  the stop and the start of the first host's etcd makes every rerun fail, unless
  the operator passes `etcd_snapshot`: the first task wants a snapshot of the
  etcd that is stopped.  `Blocked` names these, and `Repaired` excludes them.
* Recovery: one endpoint that answers late can cost the cluster its quorum
  decision (with `MaxGlitches` = 1, `QuorumRespected` without its condition on
  `glitches` is violated).
* `kube.py` takes an API server that does not answer, or one object missing of
  several files, for "does not exist" (`:160`, `:244`): `absent` then succeeds and
  deletes nothing.  A run can so end well with objects left that it should have
  removed, and nobody else involved: `Deployed` excepts what a look-up of the run got
  no answer about (`unanswered`) and what is removed by file.
* Recovery with more new hosts than broken ones: the hosts that have not joined
  yet count as unhealthy, so a working cluster is taken for lost and restored from
  its snapshot.  The theorems about the quorum assume `Replacing`.
* Tasks guarded by the change of a manifest's file (`cluster_roles/tasks/main.yml:36`)
  are skipped by the rerun after their first failure.
* `snapshot-controller` guards its namespace by the negation of a string that is
  never empty, so its namespace manifest is never generated.
* The clean-up compares local time with UTC (`main.py:24`): with `UtcOffset` = 1
  TLC finds a job that is not too old and fails.  A port that a cancelled job
  leaves with its security group makes every later run end at the security
  groups, and a floating IP keeps the router's interface; `OrphansGo` promises
  only the servers there.
* `terraform.py` fails altogether when there is a floating IP in any file and a
  device of Equinix in any (`:356`, KeyError).  A floating IP takes precedence of
  `prefer_ipv6`, which is compared with `"1"` while the example of
  `contrib/terraform/openstack/README.md` writes `true`; `use_access_ip` matters
  only where some floating IP exists; and two hosts of one name share the
  variables of the file read last.

`PROJECT.json` has the lines, and the hazards that no property covers yet.

## What is proved

Eight modules hold machine-checked proofs, for every value of the constants: any
number of hosts, invocations and faults.  A theorem assumes of the constants what
the `ASSUME`s of its module say, and a further condition only where it is named
here.  Every invariant and action property that the passing runs check is proved; what
remains is listed under "Model-checked only".

| Module | Theorems |
|---|---|
| `UpgradeProofs` | `TypeCorrect`, `UpgradeInvariant`, `WorkersFollow`, `MastersFollow`, `ControlPlaneConverges`, `OneBatchCordoned`, `UpgradesDrainedNodes`, `KeepsAdminCordons`, `UpgradeConverges` |
| `EtcdProofs` | `EtcdTypeCorrect`, `FoundsOneCluster`, `NewClusterAssembled`, `NewClusterImplementsMembership`, `ScalingKeepsQuorum`, `ScalingImplementsMembership`, `RunsSucceed`, `CalmImplementsMembership` |
| `EtcdRecoveryProofs` | `RecoveryTypeCorrect`, `RecoveryKeepsData`, `QuorumIsRespected`, `RecoveryHandsOver` |
| `InventoryProofs` | `InventoryTypes`, `InventoryWellFormed`, `RolesAreKept`, `EtcdIsSized` (of `EtcdIsRedundant` and `EtcdIsOdd`), `HostsAreKept` |
| `KubeProofs` | `TypeCorrect`, `AppliedCorrect`, `AbsentCorrect`, `PlayDeploys` |
| `CleanupProofs` | `CleanupTypes`, `SparesYoungJobs` |
| `TerraformProofs` | `Invariant`, `TypeCorrect`, `AllThatIsSteady`, `OnlySeen`, `OnlyForCause` |
| `Induction` | induction over numbers and the iteration of a step, for the recursive functions of `Inventory` and `TerraformInventory` |

**The upgrade.**  `UpgradeProofs` assumes that masters and workers are disjoint,
that positions are distinct numbers and that bounds are numbers; the proofs about
cordons also that the inventory is finite.  `WorkersFollow`, `MastersFollow` and
`ControlPlaneConverges` follow from `UpgradeInvariant`, whose formula `IInv` adds
what the properties do not say: the batch belongs to the play (`BatchOfPlay`), a
running kubelet is installed (`RunsInstalled`), the masters that the play has
dealt with are up to date (`DealtWith`), those before the batch have been dealt
with (`InOrder`), and how far the batch is, task by task (`BatchProgress`).  The
last is needed because a master's kubelet is restarted by a handler that the
control-plane task notifies and a later task runs: between the two only the
pending notification tells that the master will be up to date.

The second half of the module has the rest.  `CordonInv` says which nodes are
unschedulable because of the run: they are in the batch, the run has decided to
cordon them, and they have still to be uncordoned; with `BatchBound`, the size of
a batch, that bounds the lost capacity whatever failed before.  `DrainInv` follows
such a node through the block: it is cordoned and then drained, or it is on its
way to the rescue, which fails it; so of the nodes that the run decided to cordon,
what an upgrade task meets is cordoned, and nothing has been scheduled on it since.
That takes draining switched on, a failing drain that is an error, and an operator
who leaves the batch alone; of the other nodes of the batch nothing is said.  `SmoothInv` is about runs that meet no
fault: no node is rescued or left behind (`Smooth`), a host is taken out of the
queue when it is put into a batch (`BatchTaken`), what the operator has cordoned
is not the run's to uncordon (`AdminInv`), what is installed and does not run is
about to be restarted (`Notified`), and the hosts that the play has dealt with are
upgraded, task by task and batch by batch (`HostProgress`, `Upgraded`).

**etcd.**  `FoundsOneCluster`: new hosts never end up in two clusters, whatever
fails and however often the play is repeated.  The invariant `FoundInv` says why:
a configuration in state `new` always names all hosts, because the shorter lists
of joiners are rendered only while the cluster is known to be healthy, that is in
state `existing`.  `NewInv` adds what is then in the cluster, which gives
`Assembled` and the refinement: for a new group (`InitialMembers = {}`) the role
implements `EtcdMembership` without a condition on faults, crashes or wrong
checks.

For a group that grows, the proofs assume nothing of the numbers of
members, joiners and faults, and everything of `Unmistaken`.  `ScaleInv` holds while the cluster is `Growing`: it
had two members or more, no etcd crashed, no check was wrong, and some host is not
a member yet.  Then etcd runs exactly where it has data, at most one member has
not started, the check of each run finds the cluster healthy, so that no host is
configured as "new", and no run gets as far as the restart at the end of the play.
Hence the quorum (`ScalingKeepsQuorum`) and, step by step, the membership protocol
(`ScalingImplementsMembership`, which maps each step taken while `Growing`).  It
does not go on from the last addition when tasks fail: that is the second cluster
described above, which the attempt to prove the refinement has found.  Without
faults it does: `CalmImplementsMembership` proves `MembershipSpec` of every
behaviour in which nothing fails (`[]Calm`), and `RunsSucceed` that no such run
fails by itself.  Both are about `etcd` and not `etcd-events` (`~EventsCluster`),
which cannot be scaled, and about a group that is not empty.  Their invariant
`CalmInv` has two stages: a new group is being founded (`FoundingState`); from
then on whatever a task waits for is bound to happen, since every member but the
one that is joining runs, and the one that is joining is configured with exactly
the membership (`SmoothState`, `SmoothPlay`).

**Recovery.**  `RecoveryKeepsData` is about any group, scenarios and bounds.
`DataKept` alone is not inductive: that the data directory is gone is harmless
only because the snapshot is there.  `CopyInv` says so phase by phase: from the
stop of etcd to the removal of the snapshot there is a snapshot, etcd does not run
without data, and the snapshot goes only after the restore.  `QuorumIsRespected`
and `RecoveryHandsOver` assume `Replacing`: the new hosts are others than the old
ones and no more than were broken, as in the inventory of the documentation.
`GlitchFree` tells two histories apart.  If most members survived, the old cluster
has its quorum whenever a run counts, even with a member added and not started,
and the branch that throws it away is never taken; otherwise the old cluster has
lost it for good, and each cluster restored begins with the first host alone and
has its quorum when the role is handed the group.

**The inventory.**  `InventoryProofs` proves all the properties of `Inventory`,
for any machines, requests, documents, thresholds and lengths of lists.  The
script builds its lists in loops, and the module has them as recursive functions.
The provers cannot use an induction theorem that has an operator as parameter; so
induction is stated for sets (`SetInduction` in `Induction`: a set of numbers that has 0 and with
n also n + 1 is Nat, proved from the minimum that a well-founded order has), and
for each function a lemma gives its values step by step.  `GoodAcc` is the
invariant of the loop of `build_hostnames`: names and addresses are given once.
`WellFormed` is inductive together with the types; `RolesKept`, `EtcdRedundant`
and `KeepsHosts` follow from it.  `OddEtcd` is not inductive: an odd number says
nothing of the next one.  `EtcdFirst` does it: without deletions `etcd` is the
first so many hosts of the inventory, as in a new one.  The theorems are about any
documents that may be loaded, with hosts under `all` that lose their address and
hosts that share one; what is said of addresses, and that etcd is odd, is then
conditional on nothing having been loaded.

**kube.**  For every play and cluster, a task that succeeds has applied, or waited
for the deletion of, all its objects but those that others have touched meanwhile.
The invariant follows kubectl through its objects: those before `next` are done,
or an error is remembered.  `PlayDeploys` says of the whole play that it has applied
all its manifests and removed what it removes by name or label, except objects that
others have changed since it began or that were being deleted then (`foreign`), and
objects to remove that a look-up got no answer about (`unanswered`).  Its invariant
is `RunInv`: what the finished tasks applied is still there, since neither the task
under way nor one to come removes it.  It needs plays that are `Consistent`, which
do not take back in one task what another applies, and tasks that give one name
where they go by `name` (`PlayAssumption`), as the parameter of the module is.

**Clean-up.**  `SparesYoungJobs`: where local time is not ahead of UTC (`UtcOffset
<= 0`), a job that is not too old has everything it built, for any number of jobs.
Its invariant `YoungInv` says that the script's list, and the servers being
deleted, are of jobs that are too old, and that a younger job has all that comes
before what it is creating.

**Terraform.**  `TerraformProofs` proves all the properties of
`TerraformInventory`, for any files, states, nesting of the attributes and number
of writes.  Its first half is about reading one state.  `ConvertToV3` is defined by
recursion into the elements of lists, and `ConvertEquation` shows, by induction
over `Depth`, that such a function exists.  Another induction shows that all keys
made of an attribute begin with its path (`ConvertBegins`), so that no key is made
of two attributes, and that what the nested attributes have at a path is what
the flat ones have under the dotted key (`StringLookUp`, `DictLookUp`,
`ListLookUp`; `AtPaths` says it of every path that the script reads).  Hence a host
and a floating IP are read from both versions as the properties say
(`InstanceHost`, `DeviceHost`, `HostsRead`, `IpsRead`).

The second half is the invariant `IInv` of the two passes.  `Current`: what is in a
file is among what has been seen there.  `KnownIps` and `HostsMade`: each floating
IP and each host so far is that of some state seen, and the host is made with the
floating IPs of the first pass.  `IpsKept` and `HostsKept` are the other direction:
of each file read so far there is one state seen all of whose ports, or hosts, are
known.  It need not be the same state in both passes, which is all that
terraform can spoil; so what is alike in all the states of its file (`Steady`,
`SteadyPort`) is listed as it is.  `NothingInvented` and `FailsForCause` follow from
the first direction, `SteadyListed` needs both.  The assumptions say that every
state has the attributes that the script reads without asking, that metadata and
security groups are flat, and that numerals are distinct.

The proofs changed the models in five places.  `QuorumKept` and `AdminCordonsKept`
had been true in their runs because of the bounds there: the first now speaks of a
cluster of two members or more, the second excludes `upgrade_node_always_cordon`.
In `KubeModule` the set of objects that a play wants gone (`Unwanted`) did not
leave out those that it applies, as it was meant to.  `NothingInvented` looked for
a floating IP in the file of the host, while the script joins hosts and floating
IPs across files: with other constants it was false.  And `ConvertToV3` was a
recursive operator, of which nothing can be proved.

Nothing is claimed, checked or proved, of the membership protocol of a group that
grows while tasks fail, from the last addition on: `MembershipSpec` is false there.

Model-checked only:

* Liveness (`ControlPlaneUpgraded`, `AllMembersRun`, `Repaired`, `Converges`,
  `OrphansGo`): fairness and ENABLED are beyond the prover.

## Not modelled

* **etcd certificates.**  The protocol is worth a module: the script installs
  `ca-key.pem` before `ca.pem`, so that an interruption between them makes every
  rerun fail at `cp` (`make-ssl-etcd.sh.j2:60`), and `etcd_secret_changed` is set
  by a handler after the task that would use it has been skipped.
* **Joining masters and workers**, **download**: their state is mostly that of
  kubeadm, of containers and of caches outside the repository.
* **Removing nodes**, **reset**, **tokens**, **host preparation**, **network
  plugins**, **applications**, **load balancer**: straight-line tasks or rendered
  files.  `remove-etcd-node` finds the member by `grep` for an address: when
  another member's address begins with it, the removal fails, and once the node
  itself is gone a rerun removes the other member.
* **AWS inventory** and the other scripts: queries and downloads without a state.

## Plan

1. `EtcdCerts`: check, generate, gather and push over the first host and others,
   with interruptions; every host ends up with certificates of one CA.
2. `ControlPlaneJoin`: init, the certificate key, joins one by one, retries, the
   first master replaced; then `Download`.
3. Composition: `Inventory` edits followed by runs of `EtcdCluster`, so that the
   group `etcd` changes between runs.
