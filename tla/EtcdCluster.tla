---------------------------- MODULE EtcdCluster ----------------------------
(***************************************************************************)
(* The etcd role (roles/etcd) on the hosts of group etcd: the play that    *)
(* founds an etcd cluster, or adds hosts to the one there is, and that is  *)
(* started again after it failed.  Task names in comments are those of     *)
(* tasks/configure.yml, join_etcd_member.yml and main.yml.                 *)
(*                                                                         *)
(* etcd and systemd are outside the repository.  An etcd with a data       *)
(* directory goes on as a member of its cluster.  One without reads        *)
(* /etc/etcd.env: in state "new" it founds the cluster made of             *)
(* ETCD_INITIAL_CLUSTER, in state "existing" it joins its peers' cluster   *)
(* if ETCD_INITIAL_CLUSTER is exactly that cluster's membership, and       *)
(* otherwise it exits.  systemd starts it again and again                  *)
(* (Restart=always).  A cluster is named by the set of its founders, from  *)
(* which etcd computes its identifier.                                     *)
(***************************************************************************)
EXTENDS Naturals, FiniteSets

CONSTANTS
    Hosts,           \* group etcd
    InitialMembers,  \* the members of a healthy cluster, or {}
    Matches,         \* the hosts in whose entry of "etcdctl member list" grep
                     \* finds a host's address: its own, and longer ones
    EventsCluster,   \* the role's tasks for etcd-events (else: for etcd)
    MaxRuns,         \* bound: invocations of the playbook
    MaxFaults,       \* bound: failed tasks and interrupted runs
    MaxCrashes,      \* bound: etcd processes that die
    MaxGlitches      \* bound: health checks that wrongly report a failure

ASSUME MembersAssumption ==
    /\ IsFiniteSet(Hosts)
    /\ InitialMembers \subseteq Hosts
ASSUME MatchesAssumption ==
    /\ Matches \in [Hosts -> SUBSET Hosts]
    /\ \A h \in Hosts : h \in Matches[h]
ASSUME EventsAssumption == EventsCluster \in BOOLEAN
ASSUME BoundsAssumption ==
    /\ MaxRuns \in Nat /\ MaxFaults \in Nat
    /\ MaxCrashes \in Nat /\ MaxGlitches \in Nat

VARIABLES
    (* The run of the playbook. *)
    phase,       \* the task it is in
    healthy,     \* etcd_cluster_is_healthy.rc == 0
    inCluster,   \* hosts whose etcd_member_in_cluster.rc is 0
    joiners,     \* hosts that still have to go through join_etcd_member.yml
    joining,     \* the host that is in it, as a set
    notified,    \* hosts where "restart etcd" is notified
    runs, faults,
    (* The hosts. *)
    env,         \* /etc/etcd.env: state and initial cluster
    wanted,      \* systemd has been told to run etcd
    up,          \* etcd runs
    data,        \* the cluster of etcd's data directory, {} if there is none
    published,   \* members that have started and published their client URL
    crashes, glitches,
    (* The clusters: the membership of each. *)
    members

playVars == <<phase, healthy, inCluster, joiners, joining, notified, runs,
              faults>>
etcdVars == <<env, wanted, up, data, published, crashes, glitches, members>>
vars == <<playVars, etcdVars>>

Clusters == (SUBSET Hosts) \ {{}}
Env == [state : {"none", "new", "existing"}, initial : SUBSET Hosts]

Init ==
    /\ phase = "idle" /\ healthy = FALSE /\ inCluster = {} /\ joiners = {}
    /\ joining = {} /\ notified = {} /\ runs = 0 /\ faults = 0
    /\ env = [h \in Hosts |->
                 IF h \in InitialMembers
                 THEN [state |-> "existing", initial |-> InitialMembers]
                 ELSE [state |-> "none", initial |-> {}]]
    /\ wanted = InitialMembers /\ up = InitialMembers
    /\ data = [h \in Hosts |-> IF h \in InitialMembers THEN InitialMembers ELSE {}]
    /\ published = InitialMembers
    /\ crashes = 0 /\ glitches = 0
    /\ members = [c \in Clusters |-> c]

-----------------------------------------------------------------------------
(* etcd, systemd and etcdctl. *)

Running(c) == {h \in up : data[h] = c}

HasQuorum(c) == 2 * Cardinality(Running(c) \cap members[c]) > Cardinality(members[c])

(* systemctl start returns without an error: Type=notify. *)
Ready(h) == h \in up /\ HasQuorum(data[h]) /\ h \in published

(* etcdctl endpoint --cluster health: it knows a member by the client URL  *)
(* that the member published.                                              *)
IsHealthy(c) ==
    /\ HasQuorum(c)
    /\ \A h \in members[c] \cap published : data[h] = c => h \in up

Answering == {c \in Clusters : Running(c) # {}}
WithQuorum == {c \in Answering : HasQuorum(c)}

CanContinue(h) == data[h] # {}

CanJoin(h, c) ==
    /\ data[h] = {} /\ env[h].state = "existing"
    /\ \E p \in up \cap env[h].initial : data[p] = c
    /\ members[c] = env[h].initial
    /\ h \in members[c]

CanFound(h) == data[h] = {} /\ env[h].state = "new"

CanStart(h) ==
    /\ h \in wanted \ up
    /\ CanContinue(h) \/ CanFound(h) \/ \E c \in Clusters : CanJoin(h, c)

EtcdStarts(h) ==
    /\ h \in wanted \ up
    /\ up' = up \cup {h}
    /\ \/ CanContinue(h) /\ UNCHANGED data
       \/ CanFound(h) /\ data' = [data EXCEPT ![h] = env[h].initial]
       \/ \E c \in Clusters :
             CanJoin(h, c) /\ data' = [data EXCEPT ![h] = c]
    /\ UNCHANGED <<playVars, env, wanted, published, crashes, glitches, members>>

CanPublish(h) ==
    h \in up \ published /\ h \in members[data[h]] /\ HasQuorum(data[h])

Publish(h) ==
    /\ CanPublish(h)
    /\ published' = published \cup {h}
    /\ UNCHANGED <<playVars, env, wanted, up, data, crashes, glitches, members>>

Crash(h) ==
    /\ h \in up /\ crashes < MaxCrashes
    /\ up' = up \ {h}
    /\ crashes' = crashes + 1
    /\ UNCHANGED <<playVars, env, wanted, data, published, glitches, members>>

(* Nothing more will happen unless the playbook does something.            *)
Settled == \A h \in Hosts : ~CanStart(h) /\ ~CanPublish(h)

-----------------------------------------------------------------------------
(* The run. *)

Goto(p) == phase' = p

StartRun ==
    /\ phase \in {"idle", "stopped", "done"}
    /\ runs < MaxRuns
    /\ Goto("health")
    /\ healthy' = FALSE /\ inCluster' = {} /\ joiners' = {} /\ joining' = {}
    /\ notified' = {}
    /\ runs' = runs + 1
    /\ UNCHANGED <<faults, etcdVars>>

(* A task fails, and with it the play: handlers are not run.               *)
StopPlay ==
    /\ Goto("stopped")
    /\ healthy' = FALSE /\ inCluster' = {} /\ joiners' = {} /\ joining' = {}
    /\ notified' = {}

Active == phase \notin {"idle", "stopped", "done"}

Interrupt ==
    /\ Active
    /\ faults < MaxFaults
    /\ StopPlay
    /\ faults' = faults + 1
    /\ UNCHANGED <<runs, etcdVars>>

(* A task that waits has its time out when nothing can happen any more, or *)
(* before it has happened, which counts as a fault.                        *)
Missed ==
    \/ Settled /\ UNCHANGED faults
    \/ ~Settled /\ faults < MaxFaults /\ faults' = faults + 1

GivesUp == Missed /\ StopPlay /\ UNCHANGED <<runs, etcdVars>>

(* Check if etcd cluster is healthy: asked once, and an error is an answer.*)
(* Mutant: asks the endpoints of the inventory, not those of the cluster.  *)
CheckHealth_AllHosts ==
    /\ phase = "health"
    /\ Goto("config")
    /\ healthy' = (up = Hosts)
    /\ UNCHANGED <<inCluster, joiners, joining, notified, runs, faults, env,
                   wanted, up, data, published, crashes, glitches, members>>

CheckHealth ==
    /\ phase = "health"
    /\ Goto("config")
    /\ \/ /\ \/ \E c \in Answering : healthy' = IsHealthy(c)
             \/ Answering = {} /\ healthy' = FALSE
          /\ UNCHANGED glitches
       \/ /\ glitches < MaxGlitches
          /\ glitches' = glitches + 1
          /\ healthy' = FALSE
    /\ UNCHANGED <<inCluster, joiners, joining, notified, runs, faults, env,
                   wanted, up, data, published, crashes, members>>

(* refresh_config.yml on hosts S: etcd.env.j2 is rendered, and a file that *)
(* changes notifies the handler.                                           *)
(* Mutants: each host renders itself only; every cluster is an existing one.*)
Rendered_Alone(S, peers) ==
    [h \in Hosts |->
        IF h \in S
        THEN [state   |-> IF healthy THEN "existing" ELSE "new",
              initial |-> IF healthy THEN peers ELSE {h}]
        ELSE env[h]]

Rendered_Existing(S, peers) ==
    [h \in Hosts |->
        IF h \in S THEN [state |-> "existing", initial |-> peers] ELSE env[h]]

Rendered(S, peers) ==
    [h \in Hosts |->
        IF h \in S
        THEN [state |-> IF healthy THEN "existing" ELSE "new", initial |-> peers]
        ELSE env[h]]

Refresh(S, peers) ==
    /\ env' = Rendered(S, peers)
    /\ notified' = notified \cup {h \in S : Rendered(S, peers)[h] # env[h]}

(* Mutant: the handlers are flushed right after the refresh.               *)
Configure_RestartsNow ==
    /\ phase = "config"
    /\ Goto("launch")
    /\ env' = Rendered(Hosts, Hosts)
    /\ up' = {h \in up : Rendered(Hosts, Hosts)[h] = env[h]}
    /\ UNCHANGED <<healthy, inCluster, joiners, joining, notified, runs, faults,
                   wanted, data, published, crashes, glitches, members>>

(* The first refresh, on every host.                                       *)
Configure ==
    /\ phase = "config"
    /\ Goto("launch")
    /\ Refresh(Hosts, Hosts)
    /\ UNCHANGED <<healthy, inCluster, joiners, joining, runs, faults, wanted, up,
                   data, published, crashes, glitches, members>>

(* Mutant: the role ends without the refreshes after configure.yml.        *)
FinalConfig_Skipped ==
    /\ phase = "join" /\ joining = {} /\ joiners = {}
    /\ Goto("restart")
    /\ UNCHANGED <<healthy, inCluster, joiners, joining, notified, runs, faults,
                   etcdVars>>

(* The refreshes after configure.yml, on every host.                       *)
FinalConfig ==
    /\ phase = "join" /\ joining = {} /\ joiners = {}
    /\ Goto("restart")
    /\ Refresh(Hosts, Hosts)
    /\ UNCHANGED <<healthy, inCluster, joiners, joining, runs, faults, wanted, up,
                   data, published, crashes, glitches, members>>

(* A refresh of all the hosts fails on some of them and the play stops.    *)
ConfigureFails ==
    /\ \/ phase = "config"
       \/ phase = "join" /\ joining = {} /\ joiners = {}
    /\ faults < MaxFaults
    /\ \E S \in SUBSET Hosts : S # Hosts /\ env' = Rendered(S, Hosts)
    /\ StopPlay
    /\ faults' = faults + 1
    /\ UNCHANGED <<runs, wanted, up, data, published, crashes, glitches, members>>

(* Mutant: only the hosts whose etcd does not run are left enabled.        *)
Launch_Missing ==
    /\ phase = "launch"
    /\ Goto("start")
    /\ wanted' = Hosts \ up
    /\ UNCHANGED <<healthy, inCluster, joiners, joining, notified, runs, faults,
                   env, up, data, published, crashes, glitches, members>>

(* "Ensure etcd is running" makes systemd start etcd on every host, and    *)
(* then looks whether it has come up.                                      *)
Launch ==
    /\ phase = "launch"
    /\ Goto("start")
    /\ wanted' = Hosts
    /\ UNCHANGED <<healthy, inCluster, joiners, joining, notified, runs, faults,
                   env, up, data, published, crashes, glitches, members>>

(* "when scaling new etcd will fail to start": is an error of "Ensure etcd *)
(* is running" ignored?                                                    *)
StartErrorsIgnored == IF EventsCluster THEN ~healthy ELSE healthy

EnsureRunning ==
    /\ phase = "start"
    /\ \/ (\A h \in Hosts : Ready(h)) /\ UNCHANGED faults
       \/ StartErrorsIgnored /\ (\E h \in Hosts : ~Ready(h)) /\ Missed
    /\ Goto("wait")
    /\ UNCHANGED <<healthy, inCluster, joiners, joining, notified, runs, etcdVars>>

EnsureRunningFails ==
    /\ phase = "start"
    /\ \E h \in Hosts : ~Ready(h)
    /\ ~StartErrorsIgnored
    /\ GivesUp

(* Wait for etcd cluster to be healthy.                                    *)
WaitHealthy ==
    /\ phase = "wait"
    /\ \E c \in Answering : IsHealthy(c)
    /\ healthy' = TRUE
    /\ Goto("list")
    /\ UNCHANGED <<inCluster, joiners, joining, notified, runs, faults, etcdVars>>

WaitHealthyFails ==
    /\ phase = "wait"
    /\ \A c \in Answering : ~IsHealthy(c)
    /\ GivesUp

(* etcdctl member list | grep: a host is found in the list by an address   *)
(* that its own is a part of.                                              *)
Listed(c) == {h \in Hosts : Matches[h] \cap members[c] # {}}

(* Mutant: a host whose configuration is of an existing cluster is taken   *)
(* for a member.                                                           *)
CheckMembers_Configured ==
    /\ phase = "list"
    /\ Goto("join")
    /\ inCluster' = {h \in Hosts : env[h].state = "existing"}
    /\ joiners' = Hosts \ inCluster'
    /\ UNCHANGED <<healthy, joining, notified, runs, faults, etcdVars>>

(* Check if member is in etcd cluster: no answer counts as "no".           *)
CheckMembers ==
    /\ phase = "list"
    /\ Goto("join")
    /\ \/ \E c \in WithQuorum : inCluster' = Listed(c)
       \/ WithQuorum = {} /\ inCluster' = {}
    /\ joiners' = Hosts \ inCluster'
    /\ UNCHANGED <<healthy, joining, notified, runs, faults, etcdVars>>

(* Join member(s) to etcd cluster one at a time.                           *)
NextJoiner(h) ==
    /\ phase = "join" /\ joining = {} /\ h \in joiners
    /\ joining' = {h}
    /\ joiners' = joiners \ {h}
    /\ UNCHANGED <<phase, healthy, inCluster, notified, runs, faults, etcdVars>>

(* etcd accepts a new member when it is connected to all the others.       *)
AcceptsMembers(c) ==
    /\ HasQuorum(c)
    /\ members[c] \subseteq Running(c) \cap published

(* For etcd, "Peer URLs already exists" is as good as an addition.         *)
AddMember(h) ==
    /\ phase = "join" /\ joining = {h}
    /\ \E c \in WithQuorum :
          \/ ~EventsCluster /\ h \in members[c] /\ UNCHANGED members
          \/ /\ h \notin members[c] /\ AcceptsMembers(c)
             /\ members' = [members EXCEPT ![c] = @ \cup {h}]
    /\ Goto("join_config")
    /\ UNCHANGED <<healthy, inCluster, joiners, joining, notified, runs, faults,
                   env, wanted, up, data, published, crashes, glitches>>

AddMemberFails(h) ==
    /\ phase = "join" /\ joining = {h}
    /\ \A c \in WithQuorum :
          IF h \in members[c] THEN EventsCluster ELSE ~AcceptsMembers(c)
    /\ GivesUp

(* Mutant: the new member is given the hosts that have yet to join, too.   *)
JoinPeers_AllHosts(h) == Hosts

(* The new member's configuration names the members so far and itself, but *)
(* for etcd-events under a name (etcdN) that is not the member's own       *)
(* (etcdN-events): etcd does not find itself in it.                        *)
JoinPeers(h) == inCluster \cup (IF EventsCluster THEN {} ELSE {h})

ConfigureMember(h) ==
    /\ phase = "join_config" /\ joining = {h}
    /\ Goto("join_list")
    /\ Refresh({h}, JoinPeers(h))
    /\ UNCHANGED <<healthy, inCluster, joiners, joining, runs, faults, wanted, up,
                   data, published, crashes, glitches, members>>

(* "Ensure member is in etcd cluster" also updates the fact.               *)
EnsureListed(h) ==
    /\ phase = "join_list" /\ joining = {h}
    /\ \E c \in WithQuorum : h \in Listed(c)
    /\ Goto("join_start")
    /\ inCluster' = inCluster \cup {h}
    /\ UNCHANGED <<healthy, joiners, joining, notified, runs, faults, etcdVars>>

EnsureListedFails(h) ==
    /\ phase = "join_list" /\ joining = {h}
    /\ \A c \in WithQuorum : h \notin Listed(c)
    /\ GivesUp

(* Ensure etcd is running, for the new member: its errors are not ignored. *)
MemberStarted(h) ==
    /\ phase = "join_start" /\ joining = {h}
    /\ Ready(h)
    /\ Goto("join")
    /\ joining' = {}
    /\ UNCHANGED <<healthy, inCluster, joiners, notified, runs, faults, etcdVars>>

MemberStartFails(h) ==
    /\ phase = "join_start" /\ joining = {h}
    /\ ~Ready(h)
    /\ GivesUp

(* Handler "reload etcd": on all the hosts notified, at the same time.     *)
RestartEtcd ==
    /\ phase = "restart"
    /\ up' = up \ notified
    /\ Goto("wait_up")
    /\ UNCHANGED <<healthy, inCluster, joiners, joining, notified, runs, faults,
                   env, wanted, data, published, crashes, glitches, members>>

(* Handler "wait for etcd up". *)
EtcdUp ==
    /\ phase = "wait_up"
    /\ \A h \in notified : Ready(h)
    /\ Goto("done")
    /\ notified' = {}
    /\ UNCHANGED <<healthy, inCluster, joiners, joining, runs, faults, etcdVars>>

EtcdUpFails ==
    /\ phase = "wait_up"
    /\ \E h \in notified : ~Ready(h)
    /\ GivesUp

-----------------------------------------------------------------------------
JoinTask(h) ==
    \/ NextJoiner(h) \/ AddMember(h) \/ AddMemberFails(h)
    \/ ConfigureMember(h) \/ EnsureListed(h) \/ EnsureListedFails(h)
    \/ MemberStarted(h) \/ MemberStartFails(h)

PlayStep ==
    \/ CheckHealth \/ Configure \/ ConfigureFails \/ Launch
    \/ EnsureRunning \/ EnsureRunningFails \/ WaitHealthy \/ WaitHealthyFails
    \/ CheckMembers \/ FinalConfig \/ RestartEtcd \/ EtcdUp \/ EtcdUpFails
    \/ \E h \in Hosts : JoinTask(h)

EtcdStep(h) == EtcdStarts(h) \/ Publish(h)

Next ==
    \/ StartRun \/ Interrupt \/ PlayStep
    \/ \E h \in Hosts : EtcdStep(h) \/ Crash(h)

Spec == Init /\ [][Next]_vars

(* The run goes on, etcd and systemd make progress, and the operator runs  *)
(* the playbook again after a failure.                                     *)
Rerun == phase \in {"idle", "stopped"} /\ StartRun

FairSpec ==
    /\ Spec
    /\ WF_vars(PlayStep) /\ WF_vars(Rerun)
    /\ \A h \in Hosts : WF_vars(EtcdStep(h))

-----------------------------------------------------------------------------
(* Properties. *)

TypeOK ==
    /\ phase \in {"idle", "health", "config", "launch", "start", "wait", "list",
                  "join", "join_config", "join_list", "join_start", "restart",
                  "wait_up", "done", "stopped"}
    /\ healthy \in BOOLEAN
    /\ inCluster \subseteq Hosts /\ joiners \subseteq Hosts
    /\ joining \subseteq Hosts /\ notified \subseteq Hosts
    /\ runs \in 0 .. MaxRuns /\ faults \in 0 .. MaxFaults
    /\ env \in [Hosts -> Env]
    /\ wanted \subseteq Hosts /\ up \subseteq wanted
    /\ data \in [Hosts -> SUBSET Hosts]
    /\ published \subseteq Hosts
    /\ crashes \in 0 .. MaxCrashes /\ glitches \in 0 .. MaxGlitches
    /\ members \in [Clusters -> SUBSET Hosts]

(* All the data there is belongs to one cluster: no second one is founded  *)
(* next to it, whatever fails and however often the play is run again.     *)
OneCluster ==
    \A g, h \in Hosts : data[g] # {} /\ data[h] # {} => data[g] = data[h]

(* "After etcd cluster is assembled, make sure that initial state of the   *)
(* cluster is in `existing` state instead of `new`" (main.yml): when the   *)
(* play has succeeded every host is a member of the cluster, has its data, *)
(* or none as long as it starts late, and is configured as an existing     *)
(* member of it.                                                           *)
Assembled ==
    phase = "done" =>
        \E c \in Clusters :
            /\ members[c] = Hosts
            /\ \A h \in Hosts :
                  /\ data[h] \in {{}, c}
                  /\ env[h] = [state |-> "existing", initial |-> Hosts]

(* No host that is to be added is taken for a member: its address is not   *)
(* part of another host's.  The code does not check this.                  *)
Unmistaken ==
    InitialMembers # {} => \A h \in Hosts \ InitialMembers : Matches[h] = {h}

(* A cluster of two members or more grows, and etcd and the health checks  *)
(* have not failed.                                                        *)
Growing ==
    /\ Unmistaken
    /\ Cardinality(InitialMembers) > 1
    /\ crashes + glitches = 0
    /\ members[InitialMembers] # Hosts

(* Adding hosts to a redundant cluster never costs it its quorum, at       *)
(* whatever task runs fail and however often they are repeated: only the   *)
(* restart at the end of the play does, when every host is a member.       *)
QuorumKept == Growing => HasQuorum(InitialMembers)

(* The play over hosts that are not mistaken for members succeeds when     *)
(* nothing goes wrong outside of it.                                       *)
ScaleUpSucceeds ==
    Unmistaken /\ phase = "stopped" => faults + crashes + glitches > 0

(* "when scaling new etcd will fail to start" (configure.yml): it never    *)
(* founds a cluster of its own.                                            *)
ScalingJoins ==
    InitialMembers # {} => \A h \in Hosts : data[h] \in {{}, InitialMembers}

(* If the operator starts the play again after a failure, every host ends  *)
(* up as a running member of one cluster of all the hosts.  For hosts that *)
(* are added to a cluster this takes three things that the code does not   *)
(* ensure.  None is mistaken for a member.  No run misses the cluster at   *)
(* its health check, as it does after a run that stopped while all of etcd *)
(* restarts: late hosts then found a second cluster.  And no run stops     *)
(* between adding a host and its first start while another is still to be  *)
(* added: the rerun finds the first listed and does not join it again,     *)
(* configures it with hosts that are no members, it never starts, and etcd *)
(* takes no other.                                                         *)
AllRun(c) == members[c] = Hosts /\ Running(c) = Hosts /\ published = Hosts
ClusterMissed == InitialMembers # {} /\ phase = "config" /\ ~healthy
StoppedBetween ==
    /\ phase = "stopped"
    /\ \E c \in Answering : members[c] \ published # {} /\ members[c] # Hosts
AllMembersRun ==
    Unmistaken /\ [](~ClusterMissed /\ ~StoppedBetween) =>
        <>[](\E c \in Clusters : AllRun(c))

(* The role implements the abstract membership protocol when it founds a   *)
(* cluster, whatever fails.                                                *)
Founders == UNION {data[h] : h \in Hosts}
Membership == INSTANCE EtcdMembership WITH
    founders   <- Founders,
    membership <- IF Founders = {} THEN {} ELSE members[Founders],
    started    <- published
MembershipSpec == Membership!MSpec

(* When it adds hosts to a cluster, every step until the last of them is a *)
(* member is one of that protocol, whatever tasks fail: no second cluster  *)
(* is founded, and a member is added only when the earlier ones have       *)
(* started.                                                                *)
GrowsByMembership == [][Growing => [Membership!MNext]_Membership!mvars]_vars
=============================================================================
