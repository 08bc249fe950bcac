----------------------------- MODULE EtcdProofs -----------------------------
(***************************************************************************)
(* Proofs about EtcdCluster for any number of hosts, runs, faults, crashes *)
(* and failed health checks: its types, and that a group etcd with no      *)
(* members yet ends up in one cluster only; and for any number of members, *)
(* of hosts that are added and of failed and repeated runs, that the       *)
(* cluster keeps its quorum and grows by the protocol of EtcdMembership.   *)
(***************************************************************************)
EXTENDS EtcdCluster, FiniteSetTheorems, TLAPS

USE DEF Clusters, Env

-----------------------------------------------------------------------------
(* The types. *)

LEMMA TypeInit == Init => TypeOK
  <1> SUFFICES ASSUME Init PROVE TypeOK
    OBVIOUS
  <1>1. env \in [Hosts -> Env] /\ data \in [Hosts -> SUBSET Hosts]
    BY MembersAssumption DEF Init
  <1>2. members \in [Clusters -> SUBSET Hosts]
    BY DEF Init
  <1>3. /\ runs \in 0 .. MaxRuns /\ faults \in 0 .. MaxFaults
        /\ crashes \in 0 .. MaxCrashes /\ glitches \in 0 .. MaxGlitches
    BY BoundsAssumption DEF Init
  <1> QED
    BY <1>1, <1>2, <1>3, MembersAssumption DEF Init, TypeOK

(* A rendered configuration has the type of one. *)
LEMMA RenderedType ==
  ASSUME TypeOK, NEW S \in SUBSET Hosts, NEW peers \in SUBSET Hosts
  PROVE  Rendered(S, peers) \in [Hosts -> Env]
  BY DEF TypeOK, Rendered

LEMMA StopType ==
  ASSUME TypeOK, StopPlay,
         UNCHANGED <<runs, wanted, up, data, published, crashes, glitches, members>>,
         env' \in [Hosts -> Env], faults' \in 0 .. MaxFaults
  PROVE  TypeOK'
  BY DEF TypeOK, StopPlay, Goto

(* What a task that runs out of time does to the budget of faults. *)
LEMMA MissedType ==
  ASSUME TypeOK, Missed
  PROVE  faults' \in 0 .. MaxFaults
  BY BoundsAssumption DEF TypeOK, Missed

LEMMA GivesUpType ==
  ASSUME TypeOK, GivesUp
  PROVE  TypeOK'
  <1>1. faults' \in 0 .. MaxFaults
    BY MissedType DEF GivesUp
  <1>2. env' \in [Hosts -> Env]
    BY DEF GivesUp, etcdVars, TypeOK
  <1> QED
    BY <1>1, <1>2, StopType DEF GivesUp, etcdVars

LEMMA RefreshType ==
  ASSUME TypeOK, NEW S \in SUBSET Hosts, NEW peers \in SUBSET Hosts,
         Refresh(S, peers)
  PROVE  env' \in [Hosts -> Env] /\ notified' \subseteq Hosts
  BY RenderedType DEF Refresh, TypeOK

(* The steps of etcd and systemd. *)
LEMMA EtcdType ==
  ASSUME TypeOK, NEW h \in Hosts, EtcdStep(h) \/ Crash(h)
  PROVE  TypeOK'
  <1>1. CASE EtcdStarts(h)
    <2>1. data' \in [Hosts -> SUBSET Hosts]
      BY <1>1 DEF EtcdStarts, TypeOK, CanContinue, CanFound, CanJoin
    <2> QED
      BY <1>1, <2>1 DEF EtcdStarts, TypeOK, playVars
  <1>2. CASE Publish(h)
    BY <1>2 DEF Publish, CanPublish, TypeOK, playVars
  <1>3. CASE Crash(h)
    BY <1>3, BoundsAssumption DEF Crash, TypeOK, playVars
  <1> QED
    BY <1>1, <1>2, <1>3 DEF EtcdStep

(* The tasks of join_etcd_member.yml. *)
LEMMA JoinType ==
  ASSUME TypeOK, NEW h \in Hosts, JoinTask(h)
  PROVE  TypeOK'
  <1>1. CASE NextJoiner(h)
    BY <1>1 DEF NextJoiner, TypeOK, etcdVars
  <1>2. CASE AddMember(h)
    <2>1. members' \in [Clusters -> SUBSET Hosts]
      BY <1>2 DEF AddMember, TypeOK
    <2> QED
      BY <1>2, <2>1 DEF AddMember, TypeOK, Goto
  <1>3. CASE AddMemberFails(h) \/ EnsureListedFails(h) \/ MemberStartFails(h)
    BY <1>3, GivesUpType DEF AddMemberFails, EnsureListedFails, MemberStartFails
  <1>4. CASE ConfigureMember(h)
    <2>1. JoinPeers(h) \in SUBSET Hosts
      BY DEF JoinPeers, TypeOK
    <2>2. env' \in [Hosts -> Env] /\ notified' \subseteq Hosts
      BY <1>4, <2>1, RefreshType DEF ConfigureMember
    <2> QED
      BY <1>4, <2>2 DEF ConfigureMember, TypeOK, Goto
  <1>5. CASE EnsureListed(h)
    BY <1>5 DEF EnsureListed, TypeOK, Goto, etcdVars
  <1>6. CASE MemberStarted(h)
    BY <1>6 DEF MemberStarted, TypeOK, Goto, etcdVars
  <1> QED
    BY <1>1, <1>2, <1>3, <1>4, <1>5, <1>6 DEF JoinTask

(* The other tasks. *)
LEMMA PlayType ==
  ASSUME TypeOK, PlayStep
  PROVE  TypeOK'
  <1>1. CASE CheckHealth
    <2>1. healthy' \in BOOLEAN
      BY <1>1 DEF CheckHealth, IsHealthy
    <2>2. glitches' \in 0 .. MaxGlitches
      BY <1>1, BoundsAssumption DEF CheckHealth, TypeOK
    <2> QED
      BY <1>1, <2>1, <2>2 DEF CheckHealth, TypeOK, Goto
  <1>2. CASE Configure \/ FinalConfig
    <2>1. env' \in [Hosts -> Env] /\ notified' \subseteq Hosts
      BY <1>2, RefreshType DEF Configure, FinalConfig
    <2> QED
      BY <1>2, <2>1 DEF Configure, FinalConfig, TypeOK, Goto
  <1>3. CASE ConfigureFails
    <2>1. env' \in [Hosts -> Env]
      BY <1>3, RenderedType DEF ConfigureFails
    <2>2. faults' \in 0 .. MaxFaults
      BY <1>3, BoundsAssumption DEF ConfigureFails, TypeOK
    <2> QED
      BY <1>3, <2>1, <2>2, StopType DEF ConfigureFails
  <1>4. CASE Launch
    BY <1>4 DEF Launch, TypeOK, Goto
  <1>5. CASE EnsureRunning
    <2>1. faults' \in 0 .. MaxFaults
      BY <1>5, MissedType DEF EnsureRunning, TypeOK
    <2> QED
      BY <1>5, <2>1 DEF EnsureRunning, TypeOK, Goto, etcdVars
  <1>6. CASE EnsureRunningFails \/ WaitHealthyFails \/ EtcdUpFails
    BY <1>6, GivesUpType DEF EnsureRunningFails, WaitHealthyFails, EtcdUpFails
  <1>7. CASE WaitHealthy
    BY <1>7 DEF WaitHealthy, TypeOK, Goto, etcdVars
  <1>8. CASE CheckMembers
    <2>1. inCluster' \subseteq Hosts
      BY <1>8 DEF CheckMembers, Listed
    <2> QED
      BY <1>8, <2>1 DEF CheckMembers, TypeOK, Goto, etcdVars
  <1>9. CASE RestartEtcd
    BY <1>9 DEF RestartEtcd, TypeOK, Goto
  <1>10. CASE EtcdUp
    BY <1>10 DEF EtcdUp, TypeOK, Goto, etcdVars
  <1>11. CASE \E h \in Hosts : JoinTask(h)
    BY <1>11, JoinType
  <1> QED
    BY <1>1, <1>2, <1>3, <1>4, <1>5, <1>6, <1>7, <1>8, <1>9, <1>10, <1>11
       DEF PlayStep

LEMMA TypeNext == TypeOK /\ [Next]_vars => TypeOK'
  <1> SUFFICES ASSUME TypeOK, [Next]_vars PROVE TypeOK'
    OBVIOUS
  <1>1. CASE StartRun
    <2>1. runs' \in 0 .. MaxRuns
      BY <1>1, BoundsAssumption DEF StartRun, TypeOK
    <2> QED
      BY <1>1, <2>1 DEF StartRun, TypeOK, Goto, etcdVars
  <1>2. CASE Interrupt
    <2>1. env' \in [Hosts -> Env] /\ faults' \in 0 .. MaxFaults
      BY <1>2, BoundsAssumption DEF Interrupt, TypeOK, etcdVars
    <2> QED
      BY <1>2, <2>1 DEF Interrupt, StopPlay, Goto, etcdVars, TypeOK
  <1>3. CASE PlayStep
    BY <1>3, PlayType
  <1>4. CASE \E h \in Hosts : EtcdStep(h) \/ Crash(h)
    BY <1>4, EtcdType
  <1>5. CASE UNCHANGED vars
    BY <1>5 DEF vars, playVars, etcdVars, TypeOK
  <1> QED
    BY <1>1, <1>2, <1>3, <1>4, <1>5 DEF Next

(* Every variable keeps its type, and etcd runs only where systemd has     *)
(* been told to run it.                                                    *)
THEOREM EtcdTypeCorrect == Spec => []TypeOK
  <1> QED
    BY TypeInit, TypeNext, PTL DEF Spec

-----------------------------------------------------------------------------
(* A new cluster.  A host with data is in the cluster of all the hosts     *)
(* because every configuration in state "new" names all of them, and the   *)
(* configurations that name fewer, those of joining members, are rendered  *)
(* while the cluster is known to be healthy: in state "existing".          *)

JoinPhases == {"list", "join", "join_config", "join_list", "join_start"}

FoundInv ==
    /\ TypeOK
    /\ \A h \in Hosts : data[h] \in {{}, Hosts}
    /\ \A h \in Hosts : env[h].state = "new" => env[h].initial = Hosts
    /\ phase \in JoinPhases => healthy

LEMMA FoundInit == InitialMembers = {} /\ Init => FoundInv
  <1> SUFFICES ASSUME InitialMembers = {}, Init PROVE FoundInv
    OBVIOUS
  <1>1. TypeOK
    BY TypeInit
  <1> QED
    BY <1>1 DEF Init, FoundInv, JoinPhases

(* Rendering keeps the second part of the invariant. *)
LEMMA RenderedNew ==
  ASSUME FoundInv, NEW S \in SUBSET Hosts, NEW peers \in SUBSET Hosts,
         healthy \/ peers = Hosts
  PROVE  \A h \in Hosts :
            Rendered(S, peers)[h].state = "new" =>
                Rendered(S, peers)[h].initial = Hosts
  BY DEF FoundInv, TypeOK, Rendered

(* A step that changes neither the data nor the configurations. *)
LEMMA FoundSame ==
  ASSUME FoundInv, TypeOK', UNCHANGED data, UNCHANGED env,
         phase' \in JoinPhases => healthy'
  PROVE  FoundInv'
  BY DEF FoundInv

LEMMA GivesUpFound ==
  ASSUME FoundInv, TypeOK', GivesUp
  PROVE  FoundInv'
  BY FoundSame DEF GivesUp, StopPlay, Goto, JoinPhases, etcdVars

LEMMA EtcdFound ==
  ASSUME FoundInv, TypeOK', NEW h \in Hosts, EtcdStep(h) \/ Crash(h)
  PROVE  FoundInv'
  <1>0. phase' = phase /\ healthy' = healthy /\ env' = env
    BY DEF EtcdStep, EtcdStarts, Publish, Crash, playVars
  <1>1. CASE EtcdStarts(h)
    <2>1. CASE CanContinue(h) /\ UNCHANGED data
      BY <1>0, <2>1, FoundSame DEF FoundInv
    <2>2. CASE CanFound(h) /\ data' = [data EXCEPT ![h] = env[h].initial]
      <3>1. env[h].initial = Hosts
        BY <2>2 DEF CanFound, FoundInv
      <3> QED
        BY <1>0, <2>2, <3>1 DEF FoundInv, TypeOK
    <2>3. ASSUME NEW c \in Clusters, CanJoin(h, c), data' = [data EXCEPT ![h] = c]
          PROVE  FoundInv'
      <3>1. \E p \in Hosts : data[p] = c
        BY <2>3 DEF CanJoin, FoundInv, TypeOK
      <3>2. c = Hosts
        BY <3>1 DEF FoundInv
      <3> QED
        BY <1>0, <2>3, <3>2 DEF FoundInv, TypeOK
    <2> QED
      BY <1>1, <2>1, <2>2, <2>3 DEF EtcdStarts
  <1>2. CASE Publish(h) \/ Crash(h)
    BY <1>0, <1>2, FoundSame DEF Publish, Crash, FoundInv
  <1> QED
    BY <1>1, <1>2 DEF EtcdStep

LEMMA JoinFound ==
  ASSUME FoundInv, TypeOK', NEW h \in Hosts, JoinTask(h)
  PROVE  FoundInv'
  <1>1. CASE NextJoiner(h) \/ AddMember(h) \/ EnsureListed(h) \/ MemberStarted(h)
    <2>1. UNCHANGED <<data, env, healthy>> /\ phase \in JoinPhases
      BY <1>1 DEF NextJoiner, AddMember, EnsureListed, MemberStarted, JoinPhases,
                  etcdVars
    <2> QED
      BY <2>1, FoundSame DEF FoundInv
  <1>2. CASE AddMemberFails(h) \/ EnsureListedFails(h) \/ MemberStartFails(h)
    BY <1>2, GivesUpFound DEF AddMemberFails, EnsureListedFails, MemberStartFails
  <1>3. CASE ConfigureMember(h)
    <2>1. healthy /\ JoinPeers(h) \in SUBSET Hosts
      BY <1>3 DEF ConfigureMember, FoundInv, TypeOK, JoinPhases, JoinPeers
    <2>2. env' = Rendered({h}, JoinPeers(h)) /\ UNCHANGED <<data, healthy>>
      BY <1>3 DEF ConfigureMember, Refresh
    <2> QED
      BY <2>1, <2>2, RenderedNew DEF FoundInv
  <1> QED
    BY <1>1, <1>2, <1>3 DEF JoinTask

LEMMA PlayFound ==
  ASSUME FoundInv, TypeOK', PlayStep
  PROVE  FoundInv'
  <1>1. CASE CheckHealth \/ Launch \/ EnsureRunning \/ RestartEtcd \/ EtcdUp
    BY <1>1, FoundSame DEF CheckHealth, Launch, EnsureRunning, RestartEtcd, EtcdUp,
       Goto, JoinPhases, etcdVars
  <1>2. CASE WaitHealthy \/ CheckMembers
    <2>1. UNCHANGED <<data, env>> /\ healthy'
      BY <1>2 DEF WaitHealthy, CheckMembers, etcdVars, FoundInv, JoinPhases
    <2> QED
      BY <2>1, FoundSame
  <1>3. CASE Configure \/ FinalConfig
    <2>1. /\ env' = Rendered(Hosts, Hosts) /\ UNCHANGED data
          /\ phase' \notin JoinPhases
      BY <1>3 DEF Configure, FinalConfig, Refresh, Goto, JoinPhases
    <2> QED
      BY <2>1, RenderedNew DEF FoundInv
  <1>4. CASE ConfigureFails
    <2>1. PICK S \in SUBSET Hosts : env' = Rendered(S, Hosts)
      BY <1>4 DEF ConfigureFails
    <2>2. UNCHANGED data /\ phase' \notin JoinPhases
      BY <1>4 DEF ConfigureFails, StopPlay, Goto, JoinPhases
    <2> QED
      BY <2>1, <2>2, RenderedNew DEF FoundInv
  <1>5. CASE EnsureRunningFails \/ WaitHealthyFails \/ EtcdUpFails
    BY <1>5, GivesUpFound DEF EnsureRunningFails, WaitHealthyFails, EtcdUpFails
  <1>6. CASE \E h \in Hosts : JoinTask(h)
    BY <1>6, JoinFound
  <1> QED
    BY <1>1, <1>2, <1>3, <1>4, <1>5, <1>6 DEF PlayStep

LEMMA FoundNext == FoundInv /\ [Next]_vars => FoundInv'
  <1> SUFFICES ASSUME FoundInv, [Next]_vars PROVE FoundInv'
    OBVIOUS
  <1>0. TypeOK'
    BY TypeNext DEF FoundInv
  <1>1. CASE StartRun \/ Interrupt
    BY <1>0, <1>1, FoundSame DEF StartRun, Interrupt, StopPlay, Goto, JoinPhases,
       etcdVars
  <1>2. CASE PlayStep
    BY <1>0, <1>2, PlayFound
  <1>3. CASE \E h \in Hosts : EtcdStep(h) \/ Crash(h)
    BY <1>0, <1>3, EtcdFound
  <1>4. CASE UNCHANGED vars
    BY <1>4, <1>0, FoundSame DEF vars, playVars, etcdVars, FoundInv
  <1> QED
    BY <1>1, <1>2, <1>3, <1>4 DEF Next

(* A group etcd without members founds one cluster, however many runs of   *)
(* the play fail at any task, etcd processes crash and health checks fail. *)
THEOREM FoundsOneCluster == InitialMembers = {} => (Spec => []OneCluster)
  <1> SUFFICES ASSUME InitialMembers = {} PROVE Spec => []OneCluster
    OBVIOUS
  <1>1. Init => FoundInv
    BY FoundInit
  <1>2. FoundInv => OneCluster
    BY DEF FoundInv, OneCluster
  <1> QED
    BY <1>1, <1>2, FoundNext, PTL DEF Spec
-----------------------------------------------------------------------------
(* What else holds of a new cluster: it has the members it was founded     *)
(* with, etcd runs on a host, or has once, only with the cluster's data,   *)
(* and a run that has come past the joins has found it healthy and leaves  *)
(* every host configured as one of its members.                            *)

LatePhases == {"restart", "wait_up", "done"}

NewInv ==
    /\ FoundInv
    /\ members = [c \in Clusters |-> c]
    /\ \A h \in up \cup published : data[h] = Hosts
    /\ phase \in JoinPhases \cup LatePhases => Hosts # {}
    /\ phase \in LatePhases =>
          \A h \in Hosts : env[h] = [state |-> "existing", initial |-> Hosts]

LEMMA NewInit == InitialMembers = {} /\ Init => NewInv
  <1> SUFFICES ASSUME InitialMembers = {}, Init PROVE NewInv
    OBVIOUS
  <1>1. FoundInv
    BY FoundInit
  <1> QED
    BY <1>1 DEF Init, NewInv, JoinPhases, LatePhases

(* A cluster that answers is the one of all the hosts. *)
LEMMA NewAnswering ==
  ASSUME NewInv, NEW c \in Answering
  PROVE  c = Hosts /\ Hosts # {}
  BY DEF NewInv, FoundInv, TypeOK, Answering, Running

(* A step that leaves etcd's data and the configurations as they are. *)
LEMMA NewSame ==
  ASSUME NewInv, FoundInv', UNCHANGED <<data, env, members, published>>,
         up' \subseteq up,
         \/ phase' \notin JoinPhases \cup LatePhases
         \/ phase' \in JoinPhases /\ phase \in JoinPhases
         \/ phase' \in LatePhases /\ phase \in LatePhases
  PROVE  NewInv'
  BY DEF NewInv, JoinPhases, LatePhases

LEMMA GivesUpNew ==
  ASSUME NewInv, FoundInv', GivesUp
  PROVE  NewInv'
  BY NewSame DEF GivesUp, StopPlay, Goto, JoinPhases, LatePhases, etcdVars

(* After a step of etcd every running host has the data of all the hosts. *)
LEMMA StartsWithData ==
  ASSUME NewInv, FoundInv', NEW h \in Hosts, EtcdStarts(h)
  PROVE  data' \in {data, [data EXCEPT ![h] = Hosts]} /\ data'[h] = Hosts
  <1> USE DEF NewInv, FoundInv, TypeOK
  <1>1. CASE CanContinue(h) /\ UNCHANGED data
    BY <1>1 DEF CanContinue
  <1>2. CASE CanFound(h) /\ data' = [data EXCEPT ![h] = env[h].initial]
    <2>1. env[h].initial = Hosts
      BY <1>2 DEF CanFound
    <2> QED
      BY <1>2, <2>1
  <1>3. ASSUME NEW c \in Clusters, CanJoin(h, c), data' = [data EXCEPT ![h] = c]
        PROVE  data' \in {data, [data EXCEPT ![h] = Hosts]} /\ data'[h] = Hosts
    <2>1. PICK p \in Hosts : data[p] = c
      BY <1>3 DEF CanJoin
    <2>2. c = Hosts
      BY <2>1
    <2> QED
      BY <1>3, <2>2
  <1> QED
    BY <1>1, <1>2, <1>3 DEF EtcdStarts

LEMMA EtcdNew ==
  ASSUME NewInv, FoundInv', NEW h \in Hosts, EtcdStep(h) \/ Crash(h)
  PROVE  NewInv'
  <1>1. CASE EtcdStarts(h)
    <2>1. /\ UNCHANGED <<phase, env, members, published>>
          /\ up' = up \cup {h}
      BY <1>1 DEF EtcdStarts, playVars
    <2>2. data' \in {data, [data EXCEPT ![h] = Hosts]} /\ data'[h] = Hosts
      BY <1>1, StartsWithData
    <2>3. \A g \in (up \cup published)' : data'[g] = Hosts
      BY <2>1, <2>2 DEF NewInv, FoundInv, TypeOK
    <2> QED
      BY <2>1, <2>3 DEF NewInv
  <1>2. CASE Publish(h)
    BY <1>2 DEF Publish, CanPublish, NewInv, playVars
  <1>3. CASE Crash(h)
    BY <1>3 DEF Crash, NewInv, playVars
  <1> QED
    BY <1>1, <1>2, <1>3 DEF EtcdStep

LEMMA JoinNew ==
  ASSUME NewInv, FoundInv', NEW h \in Hosts, JoinTask(h)
  PROVE  NewInv'
  <1>1. CASE NextJoiner(h) \/ EnsureListed(h) \/ MemberStarted(h)
    <2>1. UNCHANGED etcdVars /\ phase \in JoinPhases /\ phase' \in JoinPhases
      BY <1>1 DEF NextJoiner, EnsureListed, MemberStarted, JoinPhases, Goto
    <2> QED
      BY <2>1, NewSame DEF etcdVars
  <1>2. CASE AddMember(h)
    <2>1. PICK c \in WithQuorum :
             \/ UNCHANGED members
             \/ h \notin members[c] /\ members' = [members EXCEPT ![c] = @ \cup {h}]
      BY <1>2 DEF AddMember
    <2>2. c = Hosts /\ Hosts # {}
      BY <2>1, NewAnswering DEF WithQuorum
    <2>3. UNCHANGED members
      BY <2>1, <2>2 DEF NewInv
    <2>4. /\ UNCHANGED <<data, env, published, up>>
          /\ phase \in JoinPhases /\ phase' \in JoinPhases
      BY <1>2 DEF AddMember, JoinPhases, Goto
    <2> QED
      BY <2>3, <2>4, NewSame
  <1>3. CASE AddMemberFails(h) \/ EnsureListedFails(h) \/ MemberStartFails(h)
    BY <1>3, GivesUpNew DEF AddMemberFails, EnsureListedFails, MemberStartFails
  <1>4. CASE ConfigureMember(h)
    BY <1>4 DEF ConfigureMember, NewInv, JoinPhases, LatePhases, Goto
  <1> QED
    BY <1>1, <1>2, <1>3, <1>4 DEF JoinTask

LEMMA PlayNew ==
  ASSUME NewInv, FoundInv', PlayStep
  PROVE  NewInv'
  <1>1. CASE CheckHealth \/ Launch \/ EnsureRunning
    BY <1>1, NewSame DEF CheckHealth, Launch, EnsureRunning, Goto, JoinPhases,
       LatePhases, etcdVars
  <1>2. CASE RestartEtcd \/ EtcdUp
    <2>1. /\ UNCHANGED <<data, env, members, published>> /\ up' \subseteq up
          /\ phase \in LatePhases /\ phase' \in LatePhases
      BY <1>2 DEF RestartEtcd, EtcdUp, Goto, LatePhases, etcdVars
    <2> QED
      BY <2>1, NewSame
  <1>3. CASE WaitHealthy
    <2>1. Hosts # {}
      BY <1>3, NewAnswering DEF WaitHealthy
    <2> QED
      BY <1>3, <2>1 DEF WaitHealthy, Goto, NewInv, LatePhases, etcdVars
  <1>4. CASE CheckMembers
    <2>1. UNCHANGED etcdVars /\ phase \in JoinPhases /\ phase' \in JoinPhases
      BY <1>4 DEF CheckMembers, Goto, JoinPhases
    <2> QED
      BY <2>1, NewSame DEF etcdVars
  <1>5. CASE Configure \/ ConfigureFails
    <2>1. /\ UNCHANGED <<data, members, published, up>>
          /\ phase' \notin JoinPhases \cup LatePhases
      BY <1>5 DEF Configure, ConfigureFails, StopPlay, Goto, JoinPhases, LatePhases
    <2> QED
      BY <2>1 DEF NewInv
  <1>6. CASE FinalConfig
    <2>1. healthy /\ Hosts # {}
      BY <1>6 DEF FinalConfig, NewInv, FoundInv, JoinPhases
    <2>2. \A h \in Hosts : env'[h] = [state |-> "existing", initial |-> Hosts]
      BY <1>6, <2>1 DEF FinalConfig, Refresh, Rendered
    <2>3. UNCHANGED <<data, members, published, up>>
      BY <1>6 DEF FinalConfig
    <2> QED
      BY <2>1, <2>2, <2>3 DEF NewInv
  <1>7. CASE EnsureRunningFails \/ WaitHealthyFails \/ EtcdUpFails
    BY <1>7, GivesUpNew DEF EnsureRunningFails, WaitHealthyFails, EtcdUpFails
  <1>8. CASE \E h \in Hosts : JoinTask(h)
    BY <1>8, JoinNew
  <1> QED
    BY <1>1, <1>2, <1>3, <1>4, <1>5, <1>6, <1>7, <1>8 DEF PlayStep

LEMMA NewNext == NewInv /\ [Next]_vars => NewInv'
  <1> SUFFICES ASSUME NewInv, [Next]_vars PROVE NewInv'
    OBVIOUS
  <1>0. FoundInv'
    BY FoundNext DEF NewInv
  <1>1. CASE StartRun \/ Interrupt
    BY <1>0, <1>1, NewSame DEF StartRun, Interrupt, StopPlay, Goto, JoinPhases,
       LatePhases, etcdVars
  <1>2. CASE PlayStep
    BY <1>0, <1>2, PlayNew
  <1>3. CASE \E h \in Hosts : EtcdStep(h) \/ Crash(h)
    BY <1>0, <1>3, EtcdNew
  <1>4. CASE UNCHANGED vars
    BY <1>4, <1>0 DEF vars, playVars, etcdVars, NewInv
  <1> QED
    BY <1>1, <1>2, <1>3, <1>4 DEF Next

(* When the play over a new group succeeds, the hosts are the members of   *)
(* one cluster and configured as existing members of it.                   *)
THEOREM NewClusterAssembled == InitialMembers = {} => (Spec => []Assembled)
  <1> SUFFICES ASSUME InitialMembers = {} PROVE Spec => []Assembled
    OBVIOUS
  <1>1. Init => NewInv
    BY NewInit
  <1>2. NewInv => Assembled
    <2> SUFFICES ASSUME NewInv, phase = "done" PROVE Assembled
      BY DEF Assembled
    <2>1. Hosts \in Clusters
      BY DEF NewInv, LatePhases
    <2> QED
      BY <2>1 DEF NewInv, FoundInv, LatePhases, Assembled
  <1> QED
    BY <1>1, <1>2, NewNext, PTL DEF Spec

-----------------------------------------------------------------------------
(* The role implements the membership protocol on a new group.             *)

(* All the data there is makes up the one cluster, or there is none.       *)
LEMMA NewFounders ==
  ASSUME NewInv
  PROVE  /\ Founders = {} <=> \A h \in Hosts : data[h] = {}
         /\ Founders \in {{}, Hosts}
         /\ Founders # {} => members[Founders] = Hosts
  <1>1. \A h \in Hosts : data[h] \in {{}, Hosts}
    BY DEF NewInv, FoundInv
  <1>2. Founders \in {{}, Hosts}
    BY <1>1 DEF Founders
  <1>3. Founders = {} <=> \A h \in Hosts : data[h] = {}
    BY <1>1 DEF Founders
  <1>4. Founders # {} => members[Founders] = Hosts
    BY <1>2 DEF NewInv
  <1> QED
    BY <1>2, <1>3, <1>4

LEMMA NewMaps == NewInv /\ NewInv' /\ [Next]_vars => [Membership!MNext]_Membership!mvars
  <1> SUFFICES ASSUME NewInv, NewInv', [Next]_vars
               PROVE  [Membership!MNext]_Membership!mvars
    OBVIOUS
  <1> DEFINE ms == IF Founders = {} THEN {} ELSE members[Founders]
  <1>0. members' = members
    BY DEF NewInv
  <1>1. ASSUME UNCHANGED <<data, published>>
        PROVE  UNCHANGED Membership!mvars
    BY <1>0, <1>1 DEF Founders, Membership!mvars
  <1>2. ASSUME NEW h \in Hosts, EtcdStarts(h)
        PROVE  [Membership!MNext]_Membership!mvars
    <2>1. published' = published
      BY <1>2 DEF EtcdStarts
    <2>2. data' \in {data, [data EXCEPT ![h] = Hosts]} /\ data'[h] = Hosts
      BY <1>2, StartsWithData DEF NewInv
    <2>3. Founders' = Hosts /\ Hosts # {}
      <3>1. \A g \in Hosts : data'[g] \in {{}, Hosts}
        BY DEF NewInv, FoundInv
      <3> QED
        BY <2>2, <3>1 DEF Founders
    <2>4. ms' = Hosts
      BY <1>0, <2>3 DEF NewInv
    <2>5. CASE Founders = {}
      <3>1. Membership!Found(Hosts)
        BY <2>1, <2>3, <2>4, <2>5 DEF Membership!Found
      <3> QED
        BY <3>1 DEF Membership!MNext
    <2>6. CASE Founders # {}
      <3>1. Founders = Hosts /\ ms = Hosts
        BY <2>6, NewFounders
      <3> QED
        BY <2>1, <2>3, <2>4, <3>1 DEF Membership!mvars
    <2> QED
      BY <2>5, <2>6
  <1>3. ASSUME NEW h \in Hosts, Publish(h)
        PROVE  [Membership!MNext]_Membership!mvars
    <2>1. data' = data /\ published' = published \cup {h} /\ h \in up \ published
      BY <1>3 DEF Publish, CanPublish
    <2>2. Founders' = Founders /\ ms' = ms
      BY <1>0, <2>1 DEF Founders
    <2>3. data[h] = Hosts
      BY <2>1 DEF NewInv
    <2>4. ms = Hosts
      BY <2>3, NewFounders
    <2>5. Membership!StartMember(h)
      BY <2>1, <2>2, <2>4 DEF Membership!StartMember
    <2> QED
      BY <2>5 DEF Membership!MNext
  <1>4. ASSUME NEW h \in Hosts, Crash(h) PROVE UNCHANGED <<data, published>>
    BY <1>4 DEF Crash
  <1>5. ASSUME NEW h \in Hosts, JoinTask(h) PROVE UNCHANGED <<data, published>>
    BY <1>5 DEF JoinTask, NextJoiner, AddMember, AddMemberFails, ConfigureMember,
       EnsureListed, EnsureListedFails, MemberStarted, MemberStartFails, GivesUp,
       etcdVars
  <1>6. CASE PlayStep
    <2>1. UNCHANGED <<data, published>>
      BY <1>5, <1>6 DEF PlayStep, CheckHealth, Configure, ConfigureFails, Launch,
         EnsureRunning, EnsureRunningFails, WaitHealthy, WaitHealthyFails,
         CheckMembers, FinalConfig, RestartEtcd, EtcdUp, EtcdUpFails, GivesUp,
         etcdVars
    <2> QED
      BY <2>1, <1>1
  <1>7. CASE StartRun \/ Interrupt \/ UNCHANGED vars
    <2>1. UNCHANGED <<data, published>>
      BY <1>7 DEF StartRun, Interrupt, vars, etcdVars
    <2> QED
      BY <2>1, <1>1
  <1> QED
    BY <1>1, <1>2, <1>3, <1>4, <1>6, <1>7 DEF Next, EtcdStep

(* The role founds one cluster of a new group, once, and starts its        *)
(* members one by one, whatever fails on the way.                          *)
THEOREM NewClusterImplementsMembership ==
  InitialMembers = {} => (Spec => MembershipSpec)
  <1> SUFFICES ASSUME InitialMembers = {} PROVE Spec => MembershipSpec
    OBVIOUS
  <1>1. Init => NewInv
    BY NewInit
  <1>2. Init => Membership!MInit
    <2> SUFFICES ASSUME Init PROVE Membership!MInit
      OBVIOUS
    <2>1. Founders = {} /\ published = {}
      BY DEF Init, Founders
    <2> QED
      BY <2>1 DEF Membership!MInit
  <1> QED
    BY <1>1, <1>2, NewNext, NewMaps, PTL DEF Spec, MembershipSpec, Membership!MSpec

-----------------------------------------------------------------------------
(* A cluster of at least two members grows.                                *)

JoinTasks == {"join_config", "join_list", "join_start"}

(* etcd runs exactly where there is data of the cluster: nothing restarts  *)
(* before all hosts are members.  At most one member has not started yet.  *)
(* The cluster answers that it is healthy, so that no host is configured   *)
(* as "new".  And the run gets to the final refresh, and from there to the *)
(* restart, only when no host is left to join.                             *)
GrowingState ==
    /\ \A h \in Hosts : data[h] = IF h \in up THEN InitialMembers ELSE {}
    /\ InitialMembers \subseteq published /\ published \subseteq up
    /\ up \subseteq members[InitialMembers]
    /\ \E x \in Hosts : members[InitialMembers] \subseteq published \cup {x}
    /\ \A h \in Hosts : env[h].state # "new"

GrowingPlay ==
    /\ phase \notin {"idle", "health", "stopped"} => healthy
    /\ phase \notin LatePhases
    /\ phase \in JoinTasks \cup {"join"} =>
          /\ inCluster \subseteq members[InitialMembers]
          /\ Hosts \subseteq members[InitialMembers] \cup joiners \cup joining
    /\ phase \in JoinTasks => joining \subseteq members[InitialMembers]

ScaleInv == TypeOK /\ (Growing => GrowingState /\ GrowingPlay)

(* grep finds in the list of members exactly the members. *)
LEMMA ListedMembers ==
  ASSUME Unmistaken, NEW c, members[c] \subseteq Hosts,
         InitialMembers \subseteq members[c],
         InitialMembers = {} => members[c] = Hosts
  PROVE  Listed(c) = members[c]
  <1>1. \A h \in members[c] : h \in Listed(c)
    BY MatchesAssumption DEF Listed
  <1>2. ASSUME NEW h \in Listed(c) PROVE h \in members[c]
    <2>1. h \in Hosts /\ Matches[h] \cap members[c] # {}
      BY DEF Listed
    <2>2. CASE InitialMembers = {} \/ h \in InitialMembers
      BY <2>1, <2>2
    <2>3. CASE InitialMembers # {} /\ h \notin InitialMembers
      BY <2>1, <2>3 DEF Unmistaken
    <2> QED
      BY <2>2, <2>3
  <1> QED
    BY <1>1, <1>2

(* The cluster that grows is one, and Growing has not started to hold. *)
LEMMA OldCluster ==
  ASSUME Cardinality(InitialMembers) > 1
  PROVE  InitialMembers \in Clusters
  <1>1. InitialMembers # {}
    BY FS_EmptySet
  <1> QED
    BY <1>1, MembersAssumption

LEMMA ScaleInit == Init => ScaleInv
  <1> SUFFICES ASSUME Init PROVE ScaleInv
    OBVIOUS
  <1>1. TypeOK
    BY TypeInit
  <1>2. ASSUME Growing PROVE GrowingState /\ GrowingPlay
    <2>1. InitialMembers \in Clusters
      BY <1>2, OldCluster DEF Growing
    <2>2. PICK x \in Hosts : x \in InitialMembers
      BY <2>1
    <2>3. members[InitialMembers] = InitialMembers
      BY <2>1 DEF Init
    <2>4. GrowingState
      BY <2>2, <2>3 DEF Init, GrowingState
    <2>5. GrowingPlay
      BY DEF Init, GrowingPlay, LatePhases, JoinTasks
    <2> QED
      BY <2>4, <2>5
  <1> QED
    BY <1>1, <1>2 DEF ScaleInv

(* The members that run are a majority of all. *)
LEMMA GrowingQuorum ==
  ASSUME TypeOK, Growing, GrowingState
  PROVE  HasQuorum(InitialMembers)
  <1>1. PICK x \in Hosts : members[InitialMembers] \subseteq published \cup {x}
    BY DEF GrowingState
  <1>2. InitialMembers # {}
    BY OldCluster DEF Growing
  <1>3. Running(InitialMembers) = up /\ up \subseteq Hosts
    BY <1>2 DEF GrowingState, Running, TypeOK
  <1>4. IsFiniteSet(up) /\ Cardinality(up) \in Nat
    BY <1>3, MembersAssumption, FS_Subset, FS_CardinalityType
  <1>5. /\ IsFiniteSet(up \cup {x})
        /\ Cardinality(up \cup {x}) <= Cardinality(up) + 1
    BY <1>4, FS_AddElement
  <1>6. members[InitialMembers] \subseteq up \cup {x}
    BY <1>1 DEF GrowingState
  <1>7. /\ Cardinality(members[InitialMembers]) <= Cardinality(up \cup {x})
        /\ IsFiniteSet(members[InitialMembers])
    BY <1>5, <1>6, FS_Subset
  <1>8. /\ Cardinality(members[InitialMembers]) \in Nat
        /\ Cardinality(up \cup {x}) \in Nat
    BY <1>5, <1>7, FS_CardinalityType
  <1>9. Cardinality(InitialMembers) <= Cardinality(up)
    BY <1>4, FS_Subset DEF GrowingState
  <1>10. Cardinality(InitialMembers) \in Nat
    BY <1>4, FS_Subset, FS_CardinalityType DEF GrowingState
  <1>11. 2 * Cardinality(up) > Cardinality(members[InitialMembers])
    BY <1>4, <1>5, <1>7, <1>8, <1>9, <1>10 DEF Growing
  <1>12. Running(InitialMembers) \cap members[InitialMembers] = up
    BY <1>3 DEF GrowingState
  <1> QED
    BY <1>11, <1>12 DEF HasQuorum

(* Whoever asks for the cluster's health or members gets one answer. *)
LEMMA GrowingAnswers ==
  ASSUME TypeOK, Growing, GrowingState
  PROVE  /\ Answering = {InitialMembers} /\ WithQuorum = {InitialMembers}
         /\ IsHealthy(InitialMembers)
  <1>1. InitialMembers \in Clusters
    BY OldCluster DEF Growing
  <1>2. HasQuorum(InitialMembers)
    BY GrowingQuorum
  <1>3. \A h \in up : data[h] = InitialMembers
    BY DEF GrowingState, TypeOK
  <1>4. Answering = {InitialMembers}
    BY <1>1, <1>3 DEF Answering, Running, GrowingState
  <1>5. WithQuorum = {InitialMembers}
    BY <1>2, <1>4 DEF WithQuorum
  <1>6. IsHealthy(InitialMembers)
    BY <1>2 DEF IsHealthy, GrowingState
  <1> QED
    BY <1>4, <1>5, <1>6

(* What grows was growing, and a step does not take members away. *)
LEMMA StillGrowing ==
  ASSUME TypeOK, Next \/ UNCHANGED vars, Growing'
  PROVE  Growing /\ UNCHANGED <<crashes, glitches>>
  <1>1. InitialMembers \in Clusters
    BY OldCluster DEF Growing
  <1>2. /\ crashes \in Nat /\ glitches \in Nat /\ crashes' \in Nat /\ glitches' \in Nat
    BY TypeNext, BoundsAssumption DEF TypeOK
  <1>3. crashes' = 0 /\ glitches' = 0
    <2>1. crashes' + glitches' = 0
      BY DEF Growing
    <2>2. \A a, b \in Nat : a + b = 0 => a = 0 /\ b = 0
      OBVIOUS
    <2> QED
      BY <1>2, <2>1, <2>2, Zenon
  <1>4. ASSUME members[InitialMembers] = Hosts
        PROVE  members'[InitialMembers] = Hosts
    <2>1. CASE UNCHANGED members
      BY <1>4, <2>1
    <2>2. ASSUME NEW h \in Hosts, AddMember(h)
          PROVE  members'[InitialMembers] = Hosts
      BY <1>1, <1>4, <2>2 DEF AddMember, TypeOK
    <2>3. CASE Next
      BY <2>1, <2>2, <2>3 DEF Next, StartRun, Interrupt, PlayStep, CheckHealth,
         Configure, ConfigureFails, Launch, EnsureRunning, EnsureRunningFails,
         WaitHealthy, WaitHealthyFails, CheckMembers, FinalConfig, RestartEtcd,
         EtcdUp, EtcdUpFails, JoinTask, NextJoiner, AddMemberFails,
         ConfigureMember, EnsureListed, EnsureListedFails, MemberStarted,
         MemberStartFails, GivesUp, EtcdStep, EtcdStarts, Publish, Crash, etcdVars
    <2> QED
      BY <2>1, <2>3 DEF vars, etcdVars
  <1>5. CASE UNCHANGED <<crashes, glitches>>
    BY <1>3, <1>4, <1>5 DEF Growing
  <1>6. CASE Next
    <2>1. CASE \E h \in Hosts : Crash(h)
      BY <1>2, <1>3, <2>1 DEF Crash
    <2>2. CASE CheckHealth
      BY <1>2, <1>3, <1>5, <2>2 DEF CheckHealth
    <2>3. CASE ~CheckHealth /\ ~ \E h \in Hosts : Crash(h)
      <3>1. UNCHANGED <<crashes, glitches>>
        BY <1>6, <2>3 DEF Next, StartRun, Interrupt, PlayStep,
         Configure, ConfigureFails, Launch, EnsureRunning, EnsureRunningFails,
         WaitHealthy, WaitHealthyFails, CheckMembers, FinalConfig, RestartEtcd,
         EtcdUp, EtcdUpFails, JoinTask, NextJoiner, AddMember, AddMemberFails,
         ConfigureMember, EnsureListed, EnsureListedFails, MemberStarted,
         MemberStartFails, GivesUp, EtcdStep, EtcdStarts, Publish, etcdVars
      <3> QED
        BY <3>1, <1>5
    <2> QED
      BY <2>1, <2>2, <2>3
  <1> QED
    BY <1>5, <1>6 DEF vars, etcdVars
(* Steps that leave alone what GrowingState is about. *)
LEMMA StateSame ==
  ASSUME GrowingState,
         UNCHANGED <<up, data, published, members>>,
         \A h \in Hosts : env'[h].state # "new"
  PROVE  GrowingState'
  BY DEF GrowingState

LEMMA GivesUpScale ==
  ASSUME GrowingState, StopPlay, UNCHANGED etcdVars
  PROVE  GrowingState' /\ GrowingPlay'
  <1>1. GrowingState'
    BY StateSame DEF etcdVars, GrowingState
  <1>2. GrowingPlay'
    BY DEF StopPlay, Goto, GrowingPlay, LatePhases, JoinTasks
  <1> QED
    BY <1>1, <1>2

(* A configuration that is rendered while the cluster is healthy. *)
LEMMA RenderedExisting ==
  ASSUME GrowingState, healthy, NEW S \in SUBSET Hosts, NEW peers
  PROVE  \A h \in Hosts : Rendered(S, peers)[h].state # "new"
  BY DEF Rendered, GrowingState

(* A new etcd joins the cluster, as a member that has been added. *)
LEMMA EtcdScale ==
  ASSUME TypeOK, Growing, GrowingState, GrowingPlay, NEW h \in Hosts, EtcdStep(h)
  PROVE  GrowingState' /\ GrowingPlay'
  <1>0. UNCHANGED <<playVars, env, members>>
    BY DEF EtcdStep, EtcdStarts, Publish
  <1>1. GrowingPlay'
    BY <1>0 DEF GrowingPlay, playVars
  <1>2. CASE EtcdStarts(h)
    <2>1. h \notin up /\ data[h] = {} /\ up' = up \cup {h} /\ UNCHANGED published
      BY <1>2 DEF EtcdStarts, GrowingState
    <2>2. ~CanContinue(h) /\ ~CanFound(h)
      BY <2>1 DEF CanContinue, CanFound, GrowingState
    <2>3. PICK c \in Clusters : CanJoin(h, c) /\ data' = [data EXCEPT ![h] = c]
      BY <1>2, <2>2 DEF EtcdStarts
    <2>4. c = InitialMembers
      BY <2>3 DEF CanJoin, GrowingState, TypeOK
    <2>5. h \in members[InitialMembers]
      BY <2>3, <2>4 DEF CanJoin
    <2>6. \A g \in Hosts : data'[g] = IF g \in up' THEN InitialMembers ELSE {}
      BY <2>1, <2>3, <2>4 DEF GrowingState, TypeOK
    <2> QED
      BY <1>0, <1>1, <2>1, <2>5, <2>6 DEF GrowingState
  <1>3. CASE Publish(h)
    <2>1. h \in up /\ published' = published \cup {h} /\ UNCHANGED <<up, data>>
      BY <1>3 DEF Publish, CanPublish
    <2> QED
      BY <1>0, <1>1, <2>1 DEF GrowingState
  <1> QED
    BY <1>2, <1>3 DEF EtcdStep

LEMMA JoinScale ==
  ASSUME TypeOK, Growing, GrowingState, GrowingPlay, NEW h \in Hosts, JoinTask(h)
  PROVE  GrowingState' /\ GrowingPlay'
  <1> USE DEF JoinTasks, LatePhases
  <1>1. CASE NextJoiner(h)
    <2>1. GrowingState'
      BY <1>1, StateSame DEF NextJoiner, etcdVars, GrowingState
    <2>2. GrowingPlay'
      BY <1>1 DEF NextJoiner, etcdVars, GrowingPlay
    <2> QED
      BY <2>1, <2>2
  <1>2. CASE AddMember(h)
    <2>1. /\ \/ h \in members[InitialMembers] /\ UNCHANGED members
             \/ /\ AcceptsMembers(InitialMembers)
                /\ members' = [members EXCEPT ![InitialMembers] = @ \cup {h}]
          /\ UNCHANGED <<env, up, data, published>>
      BY <1>2, GrowingAnswers DEF AddMember
    <2>2. InitialMembers \in Clusters
      BY OldCluster DEF Growing
    <2>3. members'[InitialMembers] = members[InitialMembers] \cup {h}
      BY <2>1, <2>2 DEF TypeOK
    <2>4. \E x \in Hosts : members'[InitialMembers] \subseteq published' \cup {x}
      BY <2>1, <2>3 DEF AcceptsMembers, GrowingState
    <2>5. GrowingState'
      BY <2>1, <2>3, <2>4 DEF GrowingState
    <2>6. GrowingPlay'
      BY <1>2, <2>3 DEF AddMember, Goto, GrowingPlay
    <2> QED
      BY <2>5, <2>6
  <1>3. CASE AddMemberFails(h) \/ EnsureListedFails(h) \/ MemberStartFails(h)
    BY <1>3, GivesUpScale DEF AddMemberFails, EnsureListedFails, MemberStartFails,
       GivesUp
  <1>4. CASE ConfigureMember(h)
    <2>1. healthy
      BY <1>4 DEF ConfigureMember, GrowingPlay
    <2>2. \A g \in Hosts : env'[g].state # "new"
      BY <1>4, <2>1, RenderedExisting DEF ConfigureMember, Refresh
    <2>3. GrowingState'
      BY <1>4, <2>2, StateSame DEF ConfigureMember
    <2>4. GrowingPlay'
      BY <1>4 DEF ConfigureMember, Goto, GrowingPlay
    <2> QED
      BY <2>3, <2>4
  <1>5. CASE EnsureListed(h) \/ MemberStarted(h)
    <2>1. GrowingState'
      BY <1>5, StateSame DEF EnsureListed, MemberStarted, etcdVars, GrowingState
    <2>2. GrowingPlay'
      BY <1>5 DEF EnsureListed, MemberStarted, etcdVars, Goto, GrowingPlay
    <2> QED
      BY <2>1, <2>2
  <1> QED
    BY <1>1, <1>2, <1>3, <1>4, <1>5 DEF JoinTask

LEMMA PlayScale ==
  ASSUME TypeOK, Growing, Growing', GrowingState, GrowingPlay, PlayStep,
         UNCHANGED glitches
  PROVE  GrowingState' /\ GrowingPlay'
  <1> USE DEF JoinTasks, LatePhases
  <1>1. CASE CheckHealth
    <2>1. glitches' # glitches + 1
      BY BoundsAssumption DEF TypeOK
    <2>2. healthy'
      BY <1>1, <2>1, GrowingAnswers DEF CheckHealth
    <2>3. GrowingState'
      BY <1>1, StateSame DEF CheckHealth, GrowingState
    <2>4. GrowingPlay'
      BY <1>1, <2>2 DEF CheckHealth, Goto, GrowingPlay
    <2> QED
      BY <2>3, <2>4
  <1>2. CASE Configure
    <2>1. healthy
      BY <1>2 DEF Configure, GrowingPlay
    <2>2. \A g \in Hosts : env'[g].state # "new"
      BY <1>2, <2>1, RenderedExisting DEF Configure, Refresh
    <2>3. GrowingState'
      BY <1>2, <2>2, StateSame DEF Configure
    <2>4. GrowingPlay'
      BY <1>2, <2>1 DEF Configure, Goto, GrowingPlay
    <2> QED
      BY <2>3, <2>4
  <1>3. CASE ConfigureFails
    <2>1. healthy
      BY <1>3 DEF ConfigureFails, GrowingPlay
    <2>2. \A g \in Hosts : env'[g].state # "new"
      BY <1>3, <2>1, RenderedExisting DEF ConfigureFails
    <2>3. GrowingState'
      BY <1>3, <2>2, StateSame DEF ConfigureFails
    <2>4. GrowingPlay'
      BY <1>3 DEF ConfigureFails, StopPlay, Goto, GrowingPlay
    <2> QED
      BY <2>3, <2>4
  <1>4. CASE Launch \/ EnsureRunning \/ WaitHealthy
    <2>1. GrowingState'
      BY <1>4, StateSame DEF Launch, EnsureRunning, WaitHealthy, etcdVars,
         GrowingState
    <2>2. GrowingPlay'
      BY <1>4 DEF Launch, EnsureRunning, WaitHealthy, Goto, GrowingPlay
    <2> QED
      BY <2>1, <2>2
  <1>5. CASE CheckMembers
    <2>0. members[InitialMembers] \subseteq Hosts
      BY OldCluster DEF Growing, TypeOK
    <2>a. InitialMembers # {}
      BY OldCluster DEF Growing
    <2>b. Listed(InitialMembers) = members[InitialMembers]
      BY <2>0, <2>a, ListedMembers DEF Growing, GrowingState
    <2>1. inCluster' = members[InitialMembers] /\ joiners' = Hosts \ inCluster'
      BY <1>5, <2>b, GrowingAnswers DEF CheckMembers
    <2>2. GrowingState'
      BY <1>5, StateSame DEF CheckMembers, etcdVars, GrowingState
    <2>3. GrowingPlay'
      BY <1>5, <2>1 DEF CheckMembers, etcdVars, Goto, GrowingPlay
    <2> QED
      BY <2>2, <2>3
  <1>6. CASE FinalConfig
    <2>1. Hosts \subseteq members[InitialMembers]
      BY <1>6 DEF FinalConfig, GrowingPlay
    <2>2. InitialMembers \in Clusters
      BY OldCluster DEF Growing
    <2>3. members[InitialMembers] = Hosts
      BY <2>1, <2>2 DEF TypeOK
    <2> QED
      BY <2>3 DEF Growing
  <1>7. CASE RestartEtcd \/ EtcdUp \/ EtcdUpFails
    BY <1>7 DEF RestartEtcd, EtcdUp, EtcdUpFails, GrowingPlay
  <1>8. CASE EnsureRunningFails \/ WaitHealthyFails
    BY <1>8, GivesUpScale DEF EnsureRunningFails, WaitHealthyFails, GivesUp
  <1>9. CASE \E h \in Hosts : JoinTask(h)
    BY <1>9, JoinScale
  <1> QED
    BY <1>1, <1>2, <1>3, <1>4, <1>5, <1>6, <1>7, <1>8, <1>9 DEF PlayStep

LEMMA ScaleNext == ScaleInv /\ [Next]_vars => ScaleInv'
  <1> SUFFICES ASSUME ScaleInv, [Next]_vars PROVE ScaleInv'
    OBVIOUS
  <1>0. TypeOK /\ TypeOK'
    BY TypeNext DEF ScaleInv
  <1> SUFFICES ASSUME Growing' PROVE GrowingState' /\ GrowingPlay'
    BY <1>0 DEF ScaleInv
  <1>1. Growing /\ UNCHANGED <<crashes, glitches>>
    BY <1>0, StillGrowing
  <1>2. GrowingState /\ GrowingPlay
    BY <1>1 DEF ScaleInv
  <1>3. CASE StartRun
    <2>1. GrowingState'
      BY <1>2, <1>3, StateSame DEF StartRun, etcdVars, GrowingState
    <2>2. GrowingPlay'
      BY <1>3 DEF StartRun, Goto, GrowingPlay, LatePhases, JoinTasks
    <2> QED
      BY <2>1, <2>2
  <1>4. CASE Interrupt
    BY <1>2, <1>4, GivesUpScale DEF Interrupt
  <1>5. CASE PlayStep
    BY <1>0, <1>1, <1>2, <1>5, PlayScale
  <1>6. CASE \E h \in Hosts : EtcdStep(h)
    BY <1>0, <1>1, <1>2, <1>6, EtcdScale
  <1>7. CASE \E h \in Hosts : Crash(h)
    <2>1. crashes' # crashes + 1
      BY <1>0, <1>1, BoundsAssumption DEF TypeOK
    <2> QED
      BY <1>7, <2>1 DEF Crash
  <1>8. CASE UNCHANGED vars
    BY <1>2, <1>8 DEF vars, playVars, etcdVars, GrowingState, GrowingPlay
  <1> QED
    BY <1>3, <1>4, <1>5, <1>6, <1>7, <1>8 DEF Next

(* A redundant cluster keeps its quorum while hosts are added to it of     *)
(* which none is mistaken for a member, whatever tasks fail and however    *)
(* often the play is repeated.                                             *)
THEOREM ScalingKeepsQuorum == Spec => []QuorumKept
  <1>1. ScaleInv => QuorumKept
    BY GrowingQuorum DEF ScaleInv, QuorumKept
  <1> QED
    BY <1>1, ScaleInit, ScaleNext, PTL DEF Spec
-----------------------------------------------------------------------------
(* Until all hosts are members the role implements the membership protocol.*)

LEMMA ScaleFounders ==
  ASSUME TypeOK, Growing, GrowingState
  PROVE  Founders = InitialMembers /\ InitialMembers \in Clusters
  <1>1. InitialMembers \in Clusters
    BY OldCluster DEF Growing
  <1>2. PICK x \in Hosts : x \in InitialMembers
    BY <1>1
  <1>3. data[x] = InitialMembers
    BY <1>2 DEF GrowingState
  <1> QED
    BY <1>1, <1>3 DEF Founders, GrowingState

(* The steps of the play that the protocol does not see. *)
LEMMA PlayUnseen ==
  ASSUME PlayStep, ~ \E h \in Hosts : AddMember(h)
  PROVE  UNCHANGED <<data, published, members>>
  <1>1. ASSUME NEW h \in Hosts, JoinTask(h)
        PROVE  UNCHANGED <<data, published, members>>
    BY <1>1 DEF JoinTask, NextJoiner, AddMemberFails, ConfigureMember,
       EnsureListed, EnsureListedFails, MemberStarted, MemberStartFails, GivesUp,
       etcdVars
  <1> QED
    BY <1>1 DEF PlayStep, CheckHealth, Configure, ConfigureFails, Launch,
       EnsureRunning, EnsureRunningFails, WaitHealthy, WaitHealthyFails,
       CheckMembers, FinalConfig, RestartEtcd, EtcdUp, EtcdUpFails, GivesUp,
       etcdVars

LEMMA MapsUnseen ==
  ASSUME UNCHANGED <<data, published, members>>
  PROVE  UNCHANGED Membership!mvars
  BY DEF Founders, Membership!mvars

LEMMA ScaleMaps ==
  ASSUME ScaleInv, [Next]_vars, Growing
  PROVE  [Membership!MNext]_Membership!mvars
  <1> DEFINE ms == IF Founders = {} THEN {} ELSE members[Founders]
  <1>0. TypeOK /\ GrowingState /\ GrowingPlay
    BY DEF ScaleInv
  <1>1. Founders = InitialMembers /\ InitialMembers \in Clusters
    BY <1>0, ScaleFounders
  <1>2. ms = members[InitialMembers]
    BY <1>1
  <1>3. ASSUME NEW h \in Hosts, EtcdStarts(h)
        PROVE  UNCHANGED Membership!mvars
    <2>1. ~CanContinue(h) /\ ~CanFound(h) /\ data[h] = {}
      BY <1>0, <1>3 DEF EtcdStarts, CanContinue, CanFound, GrowingState
    <2>2. PICK c \in Clusters : CanJoin(h, c) /\ data' = [data EXCEPT ![h] = c]
      BY <1>3, <2>1 DEF EtcdStarts
    <2>3. c = InitialMembers
      BY <1>0, <2>2 DEF CanJoin, GrowingState, TypeOK
    <2>4. PICK x \in Hosts : x \in InitialMembers
      BY <1>1
    <2>5. x # h /\ data[x] = InitialMembers
      BY <1>0, <1>1, <2>1, <2>4 DEF GrowingState
    <2>6. /\ data'[x] = InitialMembers
          /\ \A g \in Hosts : data'[g] \in {{}, InitialMembers}
      BY <1>0, <2>2, <2>3, <2>5 DEF GrowingState, TypeOK
    <2>7. Founders' = InitialMembers
      BY <2>6 DEF Founders
    <2>8. UNCHANGED <<members, published>>
      BY <1>3 DEF EtcdStarts
    <2> QED
      BY <1>1, <2>7, <2>8 DEF Membership!mvars
  <1>4. ASSUME NEW h \in Hosts, Publish(h)
        PROVE  Membership!MNext
    <2>1. /\ UNCHANGED <<data, members>> /\ published' = published \cup {h}
          /\ h \in up \ published
      BY <1>4 DEF Publish, CanPublish
    <2>2. Founders' = Founders /\ ms' = ms
      BY <2>1 DEF Founders
    <2>3. h \in members[InitialMembers]
      BY <1>0, <2>1 DEF GrowingState
    <2>4. Membership!StartMember(h)
      BY <1>2, <2>1, <2>2, <2>3 DEF Membership!StartMember
    <2> QED
      BY <2>4 DEF Membership!MNext
  <1>5. ASSUME NEW h \in Hosts, AddMember(h)
        PROVE  [Membership!MNext]_Membership!mvars
    <2>1. /\ UNCHANGED <<data, published>>
          /\ \/ UNCHANGED members
             \/ /\ h \notin members[InitialMembers]
                /\ AcceptsMembers(InitialMembers)
                /\ members' = [members EXCEPT ![InitialMembers] = @ \cup {h}]
      BY <1>0, <1>5, GrowingAnswers DEF AddMember
    <2>2. Founders' = InitialMembers
      BY <1>1, <2>1 DEF Founders
    <2>3. CASE UNCHANGED members
      BY <2>1, <2>3, MapsUnseen
    <2>4. CASE ~UNCHANGED members
      <3>1. ms' = ms \cup {h} /\ h \notin ms
        BY <1>0, <1>1, <1>2, <2>1, <2>2, <2>4 DEF TypeOK
      <3>2. published = ms
        BY <1>0, <1>2, <2>1, <2>4 DEF AcceptsMembers, GrowingState
      <3>3. Membership!AddMember(h)
        BY <1>1, <2>1, <2>2, <3>1, <3>2 DEF Membership!AddMember
      <3> QED
        BY <3>3 DEF Membership!MNext
    <2> QED
      BY <2>3, <2>4
  <1>6. CASE PlayStep /\ ~ \E h \in Hosts : AddMember(h)
    BY <1>6, PlayUnseen, MapsUnseen
  <1>7. CASE StartRun \/ Interrupt \/ UNCHANGED vars \/ \E h \in Hosts : Crash(h)
    <2>1. UNCHANGED <<data, published, members>>
      BY <1>7 DEF StartRun, Interrupt, Crash, vars, etcdVars
    <2> QED
      BY <2>1, MapsUnseen
  <1> QED
    BY <1>3, <1>4, <1>5, <1>6, <1>7 DEF Next, EtcdStep

(* Each step towards a larger cluster is one of the membership protocol as *)
(* long as etcd and the health checks do not fail and no new host is       *)
(* mistaken for a member: no second cluster is founded, and a member is    *)
(* added when the ones before it have started.                             *)
THEOREM ScalingImplementsMembership == Spec => GrowsByMembership
  <1>1. ScaleInv /\ [Next]_vars =>
           [Growing => [Membership!MNext]_Membership!mvars]_vars
    BY ScaleMaps
  <1> QED
    BY <1>1, ScaleInit, ScaleNext, PTL DEF Spec, GrowsByMembership
-----------------------------------------------------------------------------
(* Runs without a fault.  A new group is being founded until all its hosts *)
(* have published their URLs, which is before "Ensure etcd is running" has *)
(* succeeded for the first time.  From then on, as from the start when     *)
(* there is a cluster, the cluster is healthy whenever a run looks at it,  *)
(* the member that is being added is configured so that it can join, and   *)
(* whatever a task waits for is bound to happen.                           *)

Calm == faults = 0 /\ crashes = 0 /\ glitches = 0

Cluster == IF InitialMembers = {} THEN Hosts ELSE InitialMembers

Founding == InitialMembers = {} /\ published # Hosts

FoundingState ==
    /\ phase \in {"idle", "health", "config", "launch", "start"}
    /\ phase = "start" => wanted = Hosts
    /\ phase # "start" => wanted = {} /\ published = {}
    /\ published \subseteq up
    /\ phase \in {"config", "launch", "start"} => ~healthy
    /\ phase \in {"launch", "start"} =>
          \A h \in Hosts : env[h] = [state |-> "new", initial |-> Hosts]

SmoothState ==
    /\ \A h \in Hosts : data[h] \in {{}, Cluster}
    /\ \A h \in up \cup published : data[h] = Cluster
    /\ \A h \in Hosts : data[h] = Cluster => h \in members[Cluster]
    /\ \A h \in Hosts : data[h] = {} => env[h].state # "new"
    /\ published # {}
    /\ InitialMembers \subseteq members[Cluster]
    /\ InitialMembers = {} => published = Hosts
    /\ phase # "wait_up" => published \subseteq up
    /\ phase = "wait_up" => published \subseteq up \cup notified
    /\ phase \notin JoinTasks => members[Cluster] \subseteq published

SmoothPlay ==
    /\ phase # "stopped"
    /\ phase \notin {"idle", "health", "config", "launch"} => wanted = Hosts
    /\ phase \in JoinPhases => healthy
    /\ InitialMembers # {} /\ phase \notin {"idle", "health"} => healthy
    /\ phase \in JoinTasks \cup {"join"} =>
          Hosts \subseteq members[Cluster] \cup joiners \cup joining
    /\ phase = "join" => inCluster = members[Cluster]
    /\ phase \in JoinTasks =>
          /\ inCluster \cup joining = members[Cluster]
          /\ members[Cluster] \subseteq published \cup joining
    /\ phase = "join_start" => joining \subseteq inCluster
    /\ phase \in {"join_list", "join_start"} =>
          \A h \in joining :
             env[h] = [state |-> "existing", initial |-> members[Cluster]]
    /\ phase \in LatePhases => members[Cluster] = Hosts

CalmInv ==
    /\ TypeOK
    /\ InitialMembers = {} => NewInv
    /\ Calm => IF Founding THEN FoundingState ELSE SmoothState /\ SmoothPlay

Regular == ~EventsCluster /\ Hosts # {} /\ Unmistaken

LEMMA CalmInit == Regular /\ Init => CalmInv
  <1> SUFFICES ASSUME Regular, Init PROVE CalmInv
    OBVIOUS
  <1>1. TypeOK /\ (InitialMembers = {} => NewInv)
    BY TypeInit, NewInit
  <1>2. CASE InitialMembers = {}
    <2>1. Founding /\ FoundingState
      BY <1>2 DEF Init, Founding, FoundingState, Regular
    <2> QED
      BY <1>1, <2>1 DEF CalmInv
  <1>3. CASE InitialMembers # {}
    <2>1. ~Founding /\ Cluster = InitialMembers /\ InitialMembers \in Clusters
      BY <1>3, MembersAssumption DEF Founding, Cluster
    <2>2. SmoothState
      BY <1>3, <2>1 DEF Init, SmoothState, JoinTasks
    <2>3. SmoothPlay
      BY DEF Init, SmoothPlay, JoinPhases, LatePhases, JoinTasks
    <2> QED
      BY <1>1, <2>1, <2>2, <2>3 DEF CalmInv
  <1> QED
    BY <1>2, <1>3

LEMMA ClusterType ==
  ASSUME Regular
  PROVE  Cluster \in Clusters
  BY MembersAssumption DEF Regular, Cluster

(* A cluster that all its members run has a quorum. *)
LEMMA AllRunQuorum ==
  ASSUME TypeOK, NEW c \in Clusters, members[c] # {},
         members[c] \subseteq Running(c)
  PROVE  HasQuorum(c)
  <1>1. members[c] \subseteq Hosts
    BY DEF TypeOK
  <1>2. IsFiniteSet(members[c])
    BY <1>1, MembersAssumption, FS_Subset
  <1>3. Cardinality(members[c]) \in Nat /\ Cardinality(members[c]) # 0
    BY <1>2, FS_CardinalityType, FS_EmptySet
  <1>4. Running(c) \cap members[c] = members[c]
    OBVIOUS
  <1> QED
    BY <1>3, <1>4 DEF HasQuorum

(* Outside of join_etcd_member.yml and of the restart, all members run.    *)
LEMMA SmoothAnswers ==
  ASSUME TypeOK, Regular, SmoothState, phase \notin JoinTasks \cup {"wait_up"}
  PROVE  /\ Answering = {Cluster} /\ WithQuorum = {Cluster}
         /\ IsHealthy(Cluster) /\ HasQuorum(Cluster)
         /\ members[Cluster] \subseteq Running(Cluster)
  <1>1. Cluster \in Clusters /\ Cluster # {}
    BY ClusterType
  <1>2. up \subseteq Hosts /\ published \subseteq Hosts
    BY DEF TypeOK
  <1>3. published \subseteq up /\ members[Cluster] \subseteq published
    BY DEF SmoothState
  <1>4. members[Cluster] \subseteq Running(Cluster)
    BY <1>2, <1>3 DEF SmoothState, Running
  <1>5. members[Cluster] # {} /\ up # {}
    BY <1>2, <1>3 DEF SmoothState
  <1>6. HasQuorum(Cluster)
    BY <1>1, <1>4, <1>5, AllRunQuorum
  <1>7. Answering = {Cluster}
    BY <1>1, <1>5 DEF Answering, Running, SmoothState
  <1>8. WithQuorum = {Cluster}
    BY <1>6, <1>7 DEF WithQuorum
  <1>9. IsHealthy(Cluster)
    BY <1>3, <1>6 DEF IsHealthy
  <1> QED
    BY <1>4, <1>6, <1>7, <1>8, <1>9

(* When nothing happens any more, all members run and are ready, if those  *)
(* without data are configured as members.                                 *)
LEMMA SettledReady ==
  ASSUME TypeOK, Regular, SmoothState, Settled, wanted = Hosts,
         \A h \in members[Cluster] : data[h] = {} =>
            env[h] = [state |-> "existing", initial |-> members[Cluster]]
  PROVE  /\ \A h \in members[Cluster] : Ready(h)
         /\ Cluster \in WithQuorum
  <1>1. Cluster \in Clusters /\ Cluster # {}
    BY ClusterType
  <1>2. up \subseteq Hosts /\ published \subseteq Hosts /\ members[Cluster] \subseteq Hosts
    BY <1>1 DEF TypeOK
  <1>3. \A h \in Hosts : data[h] = Cluster => h \in up
    BY <1>1 DEF Settled, CanStart, CanContinue
  <1>4. PICK p \in Hosts : p \in up \cap members[Cluster] /\ data[p] = Cluster
    BY <1>2, <1>3 DEF SmoothState
  <1>5. ASSUME NEW h \in members[Cluster], data[h] = {}
        PROVE  h \in up
    <2>1. CanJoin(h, Cluster)
      BY <1>4, <1>5 DEF CanJoin
    <2> QED
      BY <1>1, <1>2, <2>1 DEF Settled, CanStart
  <1>6. members[Cluster] \subseteq Running(Cluster)
    BY <1>2, <1>3, <1>5 DEF SmoothState, Running
  <1>7. HasQuorum(Cluster)
    BY <1>1, <1>4, <1>6, AllRunQuorum
  <1>8. \A h \in members[Cluster] : h \in up /\ data[h] = Cluster
    BY <1>6 DEF Running
  <1>9. \A h \in members[Cluster] : h \in published
    BY <1>2, <1>7, <1>8 DEF Settled, CanPublish
  <1>10. Cluster \in WithQuorum
    BY <1>1, <1>4, <1>7 DEF WithQuorum, Answering, Running
  <1> QED
    BY <1>7, <1>8, <1>9, <1>10 DEF Ready

(* A fault is never taken back. *)
LEMMA StillCalm ==
  ASSUME TypeOK, Next \/ UNCHANGED vars, Calm'
  PROVE  Calm /\ UNCHANGED <<faults, crashes, glitches>>
  <1>1. faults \in Nat /\ crashes \in Nat /\ glitches \in Nat
    BY BoundsAssumption DEF TypeOK
  <1>2. \A n \in Nat : n + 1 # 0
    OBVIOUS
  <1>3. faults' # faults + 1 /\ crashes' # crashes + 1 /\ glitches' # glitches + 1
    BY <1>1, <1>2 DEF Calm
  <1>4. UNCHANGED <<faults, crashes, glitches>>
    BY <1>3 DEF Next, StartRun, Interrupt, PlayStep, CheckHealth,
         Configure, ConfigureFails, Launch, EnsureRunning, EnsureRunningFails,
         WaitHealthy, WaitHealthyFails, CheckMembers, FinalConfig, RestartEtcd,
         EtcdUp, EtcdUpFails, JoinTask, NextJoiner, AddMember, AddMemberFails,
         ConfigureMember, EnsureListed, EnsureListedFails, MemberStarted,
         MemberStartFails, GivesUp, Missed, EtcdStep, EtcdStarts, Publish, Crash,
         etcdVars, playVars, vars
  <1> QED
    BY <1>4 DEF Calm

LEMMA CalmMissed ==
  ASSUME TypeOK, UNCHANGED faults, Missed
  PROVE  Settled
  <1>1. faults \in Nat
    BY BoundsAssumption DEF TypeOK
  <1>2. faults' # faults + 1
    BY <1>1
  <1> QED
    BY <1>2 DEF Missed
(* Steps of the play that leave etcd alone. *)
LEMMA SmoothSame ==
  ASSUME SmoothState, UNCHANGED <<up, data, published, members>>,
         \A h \in Hosts : env'[h].state = "new" => data[h] # {},
         phase # "wait_up", phase' # "wait_up",
         phase \notin JoinTasks \/ phase' \in JoinTasks
  PROVE  SmoothState'
  BY DEF SmoothState

LEMMA RenderedSmooth ==
  ASSUME TypeOK, Regular, SmoothState, SmoothPlay, phase \in {"config", "join"}
  PROVE  \A h \in Hosts : Rendered(Hosts, Hosts)[h].state = "new" => data[h] # {}
  <1>1. CASE InitialMembers = {}
    BY <1>1, ClusterType DEF SmoothState
  <1>2. CASE InitialMembers # {}
    BY <1>2 DEF SmoothPlay, Rendered
  <1> QED
    BY <1>1, <1>2

LEMMA EtcdSmooth ==
  ASSUME TypeOK, Regular, SmoothState, SmoothPlay, NEW h \in Hosts, EtcdStep(h)
  PROVE  SmoothState' /\ SmoothPlay'
  <1>0. UNCHANGED <<playVars, env, members, wanted>>
    BY DEF EtcdStep, EtcdStarts, Publish
  <1>1. Cluster \in Clusters /\ Cluster # {}
    BY ClusterType
  <1>2. published \subseteq published'
    BY DEF EtcdStep, EtcdStarts, Publish
  <1>3. SmoothPlay'
    BY <1>0, <1>2 DEF SmoothPlay, playVars
  <1>4. CASE EtcdStarts(h)
    <2>1. h \notin up /\ up' = up \cup {h} /\ UNCHANGED published
      BY <1>4 DEF EtcdStarts
    <2>2. CASE CanContinue(h) /\ UNCHANGED data
      <3>1. data[h] = Cluster
        BY <2>2 DEF CanContinue, SmoothState
      <3> QED
        BY <1>0, <1>3, <2>1, <2>2, <3>1 DEF SmoothState, playVars
    <2>3. ASSUME NEW c \in Clusters, CanJoin(h, c), data' = [data EXCEPT ![h] = c]
          PROVE  SmoothState'
      <3>1. PICK p \in Hosts : p \in up /\ data[p] = c
        BY <2>3 DEF CanJoin, TypeOK
      <3>2. c = Cluster
        BY <3>1 DEF SmoothState
      <3>3. h \in members[Cluster]
        BY <2>3, <3>2 DEF CanJoin
      <3>4. \A g \in Hosts : data'[g] = IF g = h THEN Cluster ELSE data[g]
        BY <2>3, <3>2 DEF TypeOK
      <3>5. up \subseteq Hosts /\ published \subseteq Hosts
        BY DEF TypeOK
      <3> QED
        BY <1>0, <1>1, <2>1, <3>3, <3>4, <3>5 DEF SmoothState, playVars
    <2>4. ~CanFound(h)
      BY DEF CanFound, SmoothState
    <2> QED
      BY <1>3, <1>4, <2>2, <2>3, <2>4 DEF EtcdStarts
  <1>5. CASE Publish(h)
    <2>1. /\ h \in up /\ published' = published \cup {h} /\ UNCHANGED <<up, data>>
      BY <1>5 DEF Publish, CanPublish
    <2>2. published' \subseteq Hosts
      BY <2>1 DEF TypeOK
    <2> QED
      BY <1>0, <1>3, <2>1, <2>2 DEF SmoothState, playVars
  <1> QED
    BY <1>4, <1>5 DEF EtcdStep

(* While a member joins, it is configured to, or not yet.                  *)
LEMMA JoiningReady ==
  ASSUME TypeOK, Regular, SmoothState, SmoothPlay, Settled, NEW h \in Hosts,
         phase \in {"join_list", "join_start"}, joining = {h}
  PROVE  Ready(h) /\ \E c \in WithQuorum : h \in members[c]
  <1>1. members[Cluster] \subseteq published \cup {h} /\ h \in members[Cluster]
    BY DEF SmoothPlay, JoinTasks
  <1>2. env[h] = [state |-> "existing", initial |-> members[Cluster]]
    BY DEF SmoothPlay
  <1>3. \A g \in published : data[g] # {}
    BY ClusterType DEF SmoothState
  <1>4. wanted = Hosts
    BY DEF SmoothPlay
  <1>5. (\A g \in members[Cluster] : Ready(g)) /\ Cluster \in WithQuorum
    BY <1>1, <1>2, <1>3, <1>4, SettledReady
  <1> QED
    BY <1>1, <1>5

LEMMA JoinSmooth ==
  ASSUME TypeOK, Regular, SmoothState, SmoothPlay, NEW h \in Hosts, JoinTask(h),
         UNCHANGED faults
  PROVE  SmoothState' /\ SmoothPlay'
  <1> USE DEF JoinTasks, LatePhases, JoinPhases
  <1>0. Cluster \in Clusters /\ wanted' = Hosts
    <2>1. phase \in JoinPhases
      BY DEF JoinTask, NextJoiner, AddMember, AddMemberFails, ConfigureMember,
         EnsureListed, EnsureListedFails, MemberStarted, MemberStartFails
    <2>2. UNCHANGED wanted
      BY DEF JoinTask, NextJoiner, AddMember, AddMemberFails, ConfigureMember,
         EnsureListed, EnsureListedFails, MemberStarted, MemberStartFails,
         GivesUp, etcdVars
    <2> QED
      BY <2>1, <2>2, ClusterType DEF SmoothPlay
  <1>1. CASE NextJoiner(h)
    <2>1. SmoothState'
      BY <1>1, SmoothSame DEF NextJoiner, etcdVars, SmoothState
    <2>2. SmoothPlay'
      BY <1>1 DEF NextJoiner, etcdVars, SmoothPlay
    <2> QED
      BY <2>1, <2>2
  <1>2. CASE AddMember(h) \/ AddMemberFails(h)
    <2>0. phase = "join" /\ joining = {h}
      BY <1>2 DEF AddMember, AddMemberFails
    <2>1. WithQuorum = {Cluster} /\ HasQuorum(Cluster)
          /\ members[Cluster] \subseteq Running(Cluster)
      BY <2>0, SmoothAnswers
    <2>2. members[Cluster] \subseteq published
      BY <2>0 DEF SmoothState
    <2>3. AcceptsMembers(Cluster)
      BY <2>1, <2>2 DEF AcceptsMembers
    <2>4. AddMember(h)
      BY <1>2, <2>1, <2>3 DEF AddMemberFails, Regular
    <2>5. members' \in {members, [members EXCEPT ![Cluster] = @ \cup {h}]}
          /\ h \in members'[Cluster]
      BY <1>0, <2>1, <2>4 DEF AddMember, TypeOK
    <2>6. members'[Cluster] = members[Cluster] \cup {h}
      BY <1>0, <2>5 DEF TypeOK
    <2>7. SmoothState'
      BY <2>0, <2>4, <2>6 DEF AddMember, Goto, SmoothState
    <2>8. SmoothPlay'
      BY <1>0, <2>0, <2>2, <2>4, <2>6 DEF AddMember, Goto, SmoothPlay
    <2> QED
      BY <2>7, <2>8
  <1>3. CASE ConfigureMember(h)
    <2>1. healthy /\ inCluster \cup {h} = members[Cluster]
      BY <1>3 DEF ConfigureMember, SmoothPlay
    <2>2. env' = Rendered({h}, members[Cluster])
      BY <1>3, <2>1 DEF ConfigureMember, Refresh, JoinPeers, Regular
    <2>3. \A g \in Hosts :
             env'[g] = IF g = h
                       THEN [state |-> "existing", initial |-> members[Cluster]]
                       ELSE env[g]
      BY <2>1, <2>2 DEF Rendered
    <2>4. \A g \in Hosts : env'[g].state = "new" => data[g] # {}
      BY <2>3 DEF SmoothState
    <2>5. SmoothState'
      BY <1>3, <2>4, SmoothSame DEF ConfigureMember, Goto
    <2>6. SmoothPlay'
      BY <1>0, <1>3, <2>3 DEF ConfigureMember, Goto, SmoothPlay
    <2> QED
      BY <2>5, <2>6
  <1>4. CASE EnsureListed(h)
    <2>1. SmoothState'
      BY <1>4, SmoothSame DEF EnsureListed, Goto, etcdVars, SmoothState
    <2>2. SmoothPlay'
      BY <1>4 DEF EnsureListed, Goto, etcdVars, SmoothPlay
    <2> QED
      BY <2>1, <2>2
  <1>5. CASE MemberStarted(h)
    <2>1. h \in published
      BY <1>5 DEF MemberStarted, Ready
    <2>2. members[Cluster] \subseteq published /\ inCluster = members[Cluster]
          /\ Hosts \subseteq members[Cluster] \cup joiners
      <3>1. inCluster \cup joining = members[Cluster] /\ joining = {h}
            /\ members[Cluster] \subseteq published \cup joining
            /\ Hosts \subseteq members[Cluster] \cup joiners \cup joining
        BY <1>5 DEF MemberStarted, SmoothPlay
      <3>2. h \in inCluster
        BY <1>5 DEF MemberStarted, SmoothPlay
      <3> QED
        BY <2>1, <3>1, <3>2
    <2>3. SmoothState'
      BY <1>5, <2>2 DEF MemberStarted, Goto, etcdVars, SmoothState
    <2>4. SmoothPlay'
      BY <1>5, <2>2 DEF MemberStarted, Goto, etcdVars, SmoothPlay
    <2> QED
      BY <2>3, <2>4
  <1>6. CASE EnsureListedFails(h) \/ MemberStartFails(h)
    <2>1. Settled
      BY <1>6, CalmMissed DEF EnsureListedFails, MemberStartFails, GivesUp
    <2> QED
      BY <1>6, <2>1, JoiningReady, MatchesAssumption
         DEF EnsureListedFails, MemberStartFails, Listed
  <1> QED
    BY <1>1, <1>2, <1>3, <1>4, <1>5, <1>6 DEF JoinTask
LEMMA PlaySmooth ==
  ASSUME TypeOK, Regular, SmoothState, SmoothPlay, PlayStep,
         UNCHANGED <<faults, glitches>>
  PROVE  SmoothState' /\ SmoothPlay'
  <1> USE DEF JoinTasks, LatePhases, JoinPhases
  <1>1. CASE CheckHealth
    <2>1. glitches' # glitches + 1
      BY BoundsAssumption DEF TypeOK
    <2>2. phase \notin JoinTasks \cup {"wait_up"}
      BY <1>1 DEF CheckHealth
    <2>3. healthy'
      BY <1>1, <2>1, <2>2, SmoothAnswers DEF CheckHealth
    <2>4. SmoothState'
      BY <1>1, SmoothSame DEF CheckHealth, Goto, SmoothState
    <2>5. SmoothPlay'
      BY <1>1, <2>3 DEF CheckHealth, Goto, SmoothPlay
    <2> QED
      BY <2>4, <2>5
  <1>2. CASE Configure
    <2>1. \A h \in Hosts : env'[h].state = "new" => data[h] # {}
      BY <1>2, RenderedSmooth DEF Configure, Refresh
    <2>2. SmoothState'
      BY <1>2, <2>1, SmoothSame DEF Configure, Goto
    <2>3. SmoothPlay'
      BY <1>2 DEF Configure, Goto, SmoothPlay
    <2> QED
      BY <2>2, <2>3
  <1>3. CASE FinalConfig
    <2>1. \A h \in Hosts : env'[h].state = "new" => data[h] # {}
      BY <1>3, RenderedSmooth DEF FinalConfig, Refresh
    <2>2. SmoothState'
      BY <1>3, <2>1, SmoothSame DEF FinalConfig, Goto
    <2>3. members[Cluster] = Hosts
      BY <1>3, ClusterType DEF FinalConfig, SmoothPlay, TypeOK
    <2>4. SmoothPlay'
      BY <1>3, <2>3 DEF FinalConfig, Goto, SmoothPlay
    <2> QED
      BY <2>2, <2>4
  <1>4. CASE ConfigureFails
    <2>1. faults' # faults + 1
      BY BoundsAssumption DEF TypeOK
    <2> QED
      BY <1>4, <2>1 DEF ConfigureFails
  <1>5. CASE Launch
    <2>1. SmoothState'
      BY <1>5, SmoothSame DEF Launch, Goto, SmoothState
    <2>2. SmoothPlay'
      BY <1>5 DEF Launch, Goto, SmoothPlay
    <2> QED
      BY <2>1, <2>2
  <1>6. CASE EnsureRunning \/ EnsureRunningFails
    <2>0. phase = "start"
      BY <1>6 DEF EnsureRunning, EnsureRunningFails
    <2>1. EnsureRunning
      <3>1. CASE InitialMembers # {}
        BY <1>6, <2>0, <3>1 DEF EnsureRunningFails, StartErrorsIgnored, Regular,
           SmoothPlay
      <3>2. CASE InitialMembers = {}
        <4>1. /\ HasQuorum(Cluster)
              /\ members[Cluster] \subseteq Running(Cluster)
          BY <2>0, SmoothAnswers
        <4>2. Cluster = Hosts /\ published = Hosts
          BY <3>2 DEF Cluster, SmoothState
        <4>3. \A h \in Hosts : h \in up /\ data[h] = Cluster
          BY <2>0, <4>2 DEF SmoothState
        <4> QED
          BY <1>6, <4>1, <4>2, <4>3 DEF EnsureRunningFails, Ready
      <3> QED
        BY <3>1, <3>2
    <2>2. SmoothState'
      BY <2>0, <2>1, SmoothSame DEF EnsureRunning, Goto, etcdVars, SmoothState
    <2>3. SmoothPlay'
      BY <2>1 DEF EnsureRunning, Goto, etcdVars, SmoothPlay
    <2> QED
      BY <2>2, <2>3
  <1>7. CASE WaitHealthy \/ WaitHealthyFails
    <2>0. phase = "wait"
      BY <1>7 DEF WaitHealthy, WaitHealthyFails
    <2>1. Answering = {Cluster} /\ IsHealthy(Cluster)
      BY <2>0, SmoothAnswers
    <2>2. WaitHealthy
      BY <1>7, <2>1 DEF WaitHealthyFails
    <2>3. SmoothState'
      BY <2>0, <2>2, SmoothSame DEF WaitHealthy, Goto, etcdVars, SmoothState
    <2>4. SmoothPlay'
      BY <2>2 DEF WaitHealthy, Goto, etcdVars, SmoothPlay
    <2> QED
      BY <2>3, <2>4
  <1>8. CASE CheckMembers
    <2>0. phase = "list"
      BY <1>8 DEF CheckMembers
    <2>1. WithQuorum = {Cluster}
      BY <2>0, SmoothAnswers
    <2>a. members[Cluster] \subseteq Hosts
      BY ClusterType DEF TypeOK
    <2>b. InitialMembers = {} => members[Cluster] = Hosts
      BY ClusterType, <2>a DEF SmoothState
    <2>c. Listed(Cluster) = members[Cluster]
      BY <2>a, <2>b, ListedMembers DEF Regular, SmoothState
    <2>2. inCluster' = members[Cluster] /\ joiners' = Hosts \ members[Cluster]
      BY <1>8, <2>1, <2>c DEF CheckMembers
    <2>3. SmoothState'
      BY <1>8, SmoothSame DEF CheckMembers, Goto, etcdVars, SmoothState
    <2>4. SmoothPlay'
      BY <1>8, <2>2 DEF CheckMembers, Goto, etcdVars, SmoothPlay
    <2> QED
      BY <2>3, <2>4
  <1>9. CASE RestartEtcd
    <2>1. SmoothState'
      BY <1>9 DEF RestartEtcd, Goto, SmoothState
    <2>2. SmoothPlay'
      BY <1>9 DEF RestartEtcd, Goto, SmoothPlay
    <2> QED
      BY <2>1, <2>2
  <1>10. CASE EtcdUp
    <2>1. published \subseteq up
      BY <1>10 DEF EtcdUp, Ready, SmoothState
    <2>2. SmoothState'
      BY <1>10, <2>1 DEF EtcdUp, Goto, etcdVars, SmoothState
    <2>3. SmoothPlay'
      BY <1>10 DEF EtcdUp, Goto, etcdVars, SmoothPlay
    <2> QED
      BY <2>2, <2>3
  <1>11. CASE EtcdUpFails
    <2>1. Settled
      BY <1>11, CalmMissed DEF EtcdUpFails, GivesUp
    <2>2. wanted = Hosts /\ members[Cluster] = Hosts
      BY <1>11 DEF EtcdUpFails, SmoothPlay
    <2>3. published = Hosts
      BY <1>11, <2>2 DEF EtcdUpFails, SmoothState, TypeOK
    <2>4. \A h \in Hosts : data[h] # {}
      BY <2>3, ClusterType DEF SmoothState
    <2>5. \A h \in Hosts : Ready(h)
      BY <2>1, <2>2, <2>4, SettledReady
    <2>6. notified \subseteq Hosts
      BY DEF TypeOK
    <2> QED
      BY <1>11, <2>5, <2>6 DEF EtcdUpFails
  <1>12. CASE \E h \in Hosts : JoinTask(h)
    BY <1>12, JoinSmooth
  <1> QED
    BY <1>1, <1>2, <1>3, <1>4, <1>5, <1>6, <1>7, <1>8, <1>9, <1>10, <1>11, <1>12
       DEF PlayStep

(* The first start of a new group waits for all the hosts, and they all    *)
(* found the cluster.                                                      *)
LEMMA FoundingReady ==
  ASSUME TypeOK, Regular, NewInv, FoundingState, InitialMembers = {},
         phase = "start", Settled
  PROVE  \A h \in Hosts : Ready(h)
  <1>0. Hosts \in Clusters
    BY DEF Regular
  <1>1. members[Hosts] = Hosts
    BY <1>0 DEF NewInv
  <1>2. \A h \in Hosts : h \in up
    BY DEF FoundingState, Settled, CanStart, CanFound, CanContinue
  <1>3. \A h \in Hosts : data[h] = Hosts
    BY <1>2 DEF NewInv
  <1>4. HasQuorum(Hosts)
    BY <1>0, <1>1, <1>2, <1>3, AllRunQuorum DEF Running
  <1> QED
    BY <1>1, <1>2, <1>3, <1>4 DEF Settled, CanPublish, Ready

LEMMA FoundingNext ==
  ASSUME TypeOK, Regular, NewInv, NewInv', Founding, FoundingState, Next,
         UNCHANGED <<faults, crashes, glitches>>
  PROVE  IF Founding' THEN FoundingState' ELSE SmoothState' /\ SmoothPlay'
  <1>0. InitialMembers = {} /\ Cluster = Hosts
    BY DEF Founding, Cluster
  <1>1. faults' # faults + 1 /\ crashes' # crashes + 1 /\ glitches' # glitches + 1
    BY BoundsAssumption DEF TypeOK
  <1>2. ASSUME UNCHANGED published, FoundingState'
        PROVE  IF Founding' THEN FoundingState' ELSE SmoothState' /\ SmoothPlay'
    BY <1>2 DEF Founding
  <1>3. CASE StartRun
    <2>1. FoundingState' /\ UNCHANGED published
      BY <1>3 DEF StartRun, Goto, etcdVars, FoundingState
    <2> QED
      BY <1>2, <2>1
  <1>4. CASE Interrupt \/ ConfigureFails \/ \E h \in Hosts : Crash(h)
    BY <1>1, <1>4 DEF Interrupt, ConfigureFails, Crash
  <1>5. CASE CheckHealth
    <2>1. up = {}
      BY <1>5 DEF CheckHealth, FoundingState, TypeOK
    <2>2. Answering = {}
      BY <2>1 DEF Answering, Running
    <2>3. ~healthy'
      BY <1>5, <2>2 DEF CheckHealth
    <2>4. FoundingState' /\ UNCHANGED published
      BY <1>5, <2>3 DEF CheckHealth, Goto, FoundingState
    <2> QED
      BY <1>2, <2>4
  <1>6. CASE Configure
    <2>1. \A h \in Hosts : env'[h] = [state |-> "new", initial |-> Hosts]
      BY <1>6 DEF Configure, Refresh, Rendered, FoundingState
    <2>2. FoundingState' /\ UNCHANGED published
      BY <1>6, <2>1 DEF Configure, Goto, FoundingState
    <2> QED
      BY <1>2, <2>2
  <1>7. CASE Launch
    <2>1. FoundingState' /\ UNCHANGED published
      BY <1>7 DEF Launch, Goto, FoundingState
    <2> QED
      BY <1>2, <2>1
  <1>8. CASE EnsureRunning \/ EnsureRunningFails
    <2>0. phase = "start" /\ ~healthy
      BY <1>8 DEF EnsureRunning, EnsureRunningFails, FoundingState
    <2>1. \A h \in Hosts : Ready(h)
      <3>1. CASE EnsureRunning
        BY <2>0, <3>1 DEF EnsureRunning, StartErrorsIgnored, Regular
      <3>2. CASE EnsureRunningFails
        <4>1. Settled
          BY <3>2, CalmMissed DEF EnsureRunningFails, GivesUp
        <4> QED
          BY <1>0, <2>0, <4>1, FoundingReady
      <3> QED
        BY <1>8, <3>1, <3>2
    <2>2. published = Hosts
      BY <2>1 DEF Ready, TypeOK
    <2> QED
      BY <2>2 DEF Founding
  <1>9. ASSUME PlayStep, ~CheckHealth, ~Configure, ~ConfigureFails, ~Launch,
               ~EnsureRunning, ~EnsureRunningFails
        PROVE  FALSE
    BY <1>9 DEF PlayStep, WaitHealthy, WaitHealthyFails, CheckMembers, FinalConfig,
       RestartEtcd, EtcdUp, EtcdUpFails, JoinTask, NextJoiner, AddMember,
       AddMemberFails, ConfigureMember, EnsureListed, EnsureListedFails,
       MemberStarted, MemberStartFails, FoundingState
  <1>10. ASSUME NEW h \in Hosts, EtcdStarts(h)
         PROVE  FoundingState' /\ UNCHANGED published
    BY <1>10 DEF EtcdStarts, playVars, FoundingState
  <1>11. ASSUME NEW h \in Hosts, Publish(h)
         PROVE  IF Founding' THEN FoundingState' ELSE SmoothState' /\ SmoothPlay'
    <2>1. phase = "start" /\ wanted = Hosts
      BY <1>11 DEF Publish, CanPublish, FoundingState, TypeOK
    <2>2. FoundingState'
      BY <1>11, <2>1 DEF Publish, CanPublish, playVars, FoundingState
    <2>3. ASSUME published' = Hosts PROVE SmoothState' /\ SmoothPlay'
      <3>1. Hosts \in Clusters /\ Hosts # {}
        BY DEF Regular
      <3>2. \A g \in Hosts : data'[g] = Hosts
        BY <2>3 DEF NewInv
      <3>3. members' [Hosts] = Hosts
        BY <3>1 DEF NewInv
      <3>4. phase' = "start" /\ wanted' = Hosts /\ up' = up
        BY <1>11, <2>1 DEF Publish, playVars
      <3>5. up' \subseteq Hosts
        BY <3>4 DEF TypeOK
      <3>6. SmoothState'
        BY <1>0, <2>2, <2>3, <3>1, <3>2, <3>3, <3>4, <3>5 DEF SmoothState,
           FoundingState, JoinTasks
      <3>7. SmoothPlay'
        BY <1>0, <3>4 DEF SmoothPlay, JoinTasks, JoinPhases, LatePhases
      <3> QED
        BY <3>6, <3>7
    <2> QED
      BY <1>0, <2>2, <2>3 DEF Founding
  <1> QED
    BY <1>2, <1>3, <1>4, <1>5, <1>6, <1>7, <1>8, <1>9, <1>10, <1>11 DEF Next, EtcdStep

LEMMA CalmNext == Regular /\ CalmInv /\ [Next]_vars => CalmInv'
  <1> SUFFICES ASSUME Regular, CalmInv, [Next]_vars PROVE CalmInv'
    OBVIOUS
  <1>0. /\ TypeOK /\ TypeOK'
        /\ InitialMembers = {} => NewInv /\ NewInv'
    BY TypeNext, NewNext DEF CalmInv
  <1> SUFFICES ASSUME Calm'
               PROVE  IF Founding' THEN FoundingState' ELSE SmoothState' /\ SmoothPlay'
    BY <1>0 DEF CalmInv
  <1>1. Calm /\ UNCHANGED <<faults, crashes, glitches>>
    BY <1>0, StillCalm
  <1>2. CASE UNCHANGED vars
    BY <1>1, <1>2 DEF CalmInv, vars, playVars, etcdVars, Founding, FoundingState,
       SmoothState, SmoothPlay
  <1>3. CASE Next /\ Founding
    BY <1>0, <1>1, <1>3, FoundingNext DEF CalmInv, Founding
  <1>4. CASE Next /\ ~Founding
    <2>1. SmoothState /\ SmoothPlay
      BY <1>1, <1>4 DEF CalmInv
    <2>2. SmoothState' /\ SmoothPlay'
      <3>1. CASE StartRun
        <4>1. SmoothState'
          BY <2>1, <3>1 DEF StartRun, Goto, etcdVars, SmoothState, JoinTasks
        <4>2. SmoothPlay'
          BY <2>1, <3>1 DEF StartRun, Goto, SmoothPlay, JoinTasks, JoinPhases,
             LatePhases
        <4> QED
          BY <4>1, <4>2
      <3>2. CASE Interrupt \/ \E h \in Hosts : Crash(h)
        <4>1. faults' # faults + 1 /\ crashes' # crashes + 1
          BY <1>0, <1>1, BoundsAssumption DEF TypeOK
        <4> QED
          BY <3>2, <4>1 DEF Interrupt, Crash
      <3>3. CASE PlayStep
        BY <1>0, <1>1, <2>1, <3>3, PlaySmooth
      <3>4. CASE \E h \in Hosts : EtcdStep(h)
        BY <1>0, <2>1, <3>4, EtcdSmooth
      <3> QED
        BY <1>4, <3>1, <3>2, <3>3, <3>4 DEF Next
    <2>3. ~Founding'
      BY <2>2 DEF SmoothState, Founding
    <2> QED
      BY <2>2, <2>3
  <1> QED
    BY <1>2, <1>3, <1>4

(* A run over a group etcd, new or grown by any number of hosts of which   *)
(* none is mistaken for a member, does not fail by itself: no task asks    *)
(* for what the tasks before it have not brought about, and etcd needs     *)
(* nothing but time.                                                       *)
THEOREM RunsSucceed ==
  ~EventsCluster /\ Hosts # {} /\ Unmistaken => (Spec => []ScaleUpSucceeds)
  <1> SUFFICES ASSUME Regular PROVE Spec => []ScaleUpSucceeds
    BY DEF Regular
  <1>1. Init => CalmInv
    BY CalmInit
  <1>2. CalmInv /\ [Next]_vars => CalmInv'
    BY CalmNext
  <1>3. CalmInv => ScaleUpSucceeds
    <2> SUFFICES ASSUME CalmInv, phase = "stopped"
                 PROVE  faults + crashes + glitches > 0
      BY DEF ScaleUpSucceeds
    <2>1. ~Calm
      BY DEF CalmInv, FoundingState, SmoothPlay
    <2>2. faults \in Nat /\ crashes \in Nat /\ glitches \in Nat
      BY BoundsAssumption DEF CalmInv, TypeOK
    <2> QED
      BY <2>1, <2>2 DEF Calm
  <1> QED
    BY <1>1, <1>2, <1>3, PTL DEF Spec
-----------------------------------------------------------------------------
(* Runs without a fault implement the membership protocol, to the end.     *)

LEMMA SmoothMaps ==
  ASSUME TypeOK, Regular, SmoothState, SmoothState', [Next]_vars
  PROVE  [Membership!MNext]_Membership!mvars
  <1> DEFINE ms == IF Founders = {} THEN {} ELSE members[Founders]
  <1>0. Cluster \in Clusters /\ Cluster # {}
    BY ClusterType
  <1>1. published \subseteq Hosts /\ published' \subseteq Hosts
    BY TypeNext DEF TypeOK
  <1>2. Founders = Cluster
    <2>1. PICK x \in Hosts : data[x] = Cluster
      BY <1>1 DEF SmoothState
    <2>2. \A h \in Hosts : data[h] \in {{}, Cluster}
      BY DEF SmoothState
    <2> QED
      BY <2>1, <2>2 DEF Founders
  <1>3. Founders' = Cluster
    <2>1. PICK x \in Hosts : data'[x] = Cluster
      BY <1>1 DEF SmoothState
    <2>2. \A h \in Hosts : data'[h] \in {{}, Cluster}
      BY DEF SmoothState
    <2> QED
      BY <2>1, <2>2 DEF Founders
  <1>4. ms = members[Cluster] /\ ms' = members'[Cluster]
    BY <1>0, <1>2, <1>3
  <1>5. ASSUME UNCHANGED <<members, published>>
        PROVE  UNCHANGED Membership!mvars
    BY <1>2, <1>3, <1>4, <1>5 DEF Membership!mvars
  <1>6. ASSUME NEW h \in Hosts, Publish(h) PROVE Membership!MNext
    <2>1. /\ UNCHANGED members /\ published' = published \cup {h}
          /\ h \in up \ published
      BY <1>6 DEF Publish, CanPublish
    <2>2. h \in members[Cluster]
      BY <2>1 DEF SmoothState
    <2>3. Membership!StartMember(h)
      BY <1>2, <1>3, <1>4, <2>1, <2>2 DEF Membership!StartMember
    <2> QED
      BY <2>3 DEF Membership!MNext
  <1>7. ASSUME NEW h \in Hosts, AddMember(h), ~UNCHANGED members
        PROVE  Membership!MNext
    <2>0. phase = "join" /\ UNCHANGED published
      BY <1>7 DEF AddMember
    <2>1. WithQuorum = {Cluster}
      BY <2>0, SmoothAnswers DEF JoinTasks
    <2>2. /\ h \notin members[Cluster]
          /\ members' = [members EXCEPT ![Cluster] = @ \cup {h}]
      BY <1>7, <2>1 DEF AddMember
    <2>3. members'[Cluster] = members[Cluster] \cup {h}
      BY <1>0, <2>2 DEF TypeOK
    <2>4. published = members[Cluster]
      BY <1>1, <2>0 DEF SmoothState, JoinTasks
    <2>5. Membership!AddMember(h)
      BY <1>0, <1>2, <1>3, <1>4, <2>0, <2>2, <2>3, <2>4 DEF Membership!AddMember
    <2> QED
      BY <2>5 DEF Membership!MNext
  <1>8. CASE PlayStep /\ ~ \E h \in Hosts : AddMember(h)
    BY <1>5, <1>8, PlayUnseen
  <1>9. CASE \E h \in Hosts : AddMember(h)
    <2>1. UNCHANGED published
      BY <1>9 DEF AddMember
    <2> QED
      BY <1>5, <1>7, <1>9, <2>1
  <1>10. CASE \/ StartRun \/ Interrupt \/ UNCHANGED vars
              \/ \E h \in Hosts : EtcdStarts(h) \/ Crash(h)
    <2>1. UNCHANGED <<members, published>>
      BY <1>10 DEF StartRun, Interrupt, EtcdStarts, Crash, vars, etcdVars
    <2> QED
      BY <1>5, <2>1
  <1> QED
    BY <1>6, <1>8, <1>9, <1>10 DEF Next, EtcdStep

LEMMA CalmMaps ==
  ASSUME Regular, CalmInv, CalmInv', Calm, Calm', [Next]_vars
  PROVE  [Membership!MNext]_Membership!mvars
  <1>1. CASE InitialMembers = {}
    BY <1>1, NewMaps DEF CalmInv
  <1>2. CASE InitialMembers # {}
    <2>1. SmoothState /\ SmoothState' /\ TypeOK
      BY <1>2 DEF CalmInv, Founding
    <2> QED
      BY <2>1, SmoothMaps
  <1> QED
    BY <1>1, <1>2

LEMMA MembershipInit == Init => Membership!MInit
  <1> SUFFICES ASSUME Init PROVE Membership!MInit
    OBVIOUS
  <1>1. Founders = InitialMembers
    BY MembersAssumption DEF Init, Founders
  <1>2. InitialMembers # {} => members[InitialMembers] = InitialMembers
    BY MembersAssumption DEF Init
  <1> QED
    BY <1>1, <1>2, MembersAssumption DEF Init, Membership!MInit

(* As long as nothing fails, and no new host is mistaken for a member, the *)
(* role implements the membership protocol: one cluster, founded once, and *)
(* members added one at a time.                                            *)
THEOREM CalmImplementsMembership ==
  ~EventsCluster /\ Hosts # {} /\ Unmistaken => (Spec /\ []Calm => MembershipSpec)
  <1> SUFFICES ASSUME Regular PROVE Spec /\ []Calm => MembershipSpec
    BY DEF Regular
  <1>1. Init => CalmInv
    BY CalmInit
  <1>2. CalmInv /\ [Next]_vars => CalmInv'
    BY CalmNext
  <1>3. CalmInv /\ CalmInv' /\ Calm /\ Calm' /\ [Next]_vars =>
           [Membership!MNext]_Membership!mvars
    BY CalmMaps
  <1>4. Init => Membership!MInit
    BY MembershipInit
  <1> QED
    BY <1>1, <1>2, <1>3, <1>4, PTL DEF Spec, MembershipSpec, Membership!MSpec
=============================================================================
