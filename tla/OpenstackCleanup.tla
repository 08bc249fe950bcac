-------------------------- MODULE OpenstackCleanup --------------------------
(***************************************************************************)
(* scripts/openstack-cleanup/main.py, run again and again by CI            *)
(* (tf-elastx_cleanup), on an OpenStack project where CI jobs create and   *)
(* destroy what contrib/terraform/openstack describes: a network with a    *)
(* subnet on a shared router, a security group, a port and a server.  A    *)
(* job that is cancelled leaves behind what it has.                        *)
(*                                                                         *)
(* OpenStack and Terraform are outside the repository.  A server that is   *)
(* deleted takes its time and leaves its port.  A security group cannot be *)
(* deleted before the ports that have it, a subnet or network before the   *)
(* ports in it, a router's port only by removing the router's interface,   *)
(* and that only when no floating IP goes through it.  Time passes in      *)
(* units; a job's resources are as old as the job.                         *)
(***************************************************************************)
EXTENDS Integers, FiniteSets

CONSTANTS
    Jobs,       \* CI jobs
    Limit,      \* --hours: the age above which resources are deleted
    UtcOffset,  \* how much local time is ahead of UTC
    Settings    \* pairs: port_security_enabled, floating IPs

ASSUME LimitAssumption == Limit \in Nat /\ UtcOffset \in Int
ASSUME SettingsAssumption == Settings \subseteq BOOLEAN \X BOOLEAN

Kinds == {"network", "subnet", "interface", "group", "port", "server"}
Resources == Jobs \X Kinds

VARIABLES
    (* The project. *)
    res,        \* the resources there are
    deleting,   \* jobs whose server is being deleted
    (* The jobs. *)
    job,        \* what each job is doing
    age,        \* how old it is, up to Limit + 1
    secured,    \* ports have their job's security group (port_security_enabled)
    floating,   \* ports have a floating IP
    (* The script. *)
    pass,       \* the loop it is in
    items,      \* what this loop still has to look at
    old         \* the jobs created before oldest_allowed

jobVars == <<job, age, secured, floating>>
scriptVars == <<pass, items, old>>
vars == <<res, deleting, jobVars, scriptVars>>

Init ==
    /\ res = {} /\ deleting = {}
    /\ job = [j \in Jobs |-> "network"]
    /\ age = [j \in Jobs |-> 0]
    /\ \E s \in Settings : secured = s[1] /\ floating = s[2]
    /\ pass = "idle" /\ items = {} /\ old = {}

-----------------------------------------------------------------------------
(* OpenStack. *)

Has(j, k) == <<j, k>> \in res

(* What keeps a resource from being deleted (ConflictException).           *)
Conflict(r) ==
    LET j == r[1]
    IN  CASE r[2] = "group"     -> secured /\ Has(j, "port")
          [] r[2] = "interface" -> TRUE
          [] r[2] \in {"subnet", "network"} -> Has(j, "port") \/ Has(j, "interface")
          [] OTHER              -> FALSE

InterfaceInUse(j) == floating /\ Has(j, "port")

(* A network takes its subnet along.  What is gone is ignored. *)
Removed(r) == res \ IF r[2] = "network" THEN {r, <<r[1], "subnet">>} ELSE {r}

Delete(r) ==
    IF r[2] = "server"
    THEN /\ deleting' = deleting \cup {j \in {r[1]} : Has(j, "server")}
         /\ UNCHANGED res
    ELSE /\ res' = Removed(r)
         /\ UNCHANGED deleting

ServerGone(j) ==
    /\ j \in deleting
    /\ deleting' = deleting \ {j}
    /\ res' = res \ {<<j, "server">>}
    /\ UNCHANGED <<jobVars, scriptVars>>

-----------------------------------------------------------------------------
(* The CI jobs: terraform apply, the tests, terraform destroy.             *)

Order == <<"network", "group", "subnet", "interface", "port", "server", "up">>

Later(k) == {Order[n] : n \in {m \in 1 .. 6 : \E i \in 1 .. (m - 1) : Order[i] = k}}

Needs(k) ==
    CASE k = "server"    -> {"port"}
      [] k = "port"      -> {"subnet", "interface", "group"}
      [] k = "interface" -> {"subnet"}
      [] k = "subnet"    -> {"network"}
      [] OTHER           -> {}

Started(j) == job[j] # "network"

After(k) == Order[1 + CHOOSE n \in 1 .. 6 : Order[n] = k]

(* job[j] is what terraform apply creates next; it fails when what that    *)
(* needs has gone.                                                         *)
Apply(j) ==
    /\ job[j] \in Kinds
    /\ IF \A k \in Needs(job[j]) : Has(j, k)
       THEN /\ res' = res \cup {<<j, job[j]>>}
            /\ job' = [job EXCEPT ![j] = After(@)]
       ELSE /\ job' = [job EXCEPT ![j] = "failed"]
            /\ UNCHANGED res
    /\ UNCHANGED <<deleting, age, secured, floating, scriptVars>>

(* The tests fail when the server has gone.                                *)
Tested(j) ==
    /\ job[j] = "up"
    /\ job' = [job EXCEPT ![j] = IF Has(j, "server") /\ j \notin deleting
                                 THEN "destroy" ELSE "failed"]
    /\ UNCHANGED <<res, deleting, age, secured, floating, scriptVars>>

(* after_script: terraform destroy, also after a failure.                  *)
Destroy(j) ==
    /\ job[j] \in {"destroy", "failed"}
    /\ \E k \in Kinds :
          /\ Has(j, k) /\ \A l \in Later(k) : ~Has(j, l)
          /\ res' = res \ {<<j, k>>}
          /\ deleting' = IF k = "server" THEN deleting \ {j} ELSE deleting
    /\ UNCHANGED <<jobVars, scriptVars>>

Cancel(j) ==
    /\ Started(j)
    /\ job[j] \in Kinds \cup {"up"} \/ \E k \in Kinds : Has(j, k)
    /\ job[j] # "cancelled"
    /\ job' = [job EXCEPT ![j] = "cancelled"]
    /\ UNCHANGED <<res, deleting, age, secured, floating, scriptVars>>

Tick ==
    /\ \E j \in Jobs : Started(j) /\ age[j] <= Limit
    /\ age' = [j \in Jobs |->
                  IF Started(j) /\ age[j] <= Limit THEN age[j] + 1 ELSE age[j]]
    /\ UNCHANGED <<res, deleting, job, secured, floating, scriptVars>>

-----------------------------------------------------------------------------
(* The script. *)

Listed(kinds) == {r \in res : r[2] \in kinds}

(* Mutant: the age is not looked at.                                       *)
IfOld_Any(S, aged) == S

(* map_if_old and fn_if_old pass over what is not old.                     *)
IfOld(S, aged) == {r \in S : r[1] \in aged}

(* A loop over the resources of some kinds, as they are when it begins.    *)
Enter(p, kinds) == pass' = p /\ items' = IfOld(Listed(kinds), old')

End == pass' = "idle" /\ items' = {} /\ old' = {}

(* Mutant: what is exactly as old as allowed goes, too.                    *)
StartCleanup_AtLimit ==
    /\ pass = "idle"
    /\ old' = {j \in Jobs : age[j] + UtcOffset >= Limit}
    /\ Enter("servers", {"server"})
    /\ UNCHANGED <<res, deleting, jobVars>>

(* oldest_allowed is computed once, in local time, while created_at is in  *)
(* UTC.                                                                    *)
StartCleanup ==
    /\ pass = "idle"
    /\ old' = {j \in Jobs : age[j] + UtcOffset > Limit}
    /\ Enter("servers", {"server"})
    /\ UNCHANGED <<res, deleting, jobVars>>

Loops == {"servers", "groups", "ports", "ports_again", "subnets", "networks"}

FnIfOld(r) ==
    /\ pass \in Loops
    /\ r \in items /\ ~Conflict(r)
    /\ items' = items \ {r}
    /\ Delete(r)
    /\ UNCHANGED <<pass, old, jobVars>>

Raises(r) == r \in items /\ Conflict(r)

(* A conflict ends the script, except where ports are deleted first.       *)
Abort(r) ==
    /\ pass \in Loops \ {"ports"}
    /\ Raises(r)
    /\ End
    /\ UNCHANGED <<res, deleting, jobVars>>

(* Mutant: the conflict is not handled, either.                            *)
PortConflict_Abort(r) ==
    /\ pass = "ports"
    /\ Raises(r)
    /\ End
    /\ UNCHANGED <<res, deleting, jobVars>>

PortConflict(r) ==
    /\ pass = "ports"
    /\ Raises(r)
    /\ old' = old /\ Enter("routers", {"subnet"})
    /\ UNCHANGED <<res, deleting, jobVars>>

(* A subnet that cannot be deleted is taken off every router, if that      *)
(* works.                                                                  *)
SubnetOfRouter(r) ==
    /\ pass = "routers" /\ r \in items
    /\ items' = items \ {r}
    /\ res' = IF ~Conflict(r) THEN Removed(r)
              ELSE res \ {s \in {<<r[1], "interface">>} : ~InterfaceInUse(r[1])}
    /\ UNCHANGED <<deleting, pass, old, jobVars>>

NextLoop ==
    /\ pass # "idle" /\ items = {}
    /\ \/ old' = old /\ pass = "servers" /\ Enter("groups", {"group"})
       \/ old' = old /\ pass = "groups" /\ Enter("ports", {"port", "interface"})
       \/ old' = old /\ pass = "routers" /\ Enter("ports_again", {"port", "interface"})
       \/ old' = old /\ pass \in {"ports", "ports_again"} /\ Enter("subnets", {"subnet"})
       \/ old' = old /\ pass = "subnets" /\ Enter("networks", {"network"})
       \/ pass = "networks" /\ End
    /\ UNCHANGED <<res, deleting, jobVars>>

-----------------------------------------------------------------------------
ScriptStep ==
    \/ NextLoop
    \/ \E r \in Resources :
          FnIfOld(r) \/ Abort(r) \/ PortConflict(r) \/ SubnetOfRouter(r)

JobStep(j) == Apply(j) \/ Tested(j) \/ Destroy(j)

Next ==
    \/ StartCleanup \/ ScriptStep \/ Tick
    \/ \E j \in Jobs : JobStep(j) \/ Cancel(j) \/ ServerGone(j)

Spec == Init /\ [][Next]_vars

(* CI runs the script again and again, jobs go on unless they are          *)
(* cancelled, servers that are deleted go, and time passes.                *)
FairSpec ==
    /\ Spec
    /\ WF_vars(StartCleanup) /\ WF_vars(ScriptStep) /\ WF_vars(Tick)
    /\ \A j \in Jobs : WF_vars(JobStep(j)) /\ WF_vars(ServerGone(j))

-----------------------------------------------------------------------------
(* Properties. *)

TypeOK ==
    /\ res \subseteq Resources /\ deleting \subseteq Jobs
    /\ job \in [Jobs -> Kinds \cup {"up", "destroy", "failed", "cancelled"}]
    /\ age \in [Jobs -> 0 .. Limit + 1]
    /\ secured \in BOOLEAN /\ floating \in BOOLEAN
    /\ pass \in {"idle", "routers"} \cup Loops
    /\ old \subseteq Jobs /\ items \subseteq old \X Kinds

(* "Age (in hours) of VMs to cleanup": a job that is not older than that   *)
(* is not made to fail: whatever the script does to old jobs at the same   *)
(* time, it takes nothing from it.                                         *)
YoungJobsWork == \A j \in Jobs : job[j] = "failed" => age[j] > Limit

(* "Useful to cleanup orphan servers that are left behind when CI is       *)
(* manually cancelled or fails unexpectedly" (README.md): all servers go   *)
(* in the end, and so does all the rest that jobs leave behind, where      *)
(* neither security groups nor floating IPs are in the way.                *)
OrphansGo ==
    <>[]IF secured \/ floating THEN Listed({"server"}) = {} ELSE res = {}
=============================================================================
