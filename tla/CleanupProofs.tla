--------------------------- MODULE CleanupProofs ---------------------------
(***************************************************************************)
(* Proofs about OpenstackCleanup: whatever the jobs and the age limit are, *)
(* and however the script's loops fall among what the jobs do, the script  *)
(* takes nothing from a job that is not too old - as long as local time is *)
(* not ahead of UTC.                                                       *)
(***************************************************************************)
EXTENDS OpenstackCleanup, TLAPS

States == Kinds \cup {"up", "destroy", "failed", "cancelled"}

(* What terraform apply has created when s is what comes next.             *)
Before(s) ==
    CASE s = "network"   -> {}
      [] s = "group"     -> {"network"}
      [] s = "subnet"    -> {"network", "group"}
      [] s = "interface" -> {"network", "group", "subnet"}
      [] s = "port"      -> {"network", "group", "subnet", "interface"}
      [] s = "server"    -> Kinds \ {"server"}
      [] OTHER           -> Kinds

(* The script has only old jobs on its lists, and only servers of old jobs *)
(* are being deleted.                                                      *)
OldOnly == \A j \in old \cup deleting : age[j] > Limit

(* A job that is not too old has everything that it created.               *)
Complete(j) ==
    /\ job[j] # "failed"
    /\ job[j] \in Kinds \cup {"up"} => \A k \in Before(job[j]) : Has(j, k)

YoungComplete == \A j \in Jobs : age[j] <= Limit => Complete(j)

YoungInv == OldOnly /\ YoungComplete

-----------------------------------------------------------------------------
(* How terraform goes through what it creates.                             *)

LEMMA AfterNext ==
    ASSUME NEW m \in 1 .. 6
    PROVE  After(Order[m]) = Order[1 + m]
<1>1. \A n \in 1 .. 6 : Order[n] = Order[m] <=> n = m  BY DEF Order
<1>2. (CHOOSE n \in 1 .. 6 : Order[n] = Order[m]) = m  BY <1>1
<1>3. QED  BY <1>2 DEF After

LEMMA AfterValues ==
    /\ After("network") = "group" /\ After("group") = "subnet"
    /\ After("subnet") = "interface" /\ After("interface") = "port"
    /\ After("port") = "server" /\ After("server") = "up"
<1>1. /\ After(Order[1]) = Order[2] /\ After(Order[2]) = Order[3]
      /\ After(Order[3]) = Order[4] /\ After(Order[4]) = Order[5]
      /\ After(Order[5]) = Order[6] /\ After(Order[6]) = Order[7]
  BY AfterNext
<1>2. /\ Order[1] = "network" /\ Order[2] = "group" /\ Order[3] = "subnet"
      /\ Order[4] = "interface" /\ Order[5] = "port" /\ Order[6] = "server"
      /\ Order[7] = "up"
  BY DEF Order
<1>3. QED  BY <1>1, <1>2

(* Creating k adds k to what there is, and k needs only what came before.  *)
LEMMA AfterBefore ==
    ASSUME NEW k \in Kinds
    PROVE  /\ After(k) \in Kinds \cup {"up"}
           /\ Before(After(k)) = Before(k) \cup {k}
           /\ Needs(k) \subseteq Before(k)
           /\ k \notin Before(k)
<1>1. CASE k = "network"
  BY <1>1, AfterValues DEF Before, Needs, Kinds
<1>2. CASE k = "group"
  BY <1>2, AfterValues DEF Before, Needs, Kinds
<1>3. CASE k = "subnet"
  BY <1>3, AfterValues DEF Before, Needs, Kinds
<1>4. CASE k = "interface"
  BY <1>4, AfterValues DEF Before, Needs, Kinds
<1>5. CASE k = "port"
  BY <1>5, AfterValues DEF Before, Needs, Kinds
<1>6. CASE k = "server"
  BY <1>6, AfterValues DEF Before, Needs, Kinds
<1>7. QED  BY <1>1, <1>2, <1>3, <1>4, <1>5, <1>6 DEF Kinds

-----------------------------------------------------------------------------
(* Types. *)

LEMMA TypeInit == Init => TypeOK
<1>1. SUFFICES ASSUME Init PROVE TypeOK  OBVIOUS
<1>2. secured \in BOOLEAN /\ floating \in BOOLEAN
  BY <1>1, SettingsAssumption DEF Init
<1>3. age \in [Jobs -> 0 .. Limit + 1]
  BY <1>1, LimitAssumption DEF Init
<1>4. QED  BY <1>1, <1>2, <1>3 DEF Init, TypeOK, Kinds, Loops, Resources

(* What a loop looks at belongs to old jobs.                               *)
LEMMA EnterType ==
    ASSUME TypeOK, old' \subseteq Jobs, NEW p, NEW kinds, Enter(p, kinds)
    PROVE  items' \subseteq old' \X Kinds
BY DEF TypeOK, Enter, IfOld, Listed, Resources

(* A step of the script takes resources of old jobs only.                  *)
ScriptTakes ==
    /\ res' \subseteq res
    /\ \A j \in Jobs, k \in Kinds : Has(j, k) /\ j \notin old => <<j, k>> \in res'
    /\ deleting \subseteq deleting' /\ deleting' \subseteq deleting \cup old

LEMMA ScriptStepType ==
    ASSUME TypeOK, ScriptStep \/ StartCleanup
    PROVE  /\ pass' \in {"idle", "routers"} \cup Loops
           /\ old' \subseteq Jobs /\ items' \subseteq old' \X Kinds
           /\ old' \subseteq old \/ old' = {j \in Jobs : age[j] + UtcOffset > Limit}
           /\ ScriptTakes /\ UNCHANGED jobVars
<1>1. CASE StartCleanup
  <2>1. old' \subseteq Jobs  BY <1>1 DEF StartCleanup
  <2>2. items' \subseteq old' \X Kinds
    BY <1>1, <2>1, EnterType DEF StartCleanup
  <2>3. QED  BY <1>1, <2>1, <2>2 DEF StartCleanup, Enter, Loops, ScriptTakes, Has
<1>2. CASE NextLoop
  <2>1. old' \subseteq old /\ pass' \in {"idle", "routers"} \cup Loops
    BY <1>2 DEF NextLoop, Enter, End, Loops
  <2>2. items' \subseteq old' \X Kinds
    <3>1. CASE End  BY <3>1 DEF End
    <3>2. CASE ~End  BY <1>2, <2>1, <3>2, EnterType DEF NextLoop, TypeOK
    <3>3. QED  BY <3>1, <3>2
  <2>3. QED  BY <1>2, <2>1, <2>2 DEF NextLoop, ScriptTakes, Has, TypeOK
<1>3. ASSUME NEW r \in Resources, FnIfOld(r)
      PROVE  /\ UNCHANGED <<pass, old, jobVars>> /\ items' \subseteq items
             /\ ScriptTakes
  <2>1. r[1] \in old /\ r \in old \X Kinds
    BY <1>3 DEF FnIfOld, TypeOK
  <2>2. ScriptTakes
    <3>1. CASE r[2] = "server"
      BY <1>3, <2>1, <3>1 DEF FnIfOld, Delete, ScriptTakes, Has
    <3>2. CASE r[2] # "server"
      BY <1>3, <2>1, <3>2 DEF FnIfOld, Delete, Removed, ScriptTakes, Has
    <3>3. QED  BY <3>1, <3>2
  <2>3. QED  BY <1>3, <2>2 DEF FnIfOld
<1>4. ASSUME NEW r \in Resources, SubnetOfRouter(r)
      PROVE  /\ UNCHANGED <<pass, old, jobVars>> /\ items' \subseteq items
             /\ ScriptTakes
  <2>1. r[1] \in old /\ r \in old \X Kinds
    BY <1>4 DEF SubnetOfRouter, TypeOK
  <2>2. QED  BY <1>4, <2>1 DEF SubnetOfRouter, Removed, ScriptTakes, Has
<1>5. ASSUME NEW r \in Resources, PortConflict(r)
      PROVE  /\ pass' = "routers" /\ old' = old /\ UNCHANGED jobVars
             /\ items' \subseteq old' \X Kinds /\ ScriptTakes
  <2>1. old' \subseteq Jobs  BY <1>5 DEF PortConflict, TypeOK
  <2>2. items' \subseteq old' \X Kinds
    BY <1>5, <2>1, EnterType DEF PortConflict
  <2>3. QED  BY <1>5, <2>2 DEF PortConflict, Enter, ScriptTakes, Has
<1>6. ASSUME NEW r \in Resources, Abort(r)
      PROVE  /\ pass' = "idle" /\ old' = {} /\ items' = {} /\ UNCHANGED jobVars
             /\ ScriptTakes
  BY <1>6 DEF Abort, End, ScriptTakes, Has
<1>7. QED
  BY <1>1, <1>2, <1>3, <1>4, <1>5, <1>6 DEF ScriptStep, TypeOK

LEMMA TypeStep ==
    ASSUME TypeOK, [Next]_vars
    PROVE  TypeOK'
<1>1. CASE ScriptStep \/ StartCleanup
  <2>1. /\ pass' \in {"idle", "routers"} \cup Loops
        /\ old' \subseteq Jobs /\ items' \subseteq old' \X Kinds
        /\ ScriptTakes /\ UNCHANGED jobVars
    BY <1>1, ScriptStepType
  <2>2. res' \subseteq Resources /\ deleting' \subseteq Jobs
    BY <2>1 DEF ScriptTakes, TypeOK
  <2>3. QED  BY <2>1, <2>2 DEF TypeOK, jobVars
<1>2. CASE Tick
  <2>1. age' \in [Jobs -> 0 .. Limit + 1]
    BY <1>2, LimitAssumption DEF Tick, TypeOK
  <2>2. QED  BY <1>2, <2>1 DEF Tick, TypeOK, scriptVars
<1>3. ASSUME NEW j \in Jobs, Apply(j)  PROVE TypeOK'
  <2>1. After(job[j]) \in Kinds \cup {"up"}
    BY <1>3, AfterBefore DEF Apply
  <2>2. res' \subseteq Resources
    BY <1>3 DEF Apply, TypeOK, Resources
  <2>3. job' \in [Jobs -> States]
    BY <1>3, <2>1 DEF Apply, TypeOK, States
  <2>4. QED  BY <1>3, <2>2, <2>3 DEF Apply, TypeOK, States, scriptVars
<1>4. ASSUME NEW j \in Jobs, Tested(j) \/ Cancel(j)  PROVE TypeOK'
  <2>1. job' \in [Jobs -> States]
    BY <1>4 DEF Tested, Cancel, TypeOK, States
  <2>2. QED  BY <1>4, <2>1 DEF Tested, Cancel, TypeOK, States, scriptVars
<1>5. ASSUME NEW j \in Jobs, Destroy(j) \/ ServerGone(j)  PROVE TypeOK'
  BY <1>5 DEF Destroy, ServerGone, TypeOK, scriptVars, jobVars
<1>6. CASE UNCHANGED vars
  BY <1>6 DEF vars, jobVars, scriptVars, TypeOK
<1>7. QED
  BY <1>1, <1>2, <1>3, <1>4, <1>5, <1>6 DEF Next, JobStep

(* The script's list holds old jobs' resources only, of jobs and kinds     *)
(* there are, through every loop, conflict and abort.                      *)
THEOREM CleanupTypes == Spec => []TypeOK
BY TypeInit, TypeStep, PTL DEF Spec

-----------------------------------------------------------------------------
(* Young jobs. *)

LEMMA YoungInit == Init => YoungInv
BY LimitAssumption DEF Init, YoungInv, OldOnly, YoungComplete, Complete, Before, Kinds

(* Ages only grow.                                                         *)
LEMMA AgesGrow ==
    ASSUME TypeOK, [Next]_vars, NEW j \in Jobs
    PROVE  age'[j] \in Int /\ age[j] \in Int /\ age[j] <= age'[j]
<1>1. CASE Tick
  BY <1>1, LimitAssumption DEF Tick, TypeOK
<1>2. CASE UNCHANGED age
  BY <1>2, LimitAssumption DEF TypeOK
<1>3. CASE ScriptStep \/ StartCleanup
  BY <1>2, <1>3, ScriptStepType DEF jobVars
<1>4. QED
  BY <1>1, <1>2, <1>3 DEF Next, JobStep, Apply, Tested, Destroy, Cancel,
     ServerGone, vars, jobVars

(* A job that is on no list loses nothing and is as far as it was.         *)
LEMMA KeepsComplete ==
    ASSUME NEW j \in Jobs, Complete(j), job'[j] = job[j],
           \A k \in Kinds : Has(j, k) => <<j, k>> \in res'
    PROVE  Complete(j)'
BY DEF Complete, Has, Before, Kinds

LEMMA YoungStep ==
    ASSUME UtcOffset <= 0, TypeOK, YoungInv, [Next]_vars
    PROVE  YoungInv'
<1>1. ASSUME NEW j \in Jobs
      PROVE  age'[j] \in Int /\ age[j] \in Int /\ age[j] <= age'[j]
  BY <1>1, AgesGrow
<1>2. Limit \in Int /\ UtcOffset \in Int  BY LimitAssumption
<1>3. OldOnly'
  <2>1. CASE ScriptStep \/ StartCleanup
    <3>1. old' \subseteq old \/ old' = {j \in Jobs : age[j] + UtcOffset > Limit}
      BY <2>1, ScriptStepType
    <3>2. \A j \in old' : age[j] > Limit
      BY <1>1, <1>2, <3>1 DEF YoungInv, OldOnly, TypeOK
    <3>3. deleting' \subseteq deleting \cup old /\ UNCHANGED age
      BY <2>1, ScriptStepType DEF ScriptTakes, jobVars
    <3>4. QED  BY <3>2, <3>3 DEF YoungInv, OldOnly
  <2>2. CASE deleting' \subseteq deleting /\ old' = old
    BY <1>1, <1>2, <2>2 DEF YoungInv, OldOnly, TypeOK
  <2>3. QED
    BY <2>1, <2>2 DEF Next, JobStep, Apply, Tested, Destroy, Cancel, Tick,
       ServerGone, vars, scriptVars
<1>4. ASSUME NEW j \in Jobs, age'[j] <= Limit  PROVE Complete(j)'
  <2>1. age[j] <= Limit /\ Complete(j)
    BY <1>1, <1>2, <1>4 DEF YoungInv, YoungComplete
  <2>2. j \notin old /\ j \notin deleting
    BY <1>2, <2>1 DEF YoungInv, OldOnly, TypeOK
  <2>3. CASE ScriptStep \/ StartCleanup
    BY <2>1, <2>2, <2>3, ScriptStepType, KeepsComplete DEF ScriptTakes, jobVars
  <2>4. CASE Tick \/ UNCHANGED vars
    BY <2>1, <2>4, KeepsComplete DEF Tick, vars, jobVars, Has
  <2>5. ASSUME NEW i \in Jobs, JobStep(i) \/ Cancel(i) \/ ServerGone(i), i # j
        PROVE  Complete(j)'
    <3>1. job'[j] = job[j] /\ \A k \in Kinds : Has(j, k) => <<j, k>> \in res'
      BY <2>5 DEF JobStep, Apply, Tested, Destroy, Cancel, ServerGone, Has,
         jobVars, TypeOK
    <3>2. QED  BY <2>1, <3>1, KeepsComplete
  <2>6. CASE Apply(j)
    <3>1. /\ job[j] \in Kinds /\ Needs(job[j]) \subseteq Before(job[j])
          /\ Before(After(job[j])) = Before(job[j]) \cup {job[j]}
          /\ After(job[j]) \in Kinds \cup {"up"}
      BY <2>6, AfterBefore DEF Apply
    <3>2. \A k \in Before(job[j]) : Has(j, k)
      BY <2>1, <3>1 DEF Complete
    <3>3. job'[j] = After(job[j]) /\ res' = res \cup {<<j, job[j]>>}
      BY <2>6, <3>1, <3>2 DEF Apply, TypeOK
    <3>4. \A k \in Before(job'[j]) : Has(j, k)'
      BY <3>1, <3>2, <3>3 DEF Has
    <3>5. job'[j] # "failed"
      BY <3>1, <3>3 DEF Kinds
    <3>6. QED  BY <3>4, <3>5 DEF Complete
  <2>7. CASE Tested(j)
    <3>1. Has(j, "server")
      BY <2>1, <2>7 DEF Tested, Complete, Before, Kinds
    <3>2. job'[j] = "destroy"
      BY <2>2, <2>7, <3>1 DEF Tested, TypeOK
    <3>3. QED  BY <3>2 DEF Complete, Kinds
  <2>8. CASE Destroy(j)
    <3>1. job[j] = "destroy" /\ job'[j] = job[j]
      BY <2>1, <2>8 DEF Destroy, Complete, jobVars
    <3>2. QED  BY <3>1 DEF Complete, Kinds
  <2>9. CASE Cancel(j)
    <3>1. job'[j] = "cancelled"  BY <2>9 DEF Cancel, TypeOK
    <3>2. QED  BY <3>1 DEF Complete, Kinds
  <2>10. CASE ServerGone(j)
    BY <2>2, <2>10 DEF ServerGone
  <2>11. QED
    BY <2>3, <2>4, <2>5, <2>6, <2>7, <2>8, <2>9, <2>10 DEF Next, JobStep
<1>5. QED  BY <1>3, <1>4 DEF YoungInv, YoungComplete

(* "Age (in hours) of VMs to cleanup": where local time is not ahead of    *)
(* UTC, a job that is not older than that finds everything it created, so  *)
(* it does not fail, whatever the script does around it.                   *)
THEOREM SparesYoungJobs == UtcOffset <= 0 => (Spec => []YoungJobsWork)
<1>1. SUFFICES ASSUME UtcOffset <= 0 PROVE Spec => []YoungJobsWork
  OBVIOUS
<1>2. TypeOK /\ YoungInv /\ [Next]_vars => YoungInv'
  BY <1>1, YoungStep
<1>3. TypeOK /\ YoungInv => YoungJobsWork
  <2>1. SUFFICES ASSUME TypeOK, YoungInv, NEW j \in Jobs, job[j] = "failed"
                 PROVE  age[j] > Limit
    BY DEF YoungJobsWork
  <2>2. ~(age[j] <= Limit)
    BY <2>1 DEF YoungInv, YoungComplete, Complete
  <2>3. QED  BY <2>1, <2>2, LimitAssumption DEF TypeOK
<1>4. QED  BY <1>2, <1>3, YoungInit, CleanupTypes, PTL DEF Spec
=============================================================================
