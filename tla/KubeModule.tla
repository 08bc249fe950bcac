----------------------------- MODULE KubeModule -----------------------------
(***************************************************************************)
(* The Ansible module library/kube.py: a play of kube tasks, each of which *)
(* looks objects up with "kubectl get" and applies or deletes them, on a   *)
(* cluster that other clients change too, through an API server that may   *)
(* not answer.                                                             *)
(*                                                                         *)
(* kubectl and the API server are outside the repository.  "kubectl apply" *)
(* and "kubectl delete" go through their objects one by one and go on      *)
(* after an error, which their exit status reports.  A deleted object      *)
(* stays until its finalizers have run, and "kubectl delete" waits for it. *)
(***************************************************************************)
EXTENDS Naturals, Sequences

CONSTANTS
    Objects,      \* Kubernetes objects
    NamespaceOf,  \* a namespaced object's namespace; its own for the others
    Replaced,     \* objects whose old definition cannot be patched
    Play,         \* the kube tasks, in their order
    MaxOutages,   \* bound: times the API server stops answering
    MaxOthers,    \* bound: changes made by other clients
    MaxFaults     \* bound: runs that are interrupted

(* The arguments of a task: the objects that "filename" defines or that    *)
(* "resource" selects, one by its name or several by a label.  "tries" is  *)
(* 1 + retries of a task that has "until: result is succeeded".            *)
Task == [state : {"present", "latest", "reloaded", "absent", "exists"},
         by : {"filename", "name", "label"}, args : Seq(Objects),
         force : BOOLEAN, tries : Nat \ {0}]

Applies(u) == u.state \in {"present", "latest", "reloaded"}

ASSUME NamespaceAssumption == NamespaceOf \in [Objects -> Objects]
ASSUME PlayAssumption ==
    /\ Play \in Seq(Task)
    /\ \A i \in DOMAIN Play : Applies(Play[i]) => Play[i].by = "filename"
    /\ \A i \in DOMAIN Play : Play[i].by = "name" => Len(Play[i].args) = 1
ASSUME BoundsAssumption ==
    MaxOutages \in Nat /\ MaxOthers \in Nat /\ MaxFaults \in Nat

VARIABLES
    (* The play. *)
    at,         \* the number of its task
    tries,      \* how often the task has been tried
    step,       \* where it is
    next,       \* the number of the object that kubectl comes to
    found,      \* what exists() has returned
    failed,     \* kubectl has met an error
    faults,
    (* The cluster. *)
    object,     \* "absent", as in the manifest ("new"), or another ("old")
    going,      \* objects that are being deleted
    api,        \* the API server answers
    outages, others,
    (* History. *)
    disturbed,  \* what others have changed during the task
    foreign,    \* ... during the run, or before it and still being deleted
    unanswered  \* what the run has looked up without an answer

playVars == <<at, tries, step, next, found, failed, faults>>
clusterVars == <<object, going, api, outages, others>>
history == <<disturbed, foreign, unanswered>>
vars == <<playVars, clusterVars, history>>

Init ==
    /\ at = 0 /\ tries = 0 /\ step = "idle" /\ next = 1
    /\ found = FALSE /\ failed = FALSE /\ faults = 0
    /\ object \in [Objects -> {"absent", "old", "new"}]
    /\ \A o \in Objects : object[o] # "absent" => object[NamespaceOf[o]] # "absent"
    /\ going = {} /\ api = TRUE /\ outages = 0 /\ others = 0
    /\ disturbed = {} /\ foreign = {} /\ unanswered = {}

task == Play[at]
ArgsOf(u) == {u.args[i] : i \in DOMAIN u.args}

-----------------------------------------------------------------------------
(* The cluster. *)

CanBeCreated(o) ==
    o = NamespaceOf[o] \/ (object[NamespaceOf[o]] # "absent" /\ NamespaceOf[o] \notin going)

(* A namespace takes what is in it along.                                  *)
Within(o) == {p \in Objects : p = o \/ NamespaceOf[p] = o}
Doomed(o) == {p \in Within(o) : object[p] # "absent"}

Finalize(o) ==
    /\ o \in going /\ Doomed(o) = {o}
    /\ object' = [object EXCEPT ![o] = "absent"]
    /\ going' = going \ {o}
    /\ UNCHANGED <<playVars, api, outages, others, history>>

Outage ==
    /\ api /\ outages < MaxOutages
    /\ api' = FALSE
    /\ outages' = outages + 1
    /\ UNCHANGED <<playVars, object, going, others, history>>

Recover ==
    /\ ~api
    /\ api' = TRUE
    /\ UNCHANGED <<playVars, object, going, outages, others, history>>

OtherClient(S) ==
    /\ api /\ others < MaxOthers
    /\ others' = others + 1
    /\ disturbed' = disturbed \cup S
    /\ foreign' = foreign \cup S
    /\ UNCHANGED <<playVars, api, outages, unanswered>>

OtherWrites(o) ==
    /\ CanBeCreated(o) /\ o \notin going
    /\ object' = [object EXCEPT ![o] = "old"]
    /\ OtherClient({o})
    /\ UNCHANGED going

OtherDeletes(o) ==
    /\ object[o] # "absent" /\ o \notin going
    /\ going' = going \cup Doomed(o)
    /\ OtherClient(Within(o))
    /\ UNCHANGED object

-----------------------------------------------------------------------------
(* The play. *)

StartRun ==
    /\ step \in {"idle", "stopped", "done"}
    /\ step' = "task" /\ at' = 1 /\ tries' = 0
    /\ foreign' = going /\ unanswered' = {}
    /\ UNCHANGED <<next, found, failed, faults, clusterVars, disturbed>>

EndRun ==
    /\ step = "task" /\ at = Len(Play) + 1
    /\ step' = "done"
    /\ UNCHANGED <<at, tries, next, found, failed, faults, clusterVars, history>>

Interrupt ==
    /\ step \notin {"idle", "stopped", "done"} /\ faults < MaxFaults
    /\ step' = "stopped"
    /\ faults' = faults + 1
    /\ UNCHANGED <<at, tries, next, found, failed, clusterVars, history>>

(* main(): what the state leads to.                                        *)
(* Mutant: "absent" does not look first.                                   *)
FirstStep_Blind(u) ==
    IF Applies(u) THEN "apply" ELSE IF u.state = "exists" THEN "get" ELSE "delete"

FirstStep(u) ==
    IF Applies(u) THEN "apply"
    ELSE IF u.state = "exists" \/ ~u.force THEN "get" ELSE "delete"

BeginTask ==
    /\ step = "task" /\ at \in DOMAIN Play
    /\ step' = FirstStep(task)
    /\ tries' = tries + 1
    /\ next' = 1 /\ found' = FALSE /\ failed' = FALSE
    /\ disturbed' = IF Applies(task) THEN going ELSE {}
    /\ UNCHANGED <<at, faults, clusterVars, foreign, unanswered>>

(* exists(): "kubectl get" fails when one object of a file is missing, and *)
(* lists nothing when no object has the label.                             *)
Exists(u) ==
    IF u.by = "label"
    THEN \E o \in ArgsOf(u) : object[o] # "absent"
    ELSE \A o \in ArgsOf(u) : object[o] # "absent"

(* delete() and exists(): no answer is taken for "no" (_execute_nofail).   *)
LookUp ==
    /\ step = "get"
    /\ found' = (api /\ Exists(task))
    /\ step' = IF found' /\ task.state = "absent" THEN "delete" ELSE "succeeded"
    /\ unanswered' = unanswered \cup IF api THEN {} ELSE ArgsOf(task)
    /\ UNCHANGED <<at, tries, next, failed, faults, clusterVars, disturbed, foreign>>

(* One object of "kubectl apply --force".                                  *)
Applied(o, ok) ==
    /\ next' = next + 1
    /\ failed' = (failed \/ ~ok)
    /\ object' = IF ok THEN [object EXCEPT ![o] = "new"] ELSE object
    /\ step' = "apply"

(* create(check=False) and replace(): object by object.  What cannot be    *)
(* patched is deleted first.                                               *)
ApplyNext ==
    /\ step = "apply" /\ next \in DOMAIN task.args
    /\ LET o == task.args[next]
       IN  IF api /\ object[o] = "old" /\ o \in Replaced
           THEN /\ object' = [object EXCEPT ![o] = "absent"]
                /\ going' = going \ {o}
                /\ step' = "recreate"
                /\ UNCHANGED <<next, failed>>
           ELSE /\ Applied(o, api /\ (object[o] = "absent" => CanBeCreated(o)))
                /\ UNCHANGED going
    /\ UNCHANGED <<at, tries, found, faults, api, outages, others, history>>

Recreate ==
    /\ step = "recreate"
    /\ LET o == task.args[next]
       IN  Applied(o, api /\ object[o] = "absent" /\ CanBeCreated(o))
    /\ UNCHANGED <<at, tries, found, faults, going, api, outages, others, history>>

(* delete(): only a force delete by name or label ignores what is missing. *)
NotFoundIsError(u) == u.by = "filename" \/ (u.by = "name" /\ ~u.force)

DeleteNext ==
    /\ step = "delete" /\ next \in DOMAIN task.args
    /\ LET o == task.args[next]
       IN  /\ next' = next + 1
           /\ failed' = (failed \/ ~api \/ (object[o] = "absent" /\ NotFoundIsError(task)))
           /\ going' = IF api THEN going \cup Doomed(o) ELSE going
    /\ UNCHANGED <<at, tries, step, found, faults, object, api, outages, others,
                   history>>

(* Mutant: the exit status of kubectl is not looked at.                    *)
Outcome_Ignored(u) == "succeeded"

(* _execute: fail_json when the exit status is not 0.                      *)
Outcome(u) == IF failed THEN "failed" ELSE "succeeded"

(* Mutant: kubectl does not wait for the objects to go.                    *)
CommandEnds_NoWait ==
    /\ step \in {"apply", "delete"} /\ next \notin DOMAIN task.args
    /\ step' = Outcome(task)
    /\ UNCHANGED <<at, tries, next, found, failed, faults, clusterVars, history>>

CommandEnds ==
    /\ step \in {"apply", "delete"} /\ next \notin DOMAIN task.args
    /\ step = "delete" => ArgsOf(task) \cap going = {}
    /\ step' = Outcome(task)
    /\ UNCHANGED <<at, tries, next, found, failed, faults, clusterVars, history>>

(* The connection is lost while kubectl waits.                             *)
WaitFails ==
    /\ step = "delete" /\ next \notin DOMAIN task.args
    /\ ArgsOf(task) \cap going # {} /\ ~api
    /\ step' = "failed"
    /\ UNCHANGED <<at, tries, next, found, failed, faults, clusterVars, history>>

(* Mutant: whether there is another task is not looked at.                 *)
NextTask_Unchecked ==
    /\ step = "succeeded"
    /\ step' = "get" /\ at' = at + 1 /\ tries' = 0
    /\ UNCHANGED <<next, found, failed, faults, clusterVars, history>>

NextTask ==
    /\ step = "succeeded"
    /\ step' = "task" /\ at' = at + 1 /\ tries' = 0
    /\ UNCHANGED <<next, found, failed, faults, clusterVars, history>>

(* Mutant: a task that has been tried in vain is passed over.              *)
TaskFails_Skipped ==
    /\ step = "failed"
    /\ step' = "task"
    /\ IF tries < task.tries THEN UNCHANGED <<at, tries>> ELSE at' = at + 1 /\ tries' = 0
    /\ UNCHANGED <<next, found, failed, faults, clusterVars, history>>

(* The task is tried again, from its start, or the play stops.             *)
TaskFails ==
    /\ step = "failed"
    /\ step' = IF tries < task.tries THEN "task" ELSE "stopped"
    /\ UNCHANGED <<at, tries, next, found, failed, faults, clusterVars, history>>

-----------------------------------------------------------------------------
PlayStep ==
    \/ EndRun \/ BeginTask \/ LookUp \/ ApplyNext \/ Recreate \/ DeleteNext
    \/ CommandEnds \/ WaitFails \/ NextTask \/ TaskFails

Next ==
    \/ StartRun \/ Interrupt \/ PlayStep \/ Outage \/ Recover
    \/ \E o \in Objects : Finalize(o) \/ OtherWrites(o) \/ OtherDeletes(o)

Spec == Init /\ [][Next]_vars

(* The play goes on and is run again and again, outages end, and so do     *)
(* deletions.                                                              *)
FairSpec ==
    /\ Spec
    /\ WF_vars(PlayStep) /\ WF_vars(StartRun) /\ WF_vars(Recover)
    /\ \A o \in Objects : WF_vars(Finalize(o))

-----------------------------------------------------------------------------
(* Properties. *)

TypeOK ==
    /\ at \in Nat /\ tries \in Nat
    /\ step \in {"idle", "task", "get", "apply", "recreate", "delete", "failed",
                 "succeeded", "stopped", "done"}
    /\ next \in Nat \ {0}
    /\ found \in BOOLEAN /\ failed \in BOOLEAN /\ api \in BOOLEAN
    /\ faults \in 0 .. MaxFaults /\ outages \in 0 .. MaxOutages
    /\ others \in 0 .. MaxOthers
    /\ object \in [Objects -> {"absent", "old", "new"}]
    /\ going \subseteq Objects /\ disturbed \subseteq Objects
    /\ foreign \subseteq Objects /\ unanswered \subseteq Objects
    /\ step \in {"get", "apply", "recreate", "delete", "failed", "succeeded"}
          => at \in DOMAIN Play

(* "latest handles creating or updating based on existence": a task that   *)
(* has succeeded in applying manifests leaves all of their objects as they *)
(* say, unless somebody else has changed them meanwhile.                   *)
AppliedThere ==
    step = "succeeded" /\ Applies(task) =>
        \A o \in ArgsOf(task) \ disturbed : object[o] = "new" /\ o \notin going

(* "absent handles deleting resource(s)": a task that has found its objects*)
(* and succeeded has waited until they are gone.  (It also succeeds when   *)
(* the look-up was not answered, or one of several manifests' objects was  *)
(* missing, and then deletes nothing.)                                     *)
AbsentGone ==
    step = "succeeded" /\ task.state = "absent" /\ (found \/ task.force) =>
        \A o \in ArgsOf(task) \ disturbed : object[o] = "absent"

(* The objects that the play leaves there, and those that it leaves gone.  *)
Wanted == UNION {ArgsOf(Play[i]) : i \in {j \in DOMAIN Play : Applies(Play[j])}}
Unwanted ==
    (UNION {ArgsOf(Play[i]) : i \in
               {j \in DOMAIN Play : Play[j].state = "absent" /\ Play[j].by # "filename"}})
        \ Wanted

(* A run that ends well has repaired what the runs before it have left half*)
(* done: what it applies is as the manifests say, and what it removes by   *)
(* name or label is gone.  Excepted are objects that others have changed   *)
(* since it began or that were being deleted then; objects to remove that  *)
(* a look-up of this run got no answer about, which it has taken for "they *)
(* do not exist"; and objects to remove by file, of which one that is      *)
(* missing keeps the others.                                               *)
Deployed ==
    step = "done" =>
        /\ \A o \in Wanted \ foreign : object[o] = "new" /\ o \notin going
        /\ \A o \in Unwanted \ (foreign \cup unanswered) : object[o] = "absent"

InPlace ==
    /\ \A o \in Wanted : object[o] = "new" /\ o \notin going
    /\ \A o \in Unwanted : object[o] = "absent"

(* Run again and again, also after a run that ended well, the play repairs *)
(* what outages, interruptions, other clients and look-ups without an      *)
(* answer have done.                                                       *)
Converges == <>[]InPlace
=============================================================================
