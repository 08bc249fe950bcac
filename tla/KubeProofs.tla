----------------------------- MODULE KubeProofs -----------------------------
(***************************************************************************)
(* What a kube task has done when it succeeds, for every play, cluster and *)
(* number of outages, interruptions and changes made by other clients.     *)
(***************************************************************************)
EXTENDS KubeModule, TLAPS

USE DEF BoundsAssumption, history

InTask == {"get", "apply", "recreate", "delete", "failed", "succeeded"}

(* Which step belongs to which task.                                       *)
StepOfTask ==
    /\ step \in {"apply", "recreate"} => Applies(task)
    /\ step = "recreate" => next \in DOMAIN task.args
    /\ step \in {"get", "delete"} => ~Applies(task)
    /\ step = "get" => task.state = "exists" \/ ~task.force
    /\ step = "delete" => task.state = "absent" /\ (found \/ task.force)
    /\ step = "get" => ~found /\ next = 1

(* Nothing is being deleted that the history does not tell of.             *)
GoingKnown ==
    step \in {"apply", "recreate", "succeeded"} /\ Applies(task)
        => going \subseteq disturbed

(* The objects that kubectl has come past.                                 *)
Past == {task.args[i] : i \in {j \in DOMAIN task.args : j < next}}

AppliedSoFar ==
    step \in {"apply", "recreate"} /\ ~failed =>
        \A o \in Past \ disturbed : object[o] = "new"

DeletedSoFar ==
    step = "delete" /\ ~failed =>
        \A o \in Past \ disturbed : object[o] = "absent" \/ o \in going

IInv ==
    /\ TypeOK
    /\ StepOfTask
    /\ GoingKnown
    /\ AppliedSoFar
    /\ DeletedSoFar
    /\ AppliedThere
    /\ AbsentGone
-----------------------------------------------------------------------------
LEMMA TaskType ==
    ASSUME at \in DOMAIN Play
    PROVE  task \in Task /\ task.args \in Seq(Objects)
<1>1. task \in Task
  <2>1. Play \in Seq(Task)
    BY PlayAssumption DEF PlayAssumption
  <2> QED
    BY <2>1 DEF task
<1> QED
  BY <1>1 DEF Task

(* The objects past after one more of them are those before it and itself. *)
LEMMA PastStep ==
    ASSUME at \in DOMAIN Play, next \in Nat \ {0}, next' = next + 1,
           UNCHANGED at, next \in DOMAIN task.args
    PROVE  Past' = Past \cup {task.args[next]}
<1>1. task.args \in Seq(Objects) /\ task' = task
  BY TaskType DEF task
<1>2. DOMAIN task.args = 1 .. Len(task.args)
  BY <1>1
<1>3. {j \in DOMAIN task.args : j < next + 1} =
          {j \in DOMAIN task.args : j < next} \cup {next}
  BY <1>2
<1> QED
  BY <1>1, <1>3 DEF Past

(* At the end they are all of the task's objects.                          *)
LEMMA PastAll ==
    ASSUME at \in DOMAIN Play, next \in Nat \ {0}, next \notin DOMAIN task.args
    PROVE  Past = ArgsOf(task)
<1>1. task.args \in Seq(Objects)
  BY TaskType
<1>2. DOMAIN task.args = 1 .. Len(task.args) /\ Len(task.args) \in Nat
  BY <1>1
<1>3. \A j \in DOMAIN task.args : j < next
  BY <1>2
<1> QED
  BY <1>3 DEF Past, ArgsOf

LEMMA ArgsType ==
    ASSUME at \in DOMAIN Play
    PROVE  ArgsOf(task) \subseteq Objects
<1>1. task.args \in Seq(Objects)
  BY TaskType
<1> QED
  BY <1>1 DEF ArgsOf

-----------------------------------------------------------------------------
LEMMA TypeInit == Init => TypeOK
<1> SUFFICES ASSUME Init PROVE TypeOK
  OBVIOUS
<1>1. /\ at \in Nat /\ tries \in Nat /\ next \in Nat \ {0}
      /\ faults \in 0 .. MaxFaults /\ outages \in 0 .. MaxOutages
      /\ others \in 0 .. MaxOthers
  BY BoundsAssumption DEF Init
<1>2. step \notin {"get", "apply", "recreate", "delete", "failed", "succeeded"}
  BY DEF Init
<1> QED
  BY <1>1, <1>2, Zenon DEF Init, TypeOK

LEMMA TypeNext == TypeOK /\ [Next]_vars => TypeOK'
<1> SUFFICES ASSUME TypeOK, [Next]_vars PROVE TypeOK'
  OBVIOUS
<1> USE BoundsAssumption DEF TypeOK
<1>1. CASE StartRun
  BY <1>1 DEF StartRun, clusterVars
<1>2. CASE EndRun
  BY <1>2 DEF EndRun, clusterVars
<1>3. CASE Interrupt
  BY <1>3 DEF Interrupt, clusterVars
<1>4. CASE BeginTask
  <2>1. found' \in BOOLEAN /\ failed' \in BOOLEAN /\ api' \in BOOLEAN
    BY <1>4, Zenon DEF BeginTask, clusterVars
  <2>2. tries' \in Nat /\ next' \in Nat \ {0} /\ disturbed' \subseteq Objects
    BY <1>4 DEF BeginTask, clusterVars
  <2>3. step' \in {"get", "apply", "delete"}
    BY <1>4, Zenon DEF BeginTask, FirstStep
  <2> QED
    BY <1>4, <2>1, <2>2, <2>3 DEF BeginTask, clusterVars
<1>5. CASE LookUp
  <2>1. ArgsOf(task) \subseteq Objects /\ at \in DOMAIN Play
    BY <1>5, ArgsType DEF LookUp
  <2> QED
    BY <1>5, <2>1 DEF LookUp, clusterVars
<1>6. CASE ApplyNext
  <2>1. at \in DOMAIN Play /\ task.args \in Seq(Objects)
    BY <1>6, TaskType DEF ApplyNext
  <2>2. task.args[next] \in Objects
    BY <1>6, <2>1 DEF ApplyNext
  <2>3. failed' \in BOOLEAN /\ found' \in BOOLEAN /\ api' \in BOOLEAN
    BY <1>6, Zenon DEF ApplyNext, Applied
  <2>4. object' \in [Objects -> {"absent", "old", "new"}] /\ next' \in Nat \ {0}
    BY <1>6, <2>1, <2>2 DEF ApplyNext, Applied
  <2> QED
    BY <1>6, <2>1, <2>3, <2>4 DEF ApplyNext, Applied
<1>7. CASE Recreate
  <2>1. failed' \in BOOLEAN /\ found' \in BOOLEAN /\ api' \in BOOLEAN
    BY <1>7, Zenon DEF Recreate, Applied
  <2>2. object' = object \/ object' = [object EXCEPT ![task.args[next]] = "new"]
    BY <1>7, Zenon DEF Recreate, Applied
  <2>3. object' \in [Objects -> {"absent", "old", "new"}]
    BY <2>2
  <2>4. next' \in Nat \ {0} /\ step' = "apply"
    BY <1>7 DEF Recreate, Applied
  <2> QED
    BY <1>7, <2>1, <2>3, <2>4 DEF Recreate, Applied
<1>8. CASE DeleteNext
  BY <1>8 DEF DeleteNext, Doomed, Within
<1>9. CASE CommandEnds
  BY <1>9 DEF CommandEnds, Outcome, clusterVars
<1>10. CASE WaitFails
  BY <1>10 DEF WaitFails, clusterVars
<1>11. CASE NextTask
  BY <1>11 DEF NextTask, clusterVars
<1>12. CASE TaskFails
  BY <1>12 DEF TaskFails, clusterVars
<1>13. CASE Outage
  <2>1. api' \in BOOLEAN
    BY <1>13, Zenon DEF Outage
  <2>2. outages' \in 0 .. MaxOutages
    BY <1>13 DEF Outage
  <2> QED
    BY <1>13, <2>1, <2>2 DEF Outage, playVars
<1>14. CASE Recover
  BY <1>14 DEF Recover, playVars
<1>15. ASSUME NEW o \in Objects, Finalize(o) PROVE TypeOK'
  BY <1>15 DEF Finalize, playVars
<1>16. ASSUME NEW o \in Objects, OtherWrites(o) PROVE TypeOK'
  BY <1>16 DEF OtherWrites, OtherClient, playVars
<1>17. ASSUME NEW o \in Objects, OtherDeletes(o) PROVE TypeOK'
  BY <1>17 DEF OtherDeletes, OtherClient, Doomed, Within, playVars
<1>18. CASE UNCHANGED vars
  BY <1>18 DEF vars, playVars, clusterVars
<1> QED
  BY <1>1, <1>2, <1>3, <1>4, <1>5, <1>6, <1>7, <1>8, <1>9, <1>10, <1>11, <1>12,
     <1>13, <1>14, <1>15, <1>16, <1>17, <1>18 DEF Next, PlayStep

(* The variables keep their types.                                         *)
THEOREM TypeCorrect == Spec => []TypeOK
  BY TypeInit, TypeNext, PTL DEF Spec

-----------------------------------------------------------------------------
Rest == StepOfTask /\ GoingKnown /\ AppliedSoFar /\ DeletedSoFar /\ AppliedThere
            /\ AbsentGone

LEMMA InvInit == Init => IInv
<1> SUFFICES ASSUME Init PROVE IInv
  OBVIOUS
<1>1. step = "idle" /\ TypeOK
  BY TypeInit DEF Init
<1> QED
  BY <1>1 DEF IInv, StepOfTask, GoingKnown, AppliedSoFar, DeletedSoFar,
              AppliedThere, AbsentGone

(* A step out of the task leaves nothing to show. *)
LEMMA OutOfTask ==
    ASSUME step' \notin InTask \ {"failed"}
    PROVE  Rest'
  BY DEF InTask, Rest, StepOfTask, GoingKnown, AppliedSoFar, DeletedSoFar,
         AppliedThere, AbsentGone

LEMMA BeginTaskInv == IInv /\ BeginTask => Rest'
<1> SUFFICES ASSUME IInv, BeginTask PROVE Rest'
  OBVIOUS
<1>1. /\ task' = task /\ next' = 1 /\ found' = FALSE /\ going' = going
      /\ step' = FirstStep(task)
  BY DEF BeginTask, task, clusterVars
<1>2. Past' = {}
  <2>1. task.args \in Seq(Objects)
    BY TaskType DEF BeginTask
  <2>2. \A j \in DOMAIN task.args : ~(j < 1)
    BY <2>1
  <2> QED
    BY <1>1, <2>2 DEF Past
<1>3. step' \in {"apply", "get", "delete"}
  BY <1>1, Zenon DEF FirstStep
<1>4. step' = "apply" => Applies(task) /\ disturbed' = going
  BY <1>1, Zenon DEF FirstStep, BeginTask
<1>5. step' # "apply" => ~Applies(task)
  BY <1>1, Zenon DEF FirstStep
<1>6. step' = "get" => task.state = "exists" \/ ~task.force
  BY <1>1, Zenon DEF FirstStep
<1>7. step' = "delete" => task.state = "absent" /\ task.force
  <2>1. task.state \in {"present", "latest", "reloaded", "absent", "exists"}
    BY TaskType DEF BeginTask, Task
  <2> QED
    BY <1>1, <2>1 DEF FirstStep, Applies
<1> QED
  BY <1>1, <1>2, <1>3, <1>4, <1>5, <1>6, <1>7
  DEF Rest, StepOfTask, GoingKnown, AppliedSoFar, DeletedSoFar, AppliedThere,
      AbsentGone, Applies

LEMMA LookUpInv == IInv /\ LookUp => Rest'
<1> SUFFICES ASSUME IInv, LookUp PROVE Rest'
  OBVIOUS
<1>1. /\ task' = task /\ next' = next /\ at \in DOMAIN Play /\ step = "get"
  BY DEF LookUp, task, IInv, TypeOK
<1>2. ~Applies(task) /\ next = 1 /\ (task.state = "exists" \/ ~task.force)
  BY <1>1 DEF IInv, StepOfTask
<1>3. Past' = {}
  <2>1. task.args \in Seq(Objects)
    BY <1>1, TaskType
  <2>2. \A j \in DOMAIN task.args : ~(j < 1)
    BY <2>1
  <2> QED
    BY <1>1, <1>2, <2>2 DEF Past
<1>4. \/ step' = "delete" /\ task.state = "absent" /\ found'
      \/ step' = "succeeded" /\ ~(found' /\ task.state = "absent")
  BY Zenon DEF LookUp
<1> QED
  BY <1>1, <1>2, <1>3, <1>4
  DEF Rest, StepOfTask, GoingKnown, AppliedSoFar, DeletedSoFar, AppliedThere,
      AbsentGone, Applies

LEMMA ApplyNextInv == IInv /\ ApplyNext => Rest'
<1> SUFFICES ASSUME IInv, ApplyNext PROVE Rest'
  OBVIOUS
<1> DEFINE o == task.args[next]
<1>1. /\ task' = task /\ at \in DOMAIN Play /\ step = "apply"
      /\ next \in DOMAIN task.args /\ disturbed' = disturbed /\ UNCHANGED at
      /\ Applies(task) /\ going \subseteq disturbed /\ next \in Nat \ {0}
      /\ object \in [Objects -> {"absent", "old", "new"}]
  BY DEF ApplyNext, task, IInv, TypeOK, StepOfTask, GoingKnown
<1>2. task.args \in Seq(Objects)
  BY <1>1, TaskType
<1>3. o \in Objects /\ Past \subseteq Objects
  BY <1>1, <1>2 DEF Past
<1>4. ~failed => \A p \in Past \ disturbed : object[p] = "new"
  BY <1>1, Zenon DEF IInv, AppliedSoFar
<1>5. CASE api /\ object[o] = "old" /\ o \in Replaced
  <2>1. /\ object' = [object EXCEPT ![o] = "absent"] /\ going' = going \ {o}
        /\ step' = "recreate" /\ next' = next /\ failed' = failed
    BY <1>5, Zenon DEF ApplyNext
  <2>2. Past' = Past
    BY <1>1, <2>1 DEF Past
  <2>3. ~failed => \A p \in Past \ disturbed : object'[p] = "new"
    BY <1>1, <1>3, <1>4, <1>5, <2>1
  <2> QED
    BY <1>1, <2>1, <2>2, <2>3
    DEF Rest, StepOfTask, GoingKnown, AppliedSoFar, DeletedSoFar, AppliedThere,
        AbsentGone, Applies
<1>6. CASE ~(api /\ object[o] = "old" /\ o \in Replaced)
  <2>1. going' = going /\ step' = "apply" /\ next' = next + 1
    BY <1>6, Zenon DEF ApplyNext, Applied
  <2>2. Past' = Past \cup {o}
    BY <1>1, <2>1, PastStep
  <2>3. ~failed' => ~failed /\ object' = [object EXCEPT ![o] = "new"]
    BY <1>6, Zenon DEF ApplyNext, Applied
  <2>4. ~failed' => \A p \in Past' \ disturbed : object'[p] = "new"
    BY <1>1, <1>3, <1>4, <2>2, <2>3
  <2> QED
    BY <1>1, <2>1, <2>4
    DEF Rest, StepOfTask, GoingKnown, AppliedSoFar, DeletedSoFar, AppliedThere,
        AbsentGone, Applies
<1> QED
  BY <1>5, <1>6

LEMMA RecreateInv == IInv /\ Recreate => Rest'
<1> SUFFICES ASSUME IInv, Recreate PROVE Rest'
  OBVIOUS
<1> DEFINE o == task.args[next]
<1>1. /\ task' = task /\ at \in DOMAIN Play /\ step = "recreate"
      /\ next \in DOMAIN task.args /\ disturbed' = disturbed /\ UNCHANGED at
      /\ Applies(task) /\ going \subseteq disturbed /\ next \in Nat \ {0}
      /\ object \in [Objects -> {"absent", "old", "new"}] /\ going' = going
  BY DEF Recreate, task, IInv, TypeOK, StepOfTask, GoingKnown
<1>2. task.args \in Seq(Objects)
  BY <1>1, TaskType
<1>3. o \in Objects /\ Past \subseteq Objects
  BY <1>1, <1>2 DEF Past
<1>4. ~failed => \A p \in Past \ disturbed : object[p] = "new"
  BY <1>1, Zenon DEF IInv, AppliedSoFar
<1>5. step' = "apply" /\ next' = next + 1
  BY Zenon DEF Recreate, Applied
<1>6. Past' = Past \cup {o}
  BY <1>1, <1>5, PastStep
<1>7. ~failed' => ~failed /\ object' = [object EXCEPT ![o] = "new"]
  BY Zenon DEF Recreate, Applied
<1>8. ~failed' => \A p \in Past' \ disturbed : object'[p] = "new"
  BY <1>1, <1>3, <1>4, <1>6, <1>7
<1> QED
  BY <1>1, <1>5, <1>8
  DEF Rest, StepOfTask, GoingKnown, AppliedSoFar, DeletedSoFar, AppliedThere,
      AbsentGone, Applies

LEMMA DeleteNextInv == IInv /\ DeleteNext => Rest'
<1> SUFFICES ASSUME IInv, DeleteNext PROVE Rest'
  OBVIOUS
<1> DEFINE o == task.args[next]
<1>1. /\ task' = task /\ at \in DOMAIN Play /\ step = "delete" /\ step' = step
      /\ next \in DOMAIN task.args /\ disturbed' = disturbed /\ UNCHANGED at
      /\ ~Applies(task) /\ next \in Nat \ {0} /\ object' = object
      /\ task.state = "absent" /\ (found \/ task.force) /\ found' = found
      /\ next' = next + 1
  BY DEF DeleteNext, task, IInv, TypeOK, StepOfTask
<1>2. task.args \in Seq(Objects)
  BY <1>1, TaskType
<1>3. o \in Objects
  BY <1>1, <1>2
<1>4. Past' = Past \cup {o}
  BY <1>1, PastStep
<1>5. ~failed => \A p \in Past \ disturbed : object[p] = "absent" \/ p \in going
  BY <1>1, Zenon DEF IInv, DeletedSoFar
<1>6. ~failed' => ~failed /\ going' = going \cup Doomed(o)
  BY Zenon DEF DeleteNext
<1>7. object[o] = "absent" \/ o \in Doomed(o)
  BY <1>3 DEF Doomed, Within
<1>8. ~failed' =>
          \A p \in Past' \ disturbed' : object'[p] = "absent" \/ p \in going'
  BY <1>1, <1>4, <1>5, <1>6, <1>7
<1> QED
  BY <1>1, <1>8
  DEF Rest, StepOfTask, GoingKnown, AppliedSoFar, DeletedSoFar, AppliedThere,
      AbsentGone, Applies

LEMMA CommandEndsInv == IInv /\ CommandEnds => Rest'
<1> SUFFICES ASSUME IInv, CommandEnds PROVE Rest'
  OBVIOUS
<1>1. /\ task' = task /\ at \in DOMAIN Play /\ step \in {"apply", "delete"}
      /\ object' = object /\ going' = going /\ disturbed' = disturbed
      /\ next \in Nat \ {0} /\ next \notin DOMAIN task.args
  BY DEF CommandEnds, task, IInv, TypeOK, clusterVars
<1>2. step' = "failed" \/ (step' = "succeeded" /\ ~failed)
  BY Zenon DEF CommandEnds, Outcome
<1>3. Past = ArgsOf(task)
  BY <1>1, PastAll
<1>4. CASE step = "apply"
  <2>1. Applies(task) /\ going \subseteq disturbed
    BY <1>1, <1>4 DEF IInv, StepOfTask, GoingKnown
  <2>2. ~failed => \A p \in ArgsOf(task) \ disturbed : object[p] = "new"
    BY <1>3, <1>4, Zenon DEF IInv, AppliedSoFar
  <2> QED
    BY <1>1, <1>2, <1>4, <2>1, <2>2
    DEF Rest, StepOfTask, GoingKnown, AppliedSoFar, DeletedSoFar, AppliedThere,
        AbsentGone, Applies, ArgsOf
<1>5. CASE step = "delete"
  <2>1. ~Applies(task) /\ ArgsOf(task) \cap going = {}
    BY <1>1, <1>5 DEF IInv, StepOfTask, CommandEnds
  <2>2. ~failed =>
            \A p \in ArgsOf(task) \ disturbed : object[p] = "absent" \/ p \in going
    BY <1>3, <1>5, Zenon DEF IInv, DeletedSoFar
  <2> QED
    BY <1>1, <1>2, <1>5, <2>1, <2>2
    DEF Rest, StepOfTask, GoingKnown, AppliedSoFar, DeletedSoFar, AppliedThere,
        AbsentGone, Applies, ArgsOf
<1> QED
  BY <1>1, <1>4, <1>5

-----------------------------------------------------------------------------
(* What the cluster does by itself, and what other clients do to it.       *)
LEMMA FinalizeInv ==
    ASSUME IInv, NEW o \in Objects, Finalize(o)
    PROVE  Rest'
<1>1. /\ o \in going /\ going' = going \ {o} /\ disturbed' = disturbed
      /\ object' = [object EXCEPT ![o] = "absent"] /\ task' = task
      /\ step' = step /\ next' = next /\ found' = found /\ failed' = failed
      /\ object \in [Objects -> {"absent", "old", "new"}]
  BY DEF Finalize, playVars, task, IInv, TypeOK
<1>2. Past' = Past /\ ArgsOf(task)' = ArgsOf(task)
  BY <1>1 DEF Past, ArgsOf
<1>3. step \in InTask => at \in DOMAIN Play
  BY DEF IInv, TypeOK, InTask
<1>4. step \in InTask => Past \subseteq Objects /\ ArgsOf(task) \subseteq Objects
  BY <1>3, ArgsType DEF Past, ArgsOf
<1>5. StepOfTask' /\ GoingKnown'
  BY <1>1 DEF IInv, StepOfTask, GoingKnown
<1>6. AppliedSoFar'
  BY <1>1, <1>2, <1>4 DEF IInv, AppliedSoFar, GoingKnown, StepOfTask, InTask
<1>7. DeletedSoFar'
  BY <1>1, <1>2, <1>4 DEF IInv, DeletedSoFar, InTask
<1>8. AppliedThere'
  BY <1>1, <1>2, <1>4 DEF IInv, AppliedThere, GoingKnown, InTask
<1>9. AbsentGone'
  BY <1>1, <1>2, <1>4 DEF IInv, AbsentGone, InTask
<1> QED
  BY <1>5, <1>6, <1>7, <1>8, <1>9 DEF Rest

LEMMA OtherClientInv ==
    ASSUME IInv, NEW o \in Objects, OtherWrites(o) \/ OtherDeletes(o)
    PROVE  Rest'
<1>1. /\ task' = task /\ step' = step /\ next' = next /\ found' = found
      /\ failed' = failed /\ disturbed \subseteq disturbed'
      /\ object \in [Objects -> {"absent", "old", "new"}]
      /\ going \subseteq going' /\ going' \subseteq going \cup disturbed'
      /\ \A p \in Objects \ disturbed' : object'[p] = object[p]
  BY DEF OtherWrites, OtherDeletes, OtherClient, Doomed, Within, playVars, task,
         IInv, TypeOK
<1>2. Past' = Past /\ ArgsOf(task)' = ArgsOf(task)
  BY <1>1 DEF Past, ArgsOf
<1>3. step \in InTask => at \in DOMAIN Play
  BY DEF IInv, TypeOK, InTask
<1>4. step \in InTask => Past \subseteq Objects /\ ArgsOf(task) \subseteq Objects
  BY <1>3, ArgsType DEF Past, ArgsOf
<1>5. StepOfTask' /\ GoingKnown'
  BY <1>1 DEF IInv, StepOfTask, GoingKnown
<1>6. AppliedSoFar'
  BY <1>1, <1>2, <1>4 DEF IInv, AppliedSoFar, InTask
<1>7. DeletedSoFar'
  BY <1>1, <1>2, <1>4 DEF IInv, DeletedSoFar, InTask
<1>8. AppliedThere'
  BY <1>1, <1>2, <1>4 DEF IInv, AppliedThere, GoingKnown, InTask
<1>9. AbsentGone'
  BY <1>1, <1>2, <1>4 DEF IInv, AbsentGone, InTask
<1> QED
  BY <1>5, <1>6, <1>7, <1>8, <1>9 DEF Rest

LEMMA InvNext == IInv /\ [Next]_vars => IInv'
<1> SUFFICES ASSUME IInv, [Next]_vars PROVE IInv'
  OBVIOUS
<1>1. TypeOK'
  BY TypeNext DEF IInv
<1>2. ASSUME StartRun \/ EndRun \/ Interrupt \/ WaitFails \/ NextTask \/ TaskFails
      PROVE  Rest'
  <2>1. step' \in {"task", "done", "stopped", "failed"}
    BY <1>2, Zenon DEF StartRun, EndRun, Interrupt, WaitFails, NextTask, TaskFails
  <2> QED
    BY <2>1, OutOfTask DEF InTask
<1>3. ASSUME UNCHANGED vars \/ Outage \/ Recover
      PROVE  Rest'
  BY <1>3 DEF vars, playVars, clusterVars, Outage, Recover, IInv, Rest, StepOfTask,
      GoingKnown, AppliedSoFar, DeletedSoFar, AppliedThere, AbsentGone, Past,
      ArgsOf, task
<1>4. Rest'
  BY <1>2, <1>3, BeginTaskInv, LookUpInv, ApplyNextInv, RecreateInv, DeleteNextInv,
     CommandEndsInv, FinalizeInv, OtherClientInv DEF Next, PlayStep
<1> QED
  BY <1>1, <1>4 DEF IInv, Rest

(* A task that succeeds has applied all of its manifests' objects.         *)
THEOREM AppliedCorrect == Spec => []AppliedThere
<1>1. IInv => AppliedThere
  BY DEF IInv
<1> QED
  BY <1>1, InvInit, InvNext, PTL DEF Spec

(* A task that succeeds in deleting what it has found has waited until     *)
(* that is gone.                                                           *)
THEOREM AbsentCorrect == Spec => []AbsentGone
<1>1. IInv => AbsentGone
  BY DEF IInv
<1> QED
  BY <1>1, InvInit, InvNext, PTL DEF Spec
-----------------------------------------------------------------------------
(* A whole run.  A play that takes back in one task what it applies in     *)
(* another cannot leave everything in place; one that does not is          *)
(* consistent.                                                             *)

Consistent ==
    \A i \in DOMAIN Play : Play[i].state = "absent" =>
        \A o \in ArgsOf(Play[i]) : Within(o) \cap Wanted = {}

Running == step \notin {"idle", "stopped"}

(* What task i was for is there, or gone.                                  *)
DoneTask(i) ==
    /\ Applies(Play[i]) =>
          \A o \in ArgsOf(Play[i]) \ foreign : object[o] = "new"
    /\ Play[i].state = "absent" /\ Play[i].by # "filename" =>
          \A o \in ArgsOf(Play[i]) \ (Wanted \cup foreign \cup unanswered) : object[o] = "absent"

(* What has changed during the task has changed during the run, and a run  *)
(* begins with what is being deleted.                                      *)
ForeignKnown ==
    /\ going \cap Wanted \subseteq foreign
    /\ step \in InTask => disturbed \cap Wanted \subseteq foreign
    /\ step \in InTask /\ ~Applies(task) => disturbed \subseteq foreign

RunInv ==
    Running =>
        /\ ForeignKnown
        /\ \A i \in DOMAIN Play : i < at => DoneTask(i)
        /\ step = "succeeded" => DoneTask(at)
        /\ step = "done" => at = Len(Play) + 1

LEMMA WantedArgs ==
    ASSUME NEW i \in DOMAIN Play, Applies(Play[i])
    PROVE  ArgsOf(Play[i]) \subseteq Wanted
BY DEF Wanted

LEMMA PlayArgs ==
    ASSUME NEW i \in DOMAIN Play
    PROVE  ArgsOf(Play[i]) \subseteq Objects
<1>1. Play[i].args \in Seq(Objects)
  <2>1. Play[i] \in Task
    BY PlayAssumption
  <2> QED
    BY <2>1 DEF Task
<1> QED
  BY <1>1 DEF ArgsOf

(* A step keeps what earlier tasks have done: only wanted objects are      *)
(* written, never back to an old state, and only unwanted ones deleted.    *)
Keeps ==
    /\ foreign \subseteq foreign' /\ unanswered \subseteq unanswered'
    /\ \A o \in Wanted \ foreign' : object[o] = "new" => object'[o] = "new"
    /\ \A o \in Objects \ (Wanted \cup foreign') :
          object[o] = "absent" => object'[o] = "absent"

LEMMA DoneKept ==
    ASSUME NEW i \in DOMAIN Play, DoneTask(i), Keeps
    PROVE  DoneTask(i)'
BY WantedArgs, PlayArgs DEF DoneTask, Keeps

(* The steps of kubectl. *)
LEMMA ApplyKeeps ==
    ASSUME IInv, RunInv, ApplyNext \/ Recreate
    PROVE  Keeps /\ Running /\ ForeignKnown' /\ UNCHANGED at
           /\ step' \in {"apply", "recreate"}
<1> DEFINE o == task.args[next]
<1>1. /\ task' = task /\ at \in DOMAIN Play /\ step \in {"apply", "recreate"}
      /\ next \in DOMAIN task.args /\ Applies(task)
      /\ UNCHANGED <<at, disturbed, foreign, unanswered>>
      /\ object \in [Objects -> {"absent", "old", "new"}]
  BY DEF ApplyNext, Recreate, task, IInv, TypeOK, StepOfTask
<1>2. o \in Wanted
  <2>1. o \in ArgsOf(Play[at])
    BY <1>1 DEF ArgsOf, task
  <2> QED
    BY <1>1, <2>1, WantedArgs DEF task
<1>3. \/ object' = object
      \/ object' = [object EXCEPT ![o] = "new"]
      \/ object[o] = "old" /\ object' = [object EXCEPT ![o] = "absent"]
  BY Zenon DEF ApplyNext, Recreate, Applied
<1>4. going' \subseteq going /\ step' \in {"apply", "recreate"}
  BY DEF ApplyNext, Recreate, Applied
<1>5. Wanted \subseteq Objects
  BY PlayArgs DEF Wanted
<1>6. Keeps
  BY <1>1, <1>2, <1>3, <1>5 DEF Keeps
<1>7. Running /\ ForeignKnown
  BY <1>1 DEF RunInv, Running
<1>8. ForeignKnown'
  BY <1>1, <1>4, <1>7 DEF ForeignKnown, InTask
<1> QED
  BY <1>1, <1>4, <1>6, <1>7, <1>8

LEMMA DeleteKeeps ==
    ASSUME Consistent, IInv, RunInv, DeleteNext
    PROVE  Keeps /\ Running /\ ForeignKnown' /\ UNCHANGED at /\ step' = "delete"
<1> DEFINE o == task.args[next]
<1>1. /\ task' = task /\ at \in DOMAIN Play /\ step = "delete" /\ step' = step
      /\ next \in DOMAIN task.args /\ ~Applies(task)
      /\ UNCHANGED <<at, disturbed, foreign, unanswered, object>>
  BY DEF DeleteNext, task, IInv, TypeOK, StepOfTask
<1>2. task.state = "absent"
  BY <1>1 DEF IInv, StepOfTask
<1>3. Within(o) \cap Wanted = {}
  <2>1. o \in ArgsOf(Play[at])
    BY <1>1 DEF ArgsOf, task
  <2> QED
    BY <1>1, <1>2, <2>1 DEF Consistent, task
<1>4. going' \cap Wanted \subseteq going
  BY <1>3 DEF DeleteNext, Doomed
<1>5. Running /\ ForeignKnown
  BY <1>1 DEF RunInv, Running
<1>6. ForeignKnown'
  BY <1>1, <1>4, <1>5 DEF ForeignKnown, InTask
<1> QED
  BY <1>1, <1>5, <1>6 DEF Keeps
(* The cluster and the other clients. *)
LEMMA ClusterKeeps ==
    ASSUME IInv, NEW o \in Objects, Finalize(o) \/ OtherWrites(o) \/ OtherDeletes(o),
           going \cap Wanted \subseteq foreign
    PROVE  Keeps /\ going' \cap Wanted \subseteq foreign'
<1>1. object \in [Objects -> {"absent", "old", "new"}]
  BY DEF IInv, TypeOK
<1>2. CASE Finalize(o)
  BY <1>1, <1>2 DEF Finalize, Keeps
<1>3. CASE OtherWrites(o)
  BY <1>1, <1>3 DEF OtherWrites, OtherClient, Keeps
<1>4. CASE OtherDeletes(o)
  BY <1>1, <1>4 DEF OtherDeletes, OtherClient, Doomed, Within, Keeps
<1> QED
  BY <1>2, <1>3, <1>4

(* The task that succeeds is done: what it has not found is gone already,  *)
(* and what it has had no answer about is unanswered.                      *)
LEMMA SucceededDone ==
    ASSUME IInv, IInv', ForeignKnown', at \in DOMAIN Play, UNCHANGED at,
           step' = "succeeded", LookUp \/ CommandEnds
    PROVE  DoneTask(at)'
<1>1. task' = task /\ task = Play[at]
  BY DEF task
<1>2. ArgsOf(task) \subseteq Objects
  BY ArgsType
<1>3. ASSUME Applies(task)
      PROVE  \A o \in ArgsOf(task) \ foreign' : object'[o] = "new"
  <2>1. \A o \in ArgsOf(task) \ disturbed' : object'[o] = "new"
    BY <1>1, <1>3 DEF IInv, AppliedThere
  <2>2. disturbed' \cap Wanted \subseteq foreign'
    BY DEF ForeignKnown, InTask
  <2>3. ArgsOf(task) \subseteq Wanted
    BY <1>1, <1>3, WantedArgs
  <2> QED
    BY <2>1, <2>2, <2>3
<1>4. ASSUME task.state = "absent", task.by # "filename"
      PROVE  \A o \in ArgsOf(task) \ (foreign' \cup unanswered') : object'[o] = "absent"
  <2>1. CASE found' \/ task.force
    <3>1. \A o \in ArgsOf(task) \ disturbed' : object'[o] = "absent"
      BY <1>1, <1>4, <2>1 DEF IInv, AbsentGone
    <3>2. ~Applies(task')
      BY <1>1, <1>4 DEF Applies
    <3>3. disturbed' \subseteq foreign'
      BY <3>2 DEF ForeignKnown, InTask
    <3> QED
      BY <3>1, <3>3
  <2>2. CASE ~found' /\ ~task.force
    <3>1. LookUp
      BY <1>1, <1>4, <2>2 DEF CommandEnds, clusterVars, IInv, StepOfTask, Applies
    <3>2. found' = (api /\ Exists(task)) /\ object' = object
          /\ unanswered' = unanswered \cup IF api THEN {} ELSE ArgsOf(task)
      BY <3>1 DEF LookUp, clusterVars
    <3>3. CASE ~api
      BY <3>2, <3>3
    <3>4. CASE api
      <4>1. ~Exists(task)
        BY <2>2, <3>2, <3>4
      <4>2. CASE task.by = "label"
        BY <3>2, <4>1, <4>2, <1>2 DEF Exists, IInv, TypeOK
      <4>3. CASE task.by = "name"
        <5>1. Len(task.args) = 1 /\ task.args \in Seq(Objects)
          BY <1>1, <4>3, PlayAssumption, TaskType
        <5>2. DOMAIN task.args = {1}
          BY <5>1
        <5>3. ArgsOf(task) = {task.args[1]}
          BY <5>2 DEF ArgsOf
        <5> QED
          BY <3>2, <4>1, <4>3, <5>3 DEF Exists
      <4>4. task.by \in {"filename", "name", "label"}
        BY TaskType DEF Task
      <4> QED
        BY <1>4, <4>2, <4>3, <4>4
    <3> QED
      BY <3>3, <3>4
  <2> QED
    BY <2>1, <2>2
<1> QED
  BY <1>1, <1>3, <1>4 DEF DoneTask, ArgsOf
LEMMA RunInit == Init => RunInv
BY DEF Init, RunInv, Running

(* Steps of the play that only go on to another step of it. *)
LEMMA StepKeeps ==
    ASSUME UNCHANGED <<object, going>>, foreign \subseteq foreign',
           unanswered \subseteq unanswered'
    PROVE  Keeps
BY DEF Keeps

LEMMA RunNext ==
    ASSUME Consistent, IInv, IInv', RunInv, [Next]_vars
    PROVE  RunInv'
<1>1. CASE StartRun
  <2>1. /\ at' = 1 /\ step' = "task" /\ going' = going /\ foreign' = going
    BY <1>1 DEF StartRun, clusterVars
  <2>2. \A i \in DOMAIN Play : ~(i < 1)
    BY PlayAssumption
  <2> QED
    BY <2>1, <2>2 DEF RunInv, ForeignKnown, InTask
<1>2. CASE Interrupt
  BY <1>2 DEF Interrupt, RunInv, Running
<1>3. ASSUME Running, ForeignKnown', Keeps, UNCHANGED at,
             step' = "succeeded" => step = "succeeded" \/ DoneTask(at)',
             step' = "done" => at = Len(Play) + 1,
             at \in DOMAIN Play \/ step' # "succeeded"
      PROVE  RunInv'
  <2>1. \A i \in DOMAIN Play : DoneTask(i) => DoneTask(i)'
    BY <1>3, DoneKept
  <2>2. step' = "succeeded" => DoneTask(at)'
    BY <1>3, <2>1 DEF RunInv
  <2> QED
    BY <1>3, <2>1, <2>2 DEF RunInv
<1>4. CASE EndRun
  <2>1. Keeps /\ Running /\ UNCHANGED at /\ step' = "done" /\ at = Len(Play) + 1
    BY <1>4, StepKeeps DEF EndRun, clusterVars, Running
  <2>2. ForeignKnown'
    BY <1>4, <2>1 DEF EndRun, clusterVars, RunInv, ForeignKnown, InTask
  <2> QED
    BY <1>3, <2>1, <2>2
<1>5. CASE BeginTask
  <2>1. Keeps /\ Running /\ UNCHANGED <<at, going, foreign>>
    BY <1>5, StepKeeps DEF BeginTask, clusterVars, Running
  <2>2. step' \in {"apply", "get", "delete"}
    BY <1>5, Zenon DEF BeginTask, FirstStep
  <2>3. ForeignKnown'
    BY <1>5, <2>1 DEF BeginTask, RunInv, ForeignKnown, task
  <2> QED
    BY <1>3, <2>1, <2>2, <2>3
<1>6. CASE LookUp
  <2>1. /\ Keeps /\ Running /\ UNCHANGED at /\ step' \in {"delete", "succeeded"}
        /\ at \in DOMAIN Play
    BY <1>6, StepKeeps DEF LookUp, clusterVars, Running, IInv, TypeOK
  <2>2. ForeignKnown'
    BY <1>6, <2>1 DEF LookUp, clusterVars, RunInv, ForeignKnown, task, InTask
  <2>3. step' = "succeeded" => DoneTask(at)'
    BY <1>6, <2>1, <2>2, SucceededDone
  <2> QED
    BY <1>3, <2>1, <2>2, <2>3
<1>7. CASE ApplyNext \/ Recreate
  BY <1>3, <1>7, ApplyKeeps
<1>8. CASE DeleteNext
  BY <1>3, <1>8, DeleteKeeps
<1>9. CASE CommandEnds
  <2>1. /\ Keeps /\ Running /\ UNCHANGED at /\ step' \in {"failed", "succeeded"}
        /\ at \in DOMAIN Play
    BY <1>9, StepKeeps DEF CommandEnds, Outcome, clusterVars, Running, IInv, TypeOK
  <2>2. ForeignKnown'
    BY <1>9, <2>1 DEF CommandEnds, clusterVars, RunInv, ForeignKnown, task, InTask
  <2>3. step' = "succeeded" => DoneTask(at)'
    BY <1>9, <2>1, <2>2, SucceededDone
  <2> QED
    BY <1>3, <2>1, <2>2, <2>3
<1>10. CASE WaitFails \/ TaskFails
  <2>1. /\ Keeps /\ Running /\ UNCHANGED at /\ step' \in {"failed", "task", "stopped"}
    BY <1>10, StepKeeps DEF WaitFails, TaskFails, clusterVars, Running
  <2>2. ForeignKnown'
    BY <1>10, <2>1 DEF WaitFails, TaskFails, clusterVars, RunInv, ForeignKnown, task,
       InTask
  <2> QED
    BY <1>3, <2>1, <2>2
<1>11. CASE NextTask
  <2>1. /\ Keeps /\ Running /\ at' = at + 1 /\ step' = "task" /\ DoneTask(at)
        /\ at \in DOMAIN Play
    BY <1>11, StepKeeps DEF NextTask, clusterVars, Running, RunInv, IInv, TypeOK
  <2>2. ForeignKnown'
    BY <1>11, <2>1 DEF NextTask, clusterVars, RunInv, ForeignKnown, InTask
  <2>3. at \in Nat /\ \A i \in DOMAIN Play : i \in Nat
    BY PlayAssumption DEF IInv, TypeOK
  <2>4. \A i \in DOMAIN Play : i < at + 1 => i < at \/ i = at
    BY <2>3
  <2>5. \A i \in DOMAIN Play : i < at' => DoneTask(i)
    BY <2>1, <2>4 DEF RunInv
  <2>6. \A i \in DOMAIN Play : i < at' => DoneTask(i)'
    BY <2>1, <2>5, DoneKept
  <2> QED
    BY <2>1, <2>2, <2>6 DEF RunInv
<1>12. ASSUME NEW o \in Objects, Finalize(o) \/ OtherWrites(o) \/ OtherDeletes(o),
              Running
       PROVE  RunInv'
  <2>1. UNCHANGED <<at, step>> /\ disturbed' \ disturbed \subseteq foreign'
        /\ foreign \subseteq foreign' /\ UNCHANGED unanswered
    BY <1>12 DEF Finalize, OtherWrites, OtherDeletes, OtherClient, playVars
  <2>2. ForeignKnown
    BY <1>12 DEF RunInv
  <2>3. Keeps /\ going' \cap Wanted \subseteq foreign'
    BY <1>12, <2>2, ClusterKeeps DEF ForeignKnown
  <2>4. ForeignKnown'
    BY <2>1, <2>2, <2>3 DEF ForeignKnown, task
  <2>5. at \in DOMAIN Play \/ step' # "succeeded"
    BY <2>1 DEF IInv, TypeOK
  <2>6. step' = "done" => at = Len(Play) + 1
    BY <1>12, <2>1 DEF RunInv
  <2> QED
    BY <1>3, <1>12, <2>1, <2>3, <2>4, <2>5, <2>6
<1>13. ASSUME Outage \/ Recover \/ UNCHANGED vars, Running
       PROVE  RunInv'
  <2>1. UNCHANGED <<at, step, object, going, disturbed, foreign, unanswered>>
    BY <1>13 DEF Outage, Recover, vars, playVars, clusterVars
  <2>2. Keeps /\ ForeignKnown'
    BY <1>13, <2>1, StepKeeps DEF RunInv, ForeignKnown, task
  <2>3. at \in DOMAIN Play \/ step' # "succeeded"
    BY <2>1 DEF IInv, TypeOK
  <2>4. step' = "done" => at = Len(Play) + 1
    BY <1>13, <2>1 DEF RunInv
  <2> QED
    BY <1>3, <1>13, <2>1, <2>2, <2>3, <2>4
<1>14. CASE ~Running /\ step' = step
  BY <1>14 DEF RunInv, Running
<1>15. ASSUME \/ Outage \/ Recover \/ UNCHANGED vars
              \/ \E o \in Objects : Finalize(o) \/ OtherWrites(o) \/ OtherDeletes(o)
       PROVE  step' = step
  BY <1>15 DEF Outage, Recover, vars, playVars, clusterVars, Finalize, OtherWrites,
     OtherDeletes, OtherClient
<1> QED
  BY <1>1, <1>2, <1>4, <1>5, <1>6, <1>7, <1>8, <1>9, <1>10, <1>11, <1>12, <1>13,
     <1>14, <1>15 DEF Next, PlayStep

(* A play that does not take back what it applies has, when it ends well,  *)
(* repaired what was left half done before: all that its tasks apply is    *)
(* there, and all that they remove by name or label is gone.  It says      *)
(* nothing of objects that other clients have changed since it began or    *)
(* that were being deleted then, of objects to remove that one of its      *)
(* look-ups got no answer about, and of objects to remove by file.         *)
THEOREM PlayDeploys == Consistent => (Spec => []Deployed)
<1> SUFFICES ASSUME Consistent PROVE Spec => []Deployed
  OBVIOUS
<1>1. Init => IInv /\ RunInv
  BY InvInit, RunInit
<1>2. IInv /\ RunInv /\ [Next]_vars => IInv' /\ RunInv'
  BY InvNext, RunNext
<1>3. IInv /\ RunInv => Deployed
  <2> SUFFICES ASSUME IInv, RunInv, step = "done" PROVE Deployed
    BY DEF Deployed
  <2>1. ForeignKnown /\ at = Len(Play) + 1 /\ \A i \in DOMAIN Play : i < at => DoneTask(i)
    BY DEF RunInv, Running
  <2>2. \A i \in DOMAIN Play : i < at
    BY <2>1, PlayAssumption
  <2>3. \A i \in DOMAIN Play : DoneTask(i)
    BY <2>1, <2>2
  <2>4. \A o \in Wanted \ foreign : object[o] = "new" /\ o \notin going
    BY <2>1, <2>3 DEF ForeignKnown, DoneTask, Wanted
  <2>5. \A o \in Unwanted \ (foreign \cup unanswered) : object[o] = "absent"
    <3> SUFFICES ASSUME NEW o \in Unwanted \ (foreign \cup unanswered)
                 PROVE object[o] = "absent"
      OBVIOUS
    <3>1. PICK j \in DOMAIN Play :
             Play[j].state = "absent" /\ Play[j].by # "filename" /\ o \in ArgsOf(Play[j])
      BY DEF Unwanted
    <3>2. o \notin Wanted
      BY DEF Unwanted
    <3> QED
      BY <2>3, <3>1, <3>2 DEF DoneTask
  <2> QED
    BY <2>4, <2>5 DEF Deployed
<1> QED
  BY <1>1, <1>2, <1>3, PTL DEF Spec
=============================================================================
