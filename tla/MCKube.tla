------------------------------- MODULE MCKube -------------------------------
(***************************************************************************)
(* An instance of KubeModule for TLC: a namespace and a deployment in it   *)
(* that can only be replaced, which a play creates after it has removed    *)
(* two objects of an older release, as roles/kubernetes-apps do.           *)
(***************************************************************************)
EXTENDS KubeModule, TLC

CONSTANTS ns, deploy, role, binding

Apps == {ns, deploy, role, binding}
Namespaces == [o \in Apps |-> IF o = deploy THEN ns ELSE o]
Deployments == {deploy}

Kube(state, by, args, force, n) ==
    [state |-> state, by |-> by, args |-> args, force |-> force, tries |-> n]

AppsPlay ==
    <<Kube("absent", "label", <<role, binding>>, FALSE, 1),
      Kube("absent", "name", <<binding>>, TRUE, 1),
      Kube("absent", "name", <<role>>, FALSE, 1),
      Kube("exists", "name", <<ns>>, FALSE, 1),
      Kube("latest", "filename", <<ns, deploy>>, FALSE, 2)>>
=============================================================================
