------------------------------ MODULE Resources ------------------------------
(***************************************************************************)
(* What the operator reads of an Agent and makes of it: the objects it     *)
(* builds, the comparison that decides whether a pod has diverged, and the *)
(* status it derives (operator/src: resources.rs, controller.rs, crd.rs).  *)
(***************************************************************************)
EXTENDS Cluster

\* What a reconciliation uses of the Agent: everything but the status.
Views == [uid : Uids, state : States, tmpl : Specs]

ASSUME NoneIsNoView == None \notin Views

view(a) == IF a = None THEN None ELSE [uid |-> a.uid, state |-> a.state, tmpl |-> a.tmpl]

\* Every object the operator creates is owned by the snapshot's incarnation.
owner_reference(a) == a.uid

build_pod(a) == [owner |-> owner_reference(a), tmpl |-> stored(a.tmpl), phase |-> "Pending",
                 backoff |-> FALSE, ip |-> None, deleting |-> FALSE]

build_child(a) == [owner |-> owner_reference(a), deleting |-> FALSE]

\* Image, cpu limit and memory limit are compared, as strings; nothing else is.
pod_needs_update(existing, a) ==
    \/ existing.tmpl.image # a.tmpl.image
    \/ existing.tmpl.cpu # a.tmpl.cpu
    \/ existing.tmpl.memory # a.tmpl.memory

\* Mutant: the pod's phase is passed on as it is.
derive_status_raw(p) == [phase |-> p.phase, pod_ip |-> p.ip]

\* (No pod of the model gets to the last two arms: the API server gives a new pod a
\* phase, Pending, and Kubernetes knows no others.)
derive_status_from_pod(p) ==
    [phase |-> IF p.backoff THEN "CrashLoopBackOff"
               ELSE CASE p.phase = "Pending"   -> "Creating"
                      [] p.phase = "Running"   -> "Running"
                      [] p.phase = "Succeeded" -> "Stopped"
                      [] p.phase = "Failed"    -> "Failed"
                      [] p.phase = None        -> "Unknown"
                      [] OTHER                 -> p.phase,
     pod_ip |-> p.ip]

\* Patch::Merge of a status whose None fields are not serialised: they keep
\* the value they had.
merge(old, new) == [phase |-> new.phase,
                    pod_ip |-> IF new.pod_ip = None THEN old.pod_ip ELSE new.pod_ip]
=============================================================================
