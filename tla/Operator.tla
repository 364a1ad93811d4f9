------------------------------ MODULE Operator ------------------------------
(***************************************************************************)
(* The agent operator (operator/src): reconcile() and everything it calls, *)
(* one action per call it awaits, for every running operator process.      *)
(*                                                                         *)
(* An operator works on a snapshot of the Agent taken from its reflector   *)
(* cache when the reconciliation starts; between two of its calls the      *)
(* users, the kubelet, the garbage collector and other operators move.     *)
(*                                                                         *)
(* The controller runtime (kube-rs) is external: it keeps the cache, and   *)
(* it runs at most one reconciliation of an object at a time.              *)
(***************************************************************************)
EXTENDS Resources

CONSTANTS
    Operators,   \* the operator processes (the manifest asks for one)
    MaxFaults    \* bound: failed calls and operator crashes

ASSUME FaultsAssumption == MaxFaults \in Nat

VARIABLES
    store,   \* per operator: its cached view of the Agent
    due,     \* per operator: when it reconciles next: "none", "later" (timer), "now"
    pc,      \* per operator: the next call of the reconciliation, or "idle"
    snap,    \* per operator: the Agent being reconciled
    draft,   \* per operator: the status about to be written
    faults   \* failures so far (bounded by MaxFaults)

operatorVars == <<store, due, pc, snap, draft, faults>>
vars == <<agent, pod, child, lastUid, edits, store, due, pc, snap, draft, faults>>

\* Where the get and the create of each kind of child stand in reconcile().
GetAt    == [pvc |-> "get_pvc", networkpolicy |-> "get_networkpolicy", service |-> "get_service"]
CreateAt == [pvc |-> "create_pvc", networkpolicy |-> "create_networkpolicy",
             service |-> "create_service"]

\* Mutant: the service is forgotten.
NextAfter_no_service == [pvc |-> "get_pod", networkpolicy |-> "read_pod", service |-> "read_pod"]

NextAfter == [pvc |-> "get_pod", networkpolicy |-> "get_service", service |-> "read_pod"]

Labels == {"idle", "get_pvc", "create_pvc", "get_pod", "delete_pod", "replace_pod", "create_pod",
           "get_networkpolicy", "create_networkpolicy", "get_service", "create_service",
           "read_pod", "patch_status"}

\* The part of reconcile() that comes after the pod has been dealt with.
AfterPod == {"get_networkpolicy", "create_networkpolicy", "get_service", "create_service",
             "read_pod", "patch_status"}

TypeOK ==
    /\ ClusterTypeOK
    /\ store \in [Operators -> Views \cup {None}]
    /\ due \in [Operators -> {"none", "later", "now"}]
    /\ pc \in [Operators -> Labels]
    /\ snap \in [Operators -> Views \cup {None}]
    /\ \A o \in Operators : pc[o] # "idle" => snap[o] \in Views
    /\ draft \in [Operators -> Status \cup {None}]
    /\ \A o \in Operators : pc[o] = "patch_status" => draft[o] \in Status
    /\ faults \in 0 .. MaxFaults

OperatorInit ==
    /\ store = [o \in Operators |-> None]
    /\ due = [o \in Operators |-> "none"]
    /\ pc = [o \in Operators |-> "idle"]
    /\ snap = [o \in Operators |-> None]
    /\ draft = [o \in Operators |-> None]
    /\ faults = 0

Init == ClusterInit /\ OperatorInit

-----------------------------------------------------------------------------
(***************************************************************************)
(* The controller runtime.                                                 *)
(***************************************************************************)

\* The watch delivers the Agent's current state (an arbitrary time after it
\* was written); a changed object is reconciled, a deleted one is forgotten.
Watch(o) ==
    /\ store[o] # view(agent)
    /\ store' = [store EXCEPT ![o] = view(agent)]
    /\ due' = [due EXCEPT ![o] = IF agent = None THEN @ ELSE "now"]
    /\ UNCHANGED <<clusterVars, pc, snap, draft, faults>>

\* The requeue timer fires, or an owned object or the status changed.
Wake(o) ==
    /\ due[o] = "later"
    /\ due' = [due EXCEPT ![o] = "now"]
    /\ UNCHANGED <<clusterVars, store, pc, snap, draft, faults>>

Start(o) ==
    /\ pc[o] = "idle"
    /\ due[o] = "now"
    /\ store[o] # None
    /\ due' = [due EXCEPT ![o] = "none"]
    /\ snap' = [snap EXCEPT ![o] = store[o]]
    /\ pc' = [pc EXCEPT ![o] = "get_pvc"]
    /\ UNCHANGED <<clusterVars, store, draft, faults>>

\* The object left the cache before its turn came.
DropStale(o) ==
    /\ pc[o] = "idle"
    /\ due[o] = "now"
    /\ store[o] = None
    /\ due' = [due EXCEPT ![o] = "none"]
    /\ UNCHANGED <<clusterVars, store, pc, snap, draft, faults>>

\* Mutant: Action::await_change() in place of the 30 s requeue.
requeue_never(o) ==
    /\ pc' = [pc EXCEPT ![o] = "idle"]
    /\ snap' = [snap EXCEPT ![o] = None]
    /\ draft' = [draft EXCEPT ![o] = None]
    /\ UNCHANGED <<due, store>>

(* The reconciliation is over: its local state goes, and the object is     *)
(* queued again, after 30 s (Ok) or after 15 s (error_policy); an event    *)
(* that came meanwhile is served first.                                    *)
requeue(o) ==
    /\ pc' = [pc EXCEPT ![o] = "idle"]
    /\ snap' = [snap EXCEPT ![o] = None]
    /\ draft' = [draft EXCEPT ![o] = None]
    /\ due' = [due EXCEPT ![o] = IF @ = "now" THEN "now" ELSE "later"]
    /\ UNCHANGED store

\* Mutant: a failed reconciliation is not retried.
error_policy_gives_up(o) == requeue_never(o)

\* A call returned an error: `?` leaves reconcile() there and then.
error_policy(o) == requeue(o)

goto(o, label) ==
    /\ pc' = [pc EXCEPT ![o] = label]
    /\ UNCHANGED <<store, due, snap, draft>>

-----------------------------------------------------------------------------
(***************************************************************************)
(* reconcile_pvc, reconcile_network_policy and reconcile_service: get_opt, *)
(* then create what was not there.                                         *)
(***************************************************************************)
\* Mutant: a server-side apply, whatever is there.
GetChild_applies(o, k) ==
    /\ pc[o] = GetAt[k]
    /\ child' = [child EXCEPT ![k] = build_child(snap[o])]
    /\ goto(o, NextAfter[k])
    /\ UNCHANGED <<agent, pod, lastUid, edits, faults>>

GetChild(o, k) ==
    /\ pc[o] = GetAt[k]
    /\ goto(o, IF child[k] = None THEN CreateAt[k] ELSE NextAfter[k])
    /\ UNCHANGED <<clusterVars, faults>>

CreateChild(o, k) ==
    /\ pc[o] = CreateAt[k]
    /\ \/ /\ child[k] = None
          /\ child' = [child EXCEPT ![k] = build_child(snap[o])]
          /\ goto(o, NextAfter[k])
       \/ /\ child[k] # None    \* 409 AlreadyExists
          /\ error_policy(o)
          /\ UNCHANGED child
    /\ UNCHANGED <<agent, pod, lastUid, edits, faults>>

-----------------------------------------------------------------------------
(***************************************************************************)
(* reconcile_pod and delete_pod_if_exists.                                 *)
(***************************************************************************)

\* Mutants: the pod of a stopped agent is left alone until it runs; the pod that
\* matches is replaced and the diverged one kept.
after_get_pod_waits(a) ==
    IF a.state = "stopped"
    THEN IF pod = None \/ pod.phase = "Pending" THEN "get_networkpolicy" ELSE "delete_pod"
    ELSE IF pod = None THEN "create_pod"
         ELSE IF pod_needs_update(pod, a) THEN "replace_pod" ELSE "get_networkpolicy"
after_get_pod_inverted(a) ==
    IF a.state = "stopped"
    THEN IF pod = None THEN "get_networkpolicy" ELSE "delete_pod"
    ELSE IF pod = None THEN "create_pod"
         ELSE IF pod_needs_update(pod, a) THEN "get_networkpolicy" ELSE "replace_pod"

\* Mutant: a pod that is there is taken as it is, like the volume.
after_get_pod_ignores(a) ==
    IF a.state = "stopped"
    THEN IF pod = None THEN "get_networkpolicy" ELSE "delete_pod"
    ELSE IF pod = None THEN "create_pod" ELSE "get_networkpolicy"

\* What to do about the pod, given what get_opt returned.
after_get_pod(a) ==
    IF a.state = "stopped"
    THEN IF pod = None THEN "get_networkpolicy" ELSE "delete_pod"
    ELSE IF pod = None THEN "create_pod"
         ELSE IF pod_needs_update(pod, a) THEN "replace_pod" ELSE "get_networkpolicy"

GetPod(o) ==
    /\ pc[o] = "get_pod"
    /\ goto(o, after_get_pod(snap[o]))
    /\ UNCHANGED <<clusterVars, faults>>

\* Mutant: the volume is deleted along with the pod.
DeletePod_with_volume(o) ==
    /\ pc[o] \in {"delete_pod", "replace_pod"}
    /\ pod # None
    /\ delete_pod
    /\ child' = [child EXCEPT !["pvc"] = IF @ = None THEN None ELSE [@ EXCEPT !.deleting = TRUE]]
    /\ goto(o, IF pc[o] = "delete_pod" THEN "get_networkpolicy" ELSE "create_pod")
    /\ UNCHANGED <<agent, lastUid, edits, faults>>

\* The pod of a stopped agent (delete_pod) or a diverged one (replace_pod,
\* which goes on to create its successor two seconds later).
DeletePod(o) ==
    /\ pc[o] \in {"delete_pod", "replace_pod"}
    /\ \/ /\ pod # None
          /\ delete_pod
          /\ goto(o, IF pc[o] = "delete_pod" THEN "get_networkpolicy" ELSE "create_pod")
       \/ /\ pod = None    \* 404 NotFound
          /\ error_policy(o)
          /\ UNCHANGED pod
    /\ UNCHANGED <<agent, child, lastUid, edits, faults>>

\* Mutant: a server-side apply, which takes the old pod for the new one.
CreatePod_applies(o) ==
    /\ pc[o] = "create_pod"
    /\ pod' = build_pod(snap[o])
    /\ goto(o, "get_networkpolicy")
    /\ UNCHANGED <<agent, child, lastUid, edits, faults>>

CreatePod(o) ==
    /\ pc[o] = "create_pod"
    /\ \/ /\ pod = None
          /\ pod' = build_pod(snap[o])
          /\ goto(o, "get_networkpolicy")
       \/ /\ pod # None    \* 409 AlreadyExists, the usual outcome while it terminates
          /\ error_policy(o)
          /\ UNCHANGED pod
    /\ UNCHANGED <<agent, child, lastUid, edits, faults>>

-----------------------------------------------------------------------------
(***************************************************************************)
(* update_status.  The read of the Service fills in node_ports only, and   *)
(* its failure is ignored: it is left out.                                 *)
(***************************************************************************)
\* Mutant: the status of a stopped agent is derived like any other.
status_of_any(a) ==
    IF pod = None THEN [phase |-> "Creating", pod_ip |-> None] ELSE derive_status_from_pod(pod)

status_of(a) ==
    IF a.state = "stopped" THEN [phase |-> "Stopped", pod_ip |-> None]
    ELSE IF pod = None THEN [phase |-> "Creating", pod_ip |-> None]
    ELSE derive_status_from_pod(pod)

ReadPod(o) ==
    /\ pc[o] = "read_pod"
    /\ draft' = [draft EXCEPT ![o] = status_of(snap[o])]
    /\ pc' = [pc EXCEPT ![o] = "patch_status"]
    /\ UNCHANGED <<clusterVars, store, due, snap, faults>>

\* Addressed by name: it reaches whichever incarnation has the name now.
PatchStatus(o) ==
    /\ pc[o] = "patch_status"
    /\ agent' = IF agent = None THEN None    \* 404 NotFound
                ELSE [agent EXCEPT !.status = merge(@, draft[o])]
    /\ requeue(o)
    /\ UNCHANGED <<pod, child, lastUid, edits, faults>>

-----------------------------------------------------------------------------
(***************************************************************************)
(* Failures.  A call that took effect and whose answer was lost is the     *)
(* call's action followed by CallFails at the next one.                    *)
(***************************************************************************)
CallFails(o) ==
    /\ pc[o] # "idle"
    /\ faults < MaxFaults
    /\ faults' = faults + 1
    /\ error_policy(o)
    /\ UNCHANGED clusterVars

\* The process dies between two calls; its successor starts with an empty
\* cache, and its first watch lists the Agent again.
Crash(o) ==
    /\ faults < MaxFaults
    /\ faults' = faults + 1
    /\ store' = [store EXCEPT ![o] = None]
    /\ due' = [due EXCEPT ![o] = "none"]
    /\ pc' = [pc EXCEPT ![o] = "idle"]
    /\ snap' = [snap EXCEPT ![o] = None]
    /\ draft' = [draft EXCEPT ![o] = None]
    /\ UNCHANGED clusterVars

-----------------------------------------------------------------------------
reconcile(o) ==
    \/ \E k \in Kinds : GetChild(o, k) \/ CreateChild(o, k)
    \/ GetPod(o)
    \/ DeletePod(o)
    \/ CreatePod(o)
    \/ ReadPod(o)
    \/ PatchStatus(o)

\* What the runtime does of its own accord, one step after another.
Work(o) == Wake(o) \/ Start(o) \/ DropStale(o) \/ reconcile(o)

OperatorStep(o) == Watch(o) \/ Work(o) \/ CallFails(o) \/ Crash(o)

Next ==
    \/ Environment /\ UNCHANGED operatorVars
    \/ \E o \in Operators : OperatorStep(o)

Spec == Init /\ [][Next]_vars

\* The runtime is a single async task per process: it gets on with its work
\* and with its watch as long as the process lives.
Fairness ==
    /\ WF_vars(StartPod /\ UNCHANGED operatorVars)
    /\ WF_vars(RemovePod /\ UNCHANGED operatorVars)
    /\ WF_vars(CollectPod /\ UNCHANGED operatorVars)
    /\ WF_vars(RemoveVolume /\ UNCHANGED operatorVars)
    /\ \A k \in Kinds : WF_vars(CollectChild(k) /\ UNCHANGED operatorVars)
    /\ \A o \in Operators : WF_vars(Watch(o)) /\ WF_vars(Work(o))

FairSpec == Spec /\ Fairness

-----------------------------------------------------------------------------
(***************************************************************************)
(* Safety.                                                                 *)
(***************************************************************************)

\* No agent is forgotten: while an operator has the Agent in its cache, it is
\* reconciling it or will.  (The 30 s and 15 s requeues of reconcile() and
\* error_policy(), across failures, crashes and deletions mid-flight.)
NeverForgotten ==
    \A o \in Operators : store[o] # None => pc[o] # "idle" \/ due[o] # "none"

\* What a reconciliation learnt of the pod stays true until it has acted on it,
\* several awaits later: a pod found diverged is not replaced by a good one
\* meanwhile, and the pod of a stopped agent, once seen absent or deleted, does
\* not come back before "Stopped" is reported.  (With a single operator: nobody
\* else creates pods.)
ReadsStayTrue ==
    \A o \in Operators :
       /\ pc[o] = "replace_pod" /\ pod # None => pod.deleting \/ pod_needs_update(pod, snap[o])
       /\ pc[o] \in AfterPod /\ snap[o].state = "stopped" /\ pod # None => pod.deleting
       /\ pc[o] = "patch_status" /\ draft[o].phase = "Stopped" /\ pod # None => pod.deleting

\* And what it leaves behind is what it was asked for: once the pod has been dealt
\* with, and until the status is written, a live pod has the image and the limits
\* of the snapshot, although others delete pods and edit the agent meanwhile.
\* (A single operator, and quantities the API server stores as they are.)
LeavesWhatIsAsked ==
    \A o \in Operators :
       pc[o] \in AfterPod /\ snap[o].state = "running" /\ pod # None /\ ~pod.deleting
          => ~pod_needs_update(pod, snap[o])

\* "Pods will be recreated on every reconciliation loop" if pod_needs_update is
\* wrong (controller.rs:485): a live pod that was built from this very spec is
\* not deleted to be rebuilt.  (True of quantities the API server stores as they
\* are, and of no others: a run refutes it for a cpu of 0.5.)
RecreatesOnlyOnChange ==
    [][\A o \in Operators :
          DeletePod(o) /\ pc[o] = "replace_pod" /\ pod # None /\ ~pod.deleting
             => pod.tmpl # stored(snap[o].tmpl)]_vars

\* The status is written last, after the volume, the pod, the network policy and
\* the service: as long as the name has been used once, an agent about which
\* anything has been reported has all its children, so that a pod reported to run
\* is isolated, whatever failed, crashed or overlapped before.  (A second agent of
\* that name may be reported on by a reconciliation of the first.)
ReportedInPlace ==
    agent # None /\ lastUid = 1 /\ agent.status.phase # "" => \A k \in Kinds : child[k] # None

\* "Persistent local storage per agent (survives restarts)" (README.md:130), of an
\* agent whose name is used for the first time: through stops, restarts, edits and
\* collections, its pod never loses the volume it writes to.
FirstVolumeKept ==
    agent # None /\ lastUid = 1 /\ pod # None => child["pvc"] # None /\ ~child["pvc"].deleting

\* An object of the platform that happens to have the name of a child is neither
\* taken over nor removed with the agent.
ForeignKept == \A k \in Taken : child[k] = Foreign

\* The operator keeps the promise of AtomicOperator: although it awaits other
\* calls between what it reads and what it writes, each write is one that an
\* operator looking and acting in a single step could have made.
Atomic == INSTANCE AtomicOperator WITH job <- snap

ActsAtomically == Atomic!AtomicSpec

-----------------------------------------------------------------------------
(***************************************************************************)
(* Liveness: when the users leave the agent alone, the cluster becomes     *)
(* what the agent asks for.                                                *)
(***************************************************************************)
\* (An agent whose Service would have a name that is taken does without one.)
ServedBy(k) == child[k] # None /\ (child[k].owner = agent.uid \/ k \in Taken)

\* A volume may remain one adopted from an earlier incarnation.
ChildrenInPlace == child["pvc"] # None /\ ServedBy("networkpolicy") /\ ServedBy("service")

\* Nothing is left for reconcile() to do: it takes any pod that matches for a pod in
\* place, in whatever phase.
Reconciled ==
    \/ agent = None /\ pod = None /\ child = NoChildren
    \/ /\ agent # None
       /\ ChildrenInPlace
       /\ \/ agent.state = "stopped" /\ pod = None
          \/ /\ agent.state = "running"
             /\ pod # None
             /\ ~pod.deleting
             /\ pod.owner = agent.uid
             /\ ~pod_needs_update(pod, agent)

\* The cluster is what the agent asks for: a pod that runs, or none, isolated and
\* served by objects of its own.
Settled ==
    /\ Reconciled
    /\ agent # None =>
          /\ agent.state = "running" => pod.phase = "Running"
          /\ \A k \in {"networkpolicy", "service"} : child[k].owner = agent.uid

\* A running agent is left with a pod that has failed for good.
Evicted ==
    agent # None /\ agent.state = "running" /\ pod # None /\ pod.phase = "Failed" /\ ~pod.deleting

\* "Operator detects evicted Agent pods -> restores from backup on healthy node"
\* (ARCHITECTURE.md:358): no agent stays like that.  (A run refutes it: only users
\* get it out of there.)
EvictedIsReplaced == []<>~Evicted

\* Unless an evicted pod is left for ever, reconcile() converges, whatever was in
\* flight, failed or crashed.  (Of an agent whose Service's name is free.)
Converges == EvictedIsReplaced => <>[]Settled

\* At rest, everybody who acts on the agent knows it as it is, and its volume is
\* its own.
AtRest ==
    /\ Reconciled
    /\ agent # None => child["pvc"].owner = agent.uid /\ ~child["pvc"].deleting
    /\ \A o \in Operators : /\ {store[o], snap[o]} \subseteq {None, view(agent)}
                            /\ pc[o] # "replace_pod"

\* The safety half of convergence: what has come to rest is left at rest by every
\* reconciliation, failure and crash, of any number of operators, until a user
\* does something; and the status of an agent reported as Stopped stays as it is.
RestIsKept ==
    [][AtRest =>
          \/ Users
          \/ /\ AtRest'
             /\ agent # None /\ agent.state = "stopped" /\ agent.status.phase = "Stopped"
                   => agent'.status = agent.status]_vars

\* Once things have settled the status keeps up: a stopped agent is reported
\* as Stopped, a pod that has failed for good as Failed (reconcile_pod takes it for
\* a pod in place), and Running is reported of a running pod, with its address.
StatusAgrees ==
    agent # None =>
       /\ agent.state = "stopped" <=> agent.status.phase = "Stopped"
       /\ agent.status.phase = "Failed"
             <=> agent.state = "running" /\ pod # None /\ pod.phase = "Failed"
       /\ agent.status.phase = "Running" => pod # None /\ pod.ip = agent.status.pod_ip

StatusSettles == <>[]StatusAgrees

-----------------------------------------------------------------------------
(***************************************************************************)
(* What the repository says of the operator and the code does not do       *)
(* (refuted by a run).                                                     *)
(***************************************************************************)

\* "Persistent local storage per agent (survives restarts)" (README.md:130): the
\* volume that a running pod of the agent writes to is not condemned to go with
\* that pod.
StorageSurvives ==
    agent # None /\ pod # None /\ pod.owner = agent.uid /\ pod.phase = "Running"
        => child["pvc"] # None /\ ~child["pvc"].deleting
=============================================================================
