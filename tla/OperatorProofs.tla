--------------------------- MODULE OperatorProofs ---------------------------
(***************************************************************************)
(* Theorems about Operator, for every set of operators, of agent specs and *)
(* of addresses, and every bound.                                          *)
(***************************************************************************)
EXTENDS Operator, TLAPS

-----------------------------------------------------------------------------
(***************************************************************************)
(* The objects that are built are well-formed.                             *)
(***************************************************************************)
LEMMA StoredSpec ==
    ASSUME NEW t \in Specs
    PROVE  stored(t) \in Specs
  BY CanonAssumption DEF stored, Specs

LEMMA BuiltPod ==
    ASSUME NEW a \in Views
    PROVE  build_pod(a) \in Pods
  BY StoredSpec DEF build_pod, owner_reference, Views, Pods

LEMMA BuiltChild ==
    ASSUME NEW a \in Views
    PROVE  build_child(a) \in Children
  BY BoundsAssumption DEF build_child, owner_reference, Views, Uids, Children

LEMMA DerivedStatus ==
    ASSUME NEW p \in Pods
    PROVE  derive_status_from_pod(p) \in Status
  BY DEF derive_status_from_pod, Pods, Status, Phases

LEMMA ViewType ==
    ASSUME NEW a \in Agents \cup {None}
    PROVE  view(a) \in Views \cup {None}
  BY DEF view, Views, Agents

LEMMA DeletedPod ==
    ASSUME pod \in Pods, delete_pod
    PROVE  pod' \in Pods \cup {None}
  BY DEF delete_pod, Pods

-----------------------------------------------------------------------------
(***************************************************************************)
(* Type correctness.                                                       *)
(***************************************************************************)
LEMMA UsersType ==
    ASSUME ClusterTypeOK, Users
    PROVE  ClusterTypeOK'
  <1> USE BoundsAssumption DEF ClusterTypeOK
  <1>1. ASSUME NEW t \in Templates, CreateAgent(t)
        PROVE  ClusterTypeOK'
    <2>1. lastUid + 1 \in Uids /\ lastUid + 1 \in 0 .. MaxUid
      <3>1. lastUid \in 0 .. MaxUid /\ lastUid < MaxUid
        BY <1>1 DEF CreateAgent
      <3> QED BY <3>1 DEF Uids
    <2>2. [phase |-> "", pod_ip |-> None] \in Status
      BY DEF Status, Phases
    <2>3. agent' \in Agents
      BY <1>1, <2>1, <2>2, TemplatesAssumption DEF CreateAgent, Agents, States
    <2> QED BY <1>1, <2>1, <2>3 DEF CreateAgent
  <1>2. ASSUME NEW s \in States, SetState(s)
        PROVE  ClusterTypeOK'
    BY <1>2 DEF SetState, Agents
  <1>3. ASSUME NEW t \in Templates, EditSpec(t)
        PROVE  ClusterTypeOK'
    BY <1>3, TemplatesAssumption DEF EditSpec, Agents
  <1>4. CASE DeleteAgent
    BY <1>4 DEF DeleteAgent
  <1>5. CASE RestartPod
    BY <1>5, DeletedPod DEF RestartPod
  <1> QED BY <1>1, <1>2, <1>3, <1>4, <1>5 DEF Users

LEMMA KubeletType ==
    ASSUME ClusterTypeOK, Kubelet
    PROVE  ClusterTypeOK'
  <1>1. /\ pod \in Pods
        /\ UNCHANGED <<agent, child, lastUid, edits>>
    BY DEF ClusterTypeOK, Kubelet, StartPod, CrashContainer, RecoverContainer, EvictPod,
           FinishPod, RemovePod
  <1>2. pod' \in Pods \cup {None}
    BY <1>1 DEF Kubelet, StartPod, CrashContainer, RecoverContainer, EvictPod, FinishPod,
                RemovePod, Pods
  <1> QED BY <1>1, <1>2 DEF ClusterTypeOK

LEMMA CollectorType ==
    ASSUME ClusterTypeOK, Collector
    PROVE  ClusterTypeOK'
  <1> USE DEF ClusterTypeOK
  <1>1. CASE CollectPod
    BY <1>1, DeletedPod DEF CollectPod
  <1>2. CASE RemoveVolume
    BY <1>2 DEF RemoveVolume, Kinds
  <1>3. ASSUME NEW k \in Kinds, CollectChild(k)
        PROVE  ClusterTypeOK'
    BY <1>3 DEF CollectChild, Children
  <1> QED BY <1>1, <1>2, <1>3 DEF Collector

LEMMA EnvironmentType ==
    ASSUME ClusterTypeOK, Environment
    PROVE  ClusterTypeOK'
  BY UsersType, KubeletType, CollectorType DEF Environment

LEMMA InitType == Init => TypeOK
  <1>1. NoChildren \in [Kinds -> Children \cup {None}]
    BY BoundsAssumption DEF NoChildren, Foreign, Children
  <1> QED BY <1>1, BoundsAssumption, FaultsAssumption
          DEF Init, ClusterInit, OperatorInit, TypeOK, ClusterTypeOK, Labels

\* The labels reconcile() goes through; all but "idle" have a snapshot.
LEMMA LabelFacts ==
    ASSUME NEW k \in Kinds
    PROVE  /\ {GetAt[k], CreateAt[k], NextAfter[k]} \subseteq Labels \ {"idle", "patch_status"}
           /\ GetAt[k] # "idle" /\ CreateAt[k] # "idle"
  BY DEF Kinds, GetAt, CreateAt, NextAfter, Labels

\* The two ways a reconciliation's local state changes.
LEMMA GotoType ==
    ASSUME TypeOK, NEW o \in Operators, pc[o] # "idle",
           NEW l \in Labels \ {"idle", "patch_status"}, goto(o, l)
    PROVE  /\ store' \in [Operators -> Views \cup {None}]
           /\ due' \in [Operators -> {"none", "later", "now"}]
           /\ pc' \in [Operators -> Labels]
           /\ snap' \in [Operators -> Views \cup {None}]
           /\ \A p \in Operators : pc'[p] # "idle" => snap'[p] \in Views
           /\ draft' \in [Operators -> Status \cup {None}]
           /\ \A p \in Operators : pc'[p] = "patch_status" => draft'[p] \in Status
  BY DEF TypeOK, goto

LEMMA RequeueType ==
    ASSUME TypeOK, NEW o \in Operators, requeue(o)
    PROVE  /\ store' \in [Operators -> Views \cup {None}]
           /\ due' \in [Operators -> {"none", "later", "now"}]
           /\ pc' \in [Operators -> Labels]
           /\ snap' \in [Operators -> Views \cup {None}]
           /\ \A p \in Operators : pc'[p] # "idle" => snap'[p] \in Views
           /\ draft' \in [Operators -> Status \cup {None}]
           /\ \A p \in Operators : pc'[p] = "patch_status" => draft'[p] \in Status
  BY DEF TypeOK, requeue, Labels

LEMMA ReconcileType ==
    ASSUME TypeOK, NEW o \in Operators, reconcile(o)
    PROVE  TypeOK'
  <1>1. ASSUME NEW k \in Kinds, GetChild(o, k)
        PROVE  TypeOK'
    <2>1. pc[o] # "idle" /\ UNCHANGED <<clusterVars, faults>>
      BY <1>1, LabelFacts DEF GetChild
    <2>2. PICK l \in Labels \ {"idle", "patch_status"} : goto(o, l)
      BY <1>1, LabelFacts DEF GetChild
    <2> QED BY <2>1, <2>2, GotoType DEF TypeOK, ClusterTypeOK, clusterVars
  <1>2. ASSUME NEW k \in Kinds, CreateChild(o, k)
        PROVE  TypeOK'
    <2>1. pc[o] # "idle" /\ UNCHANGED <<agent, pod, lastUid, edits, faults>>
      BY <1>2, LabelFacts DEF CreateChild
    <2>2. CASE child' = [child EXCEPT ![k] = build_child(snap[o])] /\ goto(o, NextAfter[k])
      <3>1. build_child(snap[o]) \in Children
        BY <2>1, BuiltChild DEF TypeOK
      <3>2. NextAfter[k] \in Labels \ {"idle", "patch_status"}
        BY LabelFacts
      <3> QED BY <2>1, <2>2, <3>1, <3>2, GotoType DEF TypeOK, ClusterTypeOK
    <2>3. CASE error_policy(o) /\ UNCHANGED child
      BY <2>1, <2>3, RequeueType DEF TypeOK, ClusterTypeOK, error_policy
    <2> QED BY <1>2, <2>2, <2>3 DEF CreateChild
  <1>3. CASE GetPod(o)
    <2>1. after_get_pod(snap[o]) \in Labels \ {"idle", "patch_status"}
      BY DEF after_get_pod, Labels
    <2> QED BY <1>3, <2>1, GotoType DEF GetPod, TypeOK, ClusterTypeOK, clusterVars
  <1>4. CASE DeletePod(o)
    <2>1. pc[o] # "idle" /\ UNCHANGED <<agent, child, lastUid, edits, faults>>
      BY <1>4 DEF DeletePod
    <2>2. ASSUME pod # None, delete_pod, NEW l \in {"get_networkpolicy", "create_pod"}, goto(o, l)
          PROVE  TypeOK'
      <3>1. l \in Labels \ {"idle", "patch_status"}
        BY DEF Labels
      <3>2. pod' \in Pods \cup {None}
        BY <2>2, DeletedPod DEF TypeOK, ClusterTypeOK
      <3> QED BY <2>1, <2>2, <3>1, <3>2, GotoType DEF TypeOK, ClusterTypeOK
    <2>3. CASE error_policy(o) /\ UNCHANGED pod
      BY <2>1, <2>3, RequeueType DEF TypeOK, ClusterTypeOK, error_policy
    <2> QED BY <1>4, <2>2, <2>3 DEF DeletePod
  <1>5. CASE CreatePod(o)
    <2>1. pc[o] # "idle" /\ UNCHANGED <<agent, child, lastUid, edits, faults>>
      BY <1>5 DEF CreatePod
    <2>2. CASE pod' = build_pod(snap[o]) /\ goto(o, "get_networkpolicy")
      <3>1. pod' \in Pods
        BY <2>1, <2>2, BuiltPod DEF TypeOK
      <3>2. "get_networkpolicy" \in Labels \ {"idle", "patch_status"}
        BY DEF Labels
      <3> QED BY <2>1, <2>2, <3>1, <3>2, GotoType DEF TypeOK, ClusterTypeOK
    <2>3. CASE error_policy(o) /\ UNCHANGED pod
      BY <2>1, <2>3, RequeueType DEF TypeOK, ClusterTypeOK, error_policy
    <2> QED BY <1>5, <2>2, <2>3 DEF CreatePod
  <1>6. CASE ReadPod(o)
    <2>1. status_of(snap[o]) \in Status
      BY DerivedStatus DEF status_of, TypeOK, ClusterTypeOK, Status, Phases
    <2> QED BY <1>6, <2>1 DEF ReadPod, TypeOK, ClusterTypeOK, clusterVars, Labels
  <1>7. CASE PatchStatus(o)
    <2>1. agent' \in Agents \cup {None}
      <3>1. draft[o] \in Status
        BY <1>7 DEF PatchStatus, TypeOK
      <3>2. ASSUME agent # None
            PROVE  merge(agent.status, draft[o]) \in Status
        BY <3>1, <3>2 DEF merge, Status, TypeOK, ClusterTypeOK, Agents
      <3> QED BY <1>7, <3>2 DEF PatchStatus, TypeOK, ClusterTypeOK, Agents
    <2>2. requeue(o) /\ UNCHANGED <<pod, child, lastUid, edits, faults>>
      BY <1>7 DEF PatchStatus
    <2> QED BY <2>1, <2>2, RequeueType DEF TypeOK, ClusterTypeOK
  <1> QED BY <1>1, <1>2, <1>3, <1>4, <1>5, <1>6, <1>7 DEF reconcile

LEMMA OperatorStepType ==
    ASSUME TypeOK, NEW o \in Operators, OperatorStep(o)
    PROVE  TypeOK'
  <1>1. CASE Watch(o)
    BY <1>1, ViewType DEF Watch, TypeOK, ClusterTypeOK, clusterVars
  <1>2. CASE Wake(o) \/ DropStale(o)
    BY <1>2 DEF Wake, DropStale, TypeOK, ClusterTypeOK, clusterVars
  <1>3. CASE Start(o)
    BY <1>3 DEF Start, TypeOK, ClusterTypeOK, clusterVars, Labels
  <1>4. CASE reconcile(o)
    BY <1>4, ReconcileType
  <1>5. CASE CallFails(o)
    <2>1. faults' \in 0 .. MaxFaults
      BY <1>5, FaultsAssumption DEF CallFails, TypeOK
    <2> QED BY <1>5, <2>1, RequeueType
            DEF CallFails, error_policy, TypeOK, ClusterTypeOK, clusterVars
  <1>6. CASE Crash(o)
    <2>1. faults' \in 0 .. MaxFaults
      BY <1>6, FaultsAssumption DEF Crash, TypeOK
    <2> QED BY <1>6, <2>1 DEF Crash, TypeOK, ClusterTypeOK, clusterVars, Labels
  <1> QED BY <1>1, <1>2, <1>3, <1>4, <1>5, <1>6 DEF OperatorStep, Work

LEMMA NextType == TypeOK /\ [Next]_vars => TypeOK'
  <1> SUFFICES ASSUME TypeOK, [Next]_vars
               PROVE  TypeOK'
    OBVIOUS
  <1>1. CASE Environment /\ UNCHANGED operatorVars
    BY <1>1, EnvironmentType DEF TypeOK, operatorVars
  <1>2. CASE \E o \in Operators : OperatorStep(o)
    BY <1>2, OperatorStepType
  <1>3. CASE UNCHANGED vars
    BY <1>3 DEF vars, TypeOK, ClusterTypeOK
  <1> QED BY <1>1, <1>2, <1>3 DEF Next

\* The types hold of every reachable state: in particular a reconciliation
\* always has the snapshot it works on, and a status before it patches one.
THEOREM TypeCorrect == Spec => []TypeOK
  BY InitType, NextType, PTL DEF Spec

-----------------------------------------------------------------------------
(***************************************************************************)
(* No agent is forgotten.  NeverForgotten is inductive given the types.    *)
(***************************************************************************)

\* However a reconciliation ends, the object is queued again.
LEMMA RequeueRemembers ==
    ASSUME TypeOK, NeverForgotten, NEW o \in Operators, requeue(o)
    PROVE  NeverForgotten'
  BY DEF TypeOK, NeverForgotten, requeue

LEMMA GotoRemembers ==
    ASSUME TypeOK, NeverForgotten, NEW o \in Operators, NEW l \in Labels \ {"idle"}, goto(o, l)
    PROVE  NeverForgotten'
  BY DEF TypeOK, NeverForgotten, goto

LEMMA ReconcileRemembers ==
    ASSUME TypeOK, NeverForgotten, NEW o \in Operators, reconcile(o)
    PROVE  NeverForgotten'
  <1>1. ASSUME NEW k \in Kinds, GetChild(o, k)
        PROVE  NeverForgotten'
    BY <1>1, LabelFacts, GotoRemembers DEF GetChild
  <1>2. ASSUME NEW k \in Kinds, CreateChild(o, k)
        PROVE  NeverForgotten'
    BY <1>2, LabelFacts, GotoRemembers, RequeueRemembers DEF CreateChild, error_policy
  <1>3. CASE GetPod(o)
    BY <1>3, GotoRemembers DEF GetPod, after_get_pod, Labels
  <1>4. CASE DeletePod(o)
    BY <1>4, GotoRemembers, RequeueRemembers DEF DeletePod, error_policy, Labels
  <1>5. CASE CreatePod(o)
    BY <1>5, GotoRemembers, RequeueRemembers DEF CreatePod, error_policy, Labels
  <1>6. CASE ReadPod(o)
    BY <1>6 DEF ReadPod, TypeOK, NeverForgotten
  <1>7. CASE PatchStatus(o)
    BY <1>7, RequeueRemembers DEF PatchStatus
  <1> QED BY <1>1, <1>2, <1>3, <1>4, <1>5, <1>6, <1>7 DEF reconcile

LEMMA NextRemembers == TypeOK /\ NeverForgotten /\ [Next]_vars => NeverForgotten'
  <1> SUFFICES ASSUME TypeOK, NeverForgotten, [Next]_vars
               PROVE  NeverForgotten'
    OBVIOUS
  <1>1. CASE Environment /\ UNCHANGED operatorVars
    BY <1>1 DEF NeverForgotten, operatorVars
  <1>2. ASSUME NEW o \in Operators, OperatorStep(o)
        PROVE  NeverForgotten'
    <2>1. CASE Watch(o)
      BY <2>1 DEF Watch, TypeOK, NeverForgotten, view
    <2>2. CASE Wake(o) \/ Start(o) \/ DropStale(o)
      BY <2>2 DEF Wake, Start, DropStale, TypeOK, NeverForgotten
    <2>3. CASE reconcile(o)
      BY <2>3, ReconcileRemembers
    <2>4. CASE CallFails(o)
      BY <2>4, RequeueRemembers DEF CallFails, error_policy
    <2>5. CASE Crash(o)
      BY <2>5 DEF Crash, TypeOK, NeverForgotten
    <2> QED BY <1>2, <2>1, <2>2, <2>3, <2>4, <2>5 DEF OperatorStep, Work
  <1>3. CASE UNCHANGED vars
    BY <1>3 DEF vars, NeverForgotten
  <1> QED BY <1>1, <1>2, <1>3 DEF Next

\* While an operator knows of an agent, it is reconciling it or has it queued:
\* through every failed call, every crash and every deletion in mid-flight.
THEOREM Remembers == Spec => []NeverForgotten
  <1>1. Init => NeverForgotten
    BY DEF Init, OperatorInit, NeverForgotten
  <1> QED BY <1>1, NextRemembers, TypeCorrect, PTL DEF Spec

-----------------------------------------------------------------------------
(***************************************************************************)
(* A single operator.  Pods are then created by one process only, so what  *)
(* it has read of the pod can only change in one direction: the pod goes   *)
(* away.  ReadsStayTrue is inductive together with two facts: where the    *)
(* reconciliation stands tells the state it was asked for, and a pod whose *)
(* containers have all exited is being deleted.                            *)
(***************************************************************************)
Alone == \A o, p \in Operators : o = p

BranchTaken ==
    \A o \in Operators :
       /\ pc[o] = "delete_pod" => snap[o].state = "stopped"
       /\ pc[o] \in {"replace_pod", "create_pod"} => snap[o].state = "running"
       /\ pc[o] = "patch_status" /\ snap[o].state = "stopped" => draft[o].phase = "Stopped"

ExitedIsDeleting == pod # None /\ pod.phase = "Succeeded" => pod.deleting

AloneInv == TypeOK /\ BranchTaken /\ ExitedIsDeleting /\ ReadsStayTrue

\* A pod never comes back by itself, never changes its spec, and a deletion is
\* not taken back.
PodOnlyLeaves ==
    pod' # None =>
       /\ pod # None
       /\ pod'.tmpl = pod.tmpl
       /\ pod.deleting => pod'.deleting
       /\ pod'.phase = "Succeeded" => pod.phase = "Succeeded" \/ pod.deleting

LEMMA DeletedLeaves ==
    ASSUME pod \in Pods, pod # None, delete_pod
    PROVE  PodOnlyLeaves
  BY DEF delete_pod, PodOnlyLeaves, Pods

LEMMA EnvironmentLeaves ==
    ASSUME TypeOK, Environment
    PROVE  PodOnlyLeaves
  <1>1. pod \in Pods \cup {None}
    BY DEF TypeOK, ClusterTypeOK
  <1>2. CASE RestartPod \/ CollectPod
    BY <1>1, <1>2, DeletedLeaves DEF RestartPod, CollectPod
  <1>3. CASE UNCHANGED pod
    BY <1>3 DEF PodOnlyLeaves
  <1>4. CASE Kubelet
    BY <1>1, <1>4 DEF Kubelet, StartPod, CrashContainer, RecoverContainer, EvictPod, FinishPod,
                      RemovePod, PodOnlyLeaves, Pods
  <1>5. Users => RestartPod \/ UNCHANGED pod
    BY DEF Users, CreateAgent, SetState, EditSpec, DeleteAgent
  <1>6. Collector => CollectPod \/ UNCHANGED pod
    BY DEF Collector, CollectChild, RemoveVolume
  <1> QED BY <1>2, <1>3, <1>4, <1>5, <1>6 DEF Environment

\* Such a step, with the reconciliations where they are, keeps the invariant.
LEMMA LeavingKeeps ==
    ASSUME AloneInv, TypeOK', PodOnlyLeaves, UNCHANGED <<pc, snap, draft>>
    PROVE  AloneInv'
  <1>1. BranchTaken'
    BY DEF AloneInv, BranchTaken
  <1>2. ExitedIsDeleting'
    BY DEF AloneInv, ExitedIsDeleting, PodOnlyLeaves
  <1>3. ReadsStayTrue'
    BY DEF AloneInv, ReadsStayTrue, PodOnlyLeaves, pod_needs_update
  <1> QED BY <1>1, <1>2, <1>3 DEF AloneInv

\* A reconciliation that ends (or has not begun) owes nothing.
LEMMA IdleKeeps ==
    ASSUME AloneInv, TypeOK', Alone, UNCHANGED pod, NEW o \in Operators,
           pc'[o] \in {"idle", "get_pvc"}
    PROVE  AloneInv'
  BY DEF AloneInv, Alone, BranchTaken, ExitedIsDeleting, ReadsStayTrue, AfterPod

\* Moving on to label l, with the pod as it is, keeps the invariant if what l
\* presumes holds.
LEMMA GotoKeeps ==
    ASSUME AloneInv, TypeOK', Alone, UNCHANGED pod, NEW o \in Operators, NEW l, goto(o, l),
           l = "delete_pod" => snap[o].state = "stopped",
           l \in {"replace_pod", "create_pod"} => snap[o].state = "running",
           l = "replace_pod" /\ pod # None => pod.deleting \/ pod_needs_update(pod, snap[o]),
           l \in AfterPod /\ snap[o].state = "stopped" /\ pod # None => pod.deleting,
           l # "patch_status"
    PROVE  AloneInv'
  <1>1. pc'[o] = l /\ snap' = snap
    BY DEF goto, AloneInv, TypeOK
  <1> QED BY <1>1 DEF AloneInv, Alone, BranchTaken, ExitedIsDeleting, ReadsStayTrue, AfterPod,
                      pod_needs_update

LEMMA RequeueKeeps ==
    ASSUME AloneInv, TypeOK', Alone, UNCHANGED pod, NEW o \in Operators, requeue(o)
    PROVE  AloneInv'
  <1>1. pc'[o] = "idle"
    BY DEF requeue, AloneInv, TypeOK
  <1> QED BY <1>1, IdleKeeps

LEMMA ReconcileKeeps ==
    ASSUME AloneInv, TypeOK', Alone, NEW o \in Operators, reconcile(o)
    PROVE  AloneInv'
  <1>0. /\ pod \in Pods \cup {None}
        /\ pc \in [Operators -> Labels]
        /\ pc[o] # "idle" => snap[o] \in Views
    BY DEF AloneInv, TypeOK, ClusterTypeOK
  \* The children come before the pod (pvc) or after it (the two others).
  <1>1. ASSUME NEW k \in Kinds, NEW l \in {CreateAt[k], NextAfter[k]}, goto(o, l), UNCHANGED pod,
               pc[o] \in {GetAt[k], CreateAt[k]}
        PROVE  AloneInv'
    <2>1. CASE k = "pvc"
      BY <1>1, <2>1, GotoKeeps DEF CreateAt, NextAfter, AfterPod
    <2>2. CASE k # "pvc"
      <3>1. pc[o] \in AfterPod /\ l \in AfterPod \ {"patch_status"}
        BY <1>1, <2>2 DEF Kinds, GetAt, CreateAt, NextAfter, AfterPod
      <3>2. snap[o].state = "stopped" /\ pod # None => pod.deleting
        BY <3>1 DEF AloneInv, ReadsStayTrue
      <3> QED BY <1>1, <3>1, <3>2, GotoKeeps DEF AfterPod
    <2> QED BY <2>1, <2>2
  <1>2. ASSUME NEW k \in Kinds, GetChild(o, k) \/ CreateChild(o, k)
        PROVE  AloneInv'
    BY <1>1, <1>2, RequeueKeeps DEF GetChild, CreateChild, clusterVars, error_policy
  <1>3. CASE GetPod(o)
    <2>1. goto(o, after_get_pod(snap[o])) /\ UNCHANGED pod
      BY <1>3 DEF GetPod, clusterVars
    <2>2. snap[o].state \in {"running", "stopped"}
      BY <1>0, <1>3 DEF GetPod, Views, States
    <2> QED BY <2>1, <2>2, GotoKeeps DEF after_get_pod, AfterPod
  <1>4. CASE DeletePod(o)
    <2>1. CASE error_policy(o) /\ UNCHANGED pod
      BY <2>1, RequeueKeeps DEF error_policy
    <2>2. CASE /\ pod # None
               /\ delete_pod
               /\ goto(o, IF pc[o] = "delete_pod" THEN "get_networkpolicy" ELSE "create_pod")
      <3>1. PodOnlyLeaves /\ (pod' # None => pod'.deleting)
        BY <1>0, <2>2, DeletedLeaves DEF delete_pod, Pods
      <3>2. /\ pc'[o] \in {"get_networkpolicy", "create_pod"}
            /\ pc'[o] = "create_pod" => pc[o] = "replace_pod"
            /\ UNCHANGED <<snap, draft>>
        BY <1>0, <1>4, <2>2 DEF goto, DeletePod
      <3>3. BranchTaken'
        BY <3>2 DEF AloneInv, Alone, BranchTaken
      <3>4. ExitedIsDeleting' /\ ReadsStayTrue'
        BY <3>1 DEF ExitedIsDeleting, ReadsStayTrue
      <3> QED BY <3>3, <3>4 DEF AloneInv
    <2> QED BY <1>4, <2>1, <2>2 DEF DeletePod
  <1>5. CASE CreatePod(o)
    <2>1. CASE error_policy(o) /\ UNCHANGED pod
      BY <2>1, RequeueKeeps DEF error_policy
    <2>2. CASE pod' = build_pod(snap[o]) /\ goto(o, "get_networkpolicy")
      <3>1. pc'[o] = "get_networkpolicy" /\ snap' = snap /\ snap[o].state = "running"
        BY <1>0, <1>5, <2>2 DEF goto, CreatePod, AloneInv, BranchTaken
      <3>2. pod'.phase = "Pending"
        BY <2>2 DEF build_pod
      <3> QED BY <3>1, <3>2 DEF AloneInv, Alone, BranchTaken, ExitedIsDeleting, ReadsStayTrue
    <2> QED BY <1>5, <2>1, <2>2 DEF CreatePod
  <1>6. CASE ReadPod(o)
    <2>1. pc[o] = "read_pod" /\ UNCHANGED <<pod, snap>>
      BY <1>6 DEF ReadPod, clusterVars
    <2>2. pc'[o] = "patch_status" /\ draft'[o] = status_of(snap[o])
      BY <1>0, <1>6 DEF ReadPod, AloneInv, TypeOK
    <2>3. snap[o].state = "stopped" /\ pod # None => pod.deleting
      BY <2>1 DEF AloneInv, ReadsStayTrue, AfterPod
    <2>4. draft'[o].phase = "Stopped" /\ pod # None => pod.deleting
      BY <1>0, <2>2, <2>3 DEF status_of, derive_status_from_pod, Pods, AloneInv, ExitedIsDeleting
    <2>5. snap[o].state = "stopped" => draft'[o].phase = "Stopped"
      BY <2>2 DEF status_of
    <2> QED BY <2>1, <2>2, <2>3, <2>4, <2>5
           DEF AloneInv, Alone, BranchTaken, ExitedIsDeleting, ReadsStayTrue
  <1>7. CASE PatchStatus(o)
    BY <1>7, RequeueKeeps DEF PatchStatus
  <1> QED BY <1>2, <1>3, <1>4, <1>5, <1>6, <1>7 DEF reconcile

LEMMA NextKeeps ==
    ASSUME Alone
    PROVE  AloneInv /\ [Next]_vars => AloneInv'
  <1> SUFFICES ASSUME AloneInv, [Next]_vars
               PROVE  AloneInv'
    OBVIOUS
  <1>0. TypeOK'
    BY NextType DEF AloneInv
  <1>1. CASE Environment /\ UNCHANGED operatorVars
    BY <1>0, <1>1, EnvironmentLeaves, LeavingKeeps DEF operatorVars, AloneInv
  <1>2. ASSUME NEW o \in Operators, OperatorStep(o)
        PROVE  AloneInv'
    <2>1. CASE Watch(o) \/ Wake(o) \/ DropStale(o)
      <3>1. UNCHANGED <<pod, pc, snap, draft>>
        BY <2>1 DEF Watch, Wake, DropStale, clusterVars
      <3>2. PodOnlyLeaves
        BY <3>1 DEF PodOnlyLeaves
      <3> QED BY <1>0, <3>1, <3>2, LeavingKeeps
    <2>2. CASE Start(o) \/ Crash(o)
      <3>1. pc'[o] \in {"idle", "get_pvc"} /\ UNCHANGED pod
        BY <2>2 DEF Start, Crash, clusterVars, AloneInv, TypeOK
      <3> QED BY <1>0, <3>1, IdleKeeps
    <2>3. CASE reconcile(o)
      BY <1>0, <2>3, ReconcileKeeps
    <2>4. CASE CallFails(o)
      BY <1>0, <2>4, RequeueKeeps DEF CallFails, error_policy, clusterVars
    <2> QED BY <1>2, <2>1, <2>2, <2>3, <2>4 DEF OperatorStep, Work
  <1>3. CASE UNCHANGED vars
    <2>1. UNCHANGED <<pod, pc, snap, draft>> /\ PodOnlyLeaves
      BY <1>3 DEF vars, PodOnlyLeaves
    <2> QED BY <1>0, <2>1, LeavingKeeps
  <1> QED BY <1>1, <1>2, <1>3 DEF Next

LEMMA AloneInvariant ==
    ASSUME Alone
    PROVE  Spec => []AloneInv
  <1>1. Init => AloneInv
    BY InitType DEF Init, ClusterInit, OperatorInit, AloneInv, BranchTaken, ExitedIsDeleting,
                    ReadsStayTrue, AfterPod
  <1>2. AloneInv /\ [Next]_vars => AloneInv'
    BY NextKeeps
  <1> QED BY <1>1, <1>2, PTL DEF Spec

\* With one operator, nothing that happens between a reconciliation's reads of
\* the pod and its use of them makes them false.
THEOREM ReadsHold == ASSUME Alone PROVE Spec => []ReadsStayTrue
  <1>1. AloneInv => ReadsStayTrue
    BY DEF AloneInv
  <1> QED BY <1>1, AloneInvariant, PTL
=============================================================================
