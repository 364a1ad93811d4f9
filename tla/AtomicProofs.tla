---------------------------- MODULE AtomicProofs ----------------------------
(***************************************************************************)
(* Refinement: a single operator keeps the promise of AtomicOperator.  Its *)
(* job is the snapshot, which it has exactly while it reconciles, and what *)
(* AloneInv says of its reads justifies each of its writes.                *)
(***************************************************************************)
EXTENDS OperatorProofs

\* Both modules speak of the same cluster.
LEMMA SameEnvironment == Environment => Atomic!Environment
  <1>1. Users => Atomic!Users
    BY DEF Users, CreateAgent, SetState, EditSpec, DeleteAgent, RestartPod, delete_pod, States,
           Atomic!Users, Atomic!CreateAgent, Atomic!SetState, Atomic!EditSpec,
           Atomic!DeleteAgent, Atomic!RestartPod, Atomic!delete_pod, Atomic!States
  <1>2. Kubelet => Atomic!Kubelet
    BY DEF Kubelet, StartPod, CrashContainer, RecoverContainer, EvictPod, FinishPod, RemovePod,
           Atomic!Kubelet, Atomic!StartPod, Atomic!CrashContainer, Atomic!RecoverContainer,
           Atomic!EvictPod, Atomic!FinishPod, Atomic!RemovePod
  <1>3. Collector => Atomic!Collector
    BY DEF Collector, CollectPod, CollectChild, RemoveVolume, orphaned, delete_pod, Kinds,
           Atomic!Collector, Atomic!CollectPod, Atomic!CollectChild, Atomic!RemoveVolume,
           Atomic!orphaned, Atomic!delete_pod, Atomic!Kinds
  <1> QED BY <1>1, <1>2, <1>3 DEF Environment, Atomic!Environment

\* An operator that is not reconciling has no job.
IdleHasNoJob == \A o \in Operators : pc[o] = "idle" => snap[o] = None

LEMMA NextIdle == TypeOK /\ IdleHasNoJob /\ [Next]_vars => IdleHasNoJob'
  <1> SUFFICES ASSUME TypeOK, IdleHasNoJob, [Next]_vars
               PROVE  IdleHasNoJob'
    OBVIOUS
  <1> USE DEF TypeOK, IdleHasNoJob
  <1>1. CASE UNCHANGED <<pc, snap>>
    BY <1>1
  <1>2. ASSUME NEW o \in Operators, requeue(o)
        PROVE  IdleHasNoJob'
    BY <1>2 DEF requeue
  <1>3. ASSUME NEW o \in Operators, NEW l \in Labels \ {"idle"}, goto(o, l)
        PROVE  IdleHasNoJob'
    BY <1>3 DEF goto
  <1>4. ASSUME NEW o \in Operators, reconcile(o)
        PROVE  IdleHasNoJob'
    <2>1. ASSUME NEW k \in Kinds, GetChild(o, k) \/ CreateChild(o, k)
          PROVE  IdleHasNoJob'
      BY <2>1, <1>2, <1>3, LabelFacts DEF GetChild, CreateChild, error_policy
    <2>2. CASE GetPod(o) \/ DeletePod(o) \/ CreatePod(o)
      BY <2>2, <1>2, <1>3 DEF GetPod, after_get_pod, DeletePod, CreatePod, error_policy, Labels
    <2>3. CASE ReadPod(o)
      BY <2>3 DEF ReadPod
    <2>4. CASE PatchStatus(o)
      BY <2>4, <1>2 DEF PatchStatus
    <2> QED BY <1>4, <2>1, <2>2, <2>3, <2>4 DEF reconcile
  <1>5. ASSUME NEW o \in Operators, OperatorStep(o)
        PROVE  IdleHasNoJob'
    <2>1. CASE Watch(o) \/ Wake(o) \/ DropStale(o)
      BY <2>1, <1>1 DEF Watch, Wake, DropStale
    <2>2. CASE Start(o) \/ Crash(o)
      BY <2>2 DEF Start, Crash
    <2>3. CASE CallFails(o)
      BY <2>3, <1>2 DEF CallFails, error_policy
    <2> QED BY <1>4, <1>5, <2>1, <2>2, <2>3 DEF OperatorStep, Work
  <1> QED BY <1>1, <1>5 DEF Next, operatorVars, vars

\* However a reconciliation ends, if the cluster is as it was, it ends the job.
LEMMA RequeueEnds ==
    ASSUME TypeOK, NEW o \in Operators, pc[o] # "idle", requeue(o), UNCHANGED clusterVars
    PROVE  Atomic!End(o)
  BY NoneIsNoView DEF TypeOK, requeue, clusterVars, Atomic!End, Atomic!clusterVars

LEMMA ReconcileIsAtomic ==
    ASSUME AloneInv, NEW o \in Operators, reconcile(o)
    PROVE  Atomic!AtomicNext \/ UNCHANGED <<clusterVars, snap>>
  <1>0. /\ TypeOK
        /\ pc[o] # "idle" => snap[o] \in Views /\ snap[o] # None
    BY NoneIsNoView DEF AloneInv, TypeOK
  <1>1. ASSUME NEW k \in Kinds, GetChild(o, k)
        PROVE  UNCHANGED <<clusterVars, snap>>
    BY <1>1 DEF GetChild, goto
  <1>2. ASSUME NEW k \in Kinds, CreateChild(o, k)
        PROVE  Atomic!End(o) \/ Atomic!AddChild(o, k)
    <2>1. pc[o] # "idle"
      BY <1>2, LabelFacts DEF CreateChild
    <2>2. CASE child[k] = None
      BY <1>0, <1>2, <2>1, <2>2
      DEF CreateChild, goto, build_child, owner_reference,
          Atomic!AddChild, Atomic!build_child, Atomic!owner_reference
    <2>3. CASE child[k] # None
      BY <1>0, <1>2, <2>1, <2>3, RequeueEnds DEF CreateChild, error_policy, clusterVars
    <2> QED BY <2>2, <2>3
  <1>3. CASE GetPod(o) \/ ReadPod(o)
    BY <1>3 DEF GetPod, goto, ReadPod
  <1>4. CASE DeletePod(o)
    <2>1. pc[o] # "idle"
      BY <1>4 DEF DeletePod
    <2>2. CASE pod = None
      BY <1>0, <1>4, <2>1, <2>2, RequeueEnds
         DEF DeletePod, error_policy, clusterVars, Atomic!AtomicNext
    <2>3. CASE pod # None
      <3>1. snap[o].state = "stopped" \/ pod.deleting \/ pod_needs_update(pod, snap[o])
        BY <1>4, <2>3 DEF DeletePod, AloneInv, BranchTaken, ReadsStayTrue
      <3>2. Atomic!RemovePodFor(o)
        BY <1>0, <1>4, <2>1, <2>3, <3>1
        DEF DeletePod, goto, delete_pod, pod_needs_update,
            Atomic!RemovePodFor, Atomic!delete_pod, Atomic!pod_needs_update
      <3> QED BY <3>2 DEF Atomic!AtomicNext
    <2> QED BY <2>2, <2>3 DEF Atomic!AtomicNext
  <1>5. CASE CreatePod(o)
    <2>1. pc[o] # "idle" /\ snap[o].state = "running"
      BY <1>5 DEF CreatePod, AloneInv, BranchTaken
    <2>2. CASE pod # None
      BY <1>0, <1>5, <2>1, <2>2, RequeueEnds
         DEF CreatePod, error_policy, clusterVars, Atomic!AtomicNext
    <2>3. CASE pod = None
      <3>1. Atomic!AddPod(o)
        BY <1>0, <1>5, <2>1, <2>3
        DEF CreatePod, goto, build_pod, owner_reference, stored,
            Atomic!AddPod, Atomic!build_pod, Atomic!owner_reference, Atomic!stored
      <3> QED BY <3>1 DEF Atomic!AtomicNext
    <2> QED BY <2>2, <2>3 DEF Atomic!AtomicNext
  <1>6. CASE PatchStatus(o)
    <2>1. pc[o] # "idle" /\ requeue(o) /\ UNCHANGED <<pod, child, lastUid, edits>>
      BY <1>6 DEF PatchStatus
    <2>2. CASE agent = None
      BY <1>0, <1>6, <2>1, <2>2, RequeueEnds DEF PatchStatus, clusterVars, Atomic!AtomicNext
    <2>3. CASE agent # None
      <3>1. /\ draft[o] \in Status
            /\ snap[o].state = "stopped" => draft[o].phase = "Stopped"
            /\ draft[o].phase = "Stopped" /\ pod # None => pod.deleting
            /\ agent' = [agent EXCEPT !.status = merge(@, draft[o])]
            /\ snap' = [snap EXCEPT ![o] = None]
        BY <1>6, <2>3 DEF PatchStatus, requeue, AloneInv, TypeOK, BranchTaken, ReadsStayTrue
      <3>2. Atomic!Report(o)
        BY <1>0, <2>1, <2>3, <3>1
        DEF Status, Phases, merge, Atomic!Report, Atomic!Status, Atomic!Phases, Atomic!merge
      <3> QED BY <3>2 DEF Atomic!AtomicNext
    <2> QED BY <2>2, <2>3 DEF Atomic!AtomicNext
  <1> QED BY <1>1, <1>2, <1>3, <1>4, <1>5, <1>6
         DEF reconcile, Kinds, Atomic!AtomicNext, Atomic!Kinds

LEMMA StepIsAtomic ==
    ASSUME AloneInv, IdleHasNoJob, [Next]_vars
    PROVE  [Atomic!AtomicNext]_(Atomic!atomicVars)
  <1> USE DEF Atomic!atomicVars, Atomic!clusterVars
  <1>1. CASE Environment /\ UNCHANGED operatorVars
    BY <1>1, SameEnvironment DEF operatorVars, Atomic!AtomicNext
  <1>2. ASSUME NEW o \in Operators, OperatorStep(o)
        PROVE  Atomic!AtomicNext \/ UNCHANGED <<clusterVars, snap>>
    <2>1. CASE Watch(o) \/ Wake(o) \/ DropStale(o)
      BY <2>1 DEF Watch, Wake, DropStale
    <2>2. CASE Start(o)
      <3>1. snap[o] = None /\ store[o] \in Views /\ snap' = [snap EXCEPT ![o] = store[o]]
        BY <2>2 DEF Start, IdleHasNoJob, AloneInv, TypeOK
      <3>2. Atomic!Begin(o)
        BY <2>2, <3>1 DEF Start, clusterVars, AloneInv, TypeOK, Views, Uids, States, Specs,
                          Atomic!Begin, Atomic!Views, Atomic!Uids, Atomic!States, Atomic!Specs
      <3> QED BY <3>2 DEF Atomic!AtomicNext
    <2>3. CASE reconcile(o)
      BY <2>3, ReconcileIsAtomic
    <2>4. CASE CallFails(o)
      BY <2>4, RequeueEnds DEF CallFails, error_policy, AloneInv, Atomic!AtomicNext
    <2>5. CASE Crash(o)
      <3>1. /\ UNCHANGED clusterVars
            /\ snap' = [snap EXCEPT ![o] = None]
            /\ snap \in [Operators -> Views \cup {None}]
        BY <2>5 DEF Crash, AloneInv, TypeOK
      <3>2. CASE snap[o] = None
        BY <3>1, <3>2
      <3>3. CASE snap[o] # None
        BY <3>1, <3>3 DEF clusterVars, Atomic!End, Atomic!AtomicNext
      <3> QED BY <3>2, <3>3
    <2> QED BY <1>2, <2>1, <2>2, <2>3, <2>4, <2>5 DEF OperatorStep, Work
  <1>3. CASE UNCHANGED vars
    BY <1>3 DEF vars
  <1> QED BY <1>1, <1>2, <1>3 DEF Next, clusterVars

\* A single operator, for all that it awaits between reading and writing, is as
\* good as one that looks at the pod and acts upon it in one step.
THEOREM SplitIsAtomic == ASSUME Alone PROVE Spec => ActsAtomically
  <1>1. Init => IdleHasNoJob
    BY DEF Init, OperatorInit, IdleHasNoJob
  <1>2. Spec => []IdleHasNoJob
    BY <1>1, NextIdle, TypeCorrect, PTL DEF Spec
  <1>3. Init => Atomic!AtomicInit
    BY DEF Init, ClusterInit, OperatorInit, NoChildren, Foreign, Kinds, Atomic!AtomicInit,
           Atomic!ClusterInit, Atomic!NoChildren, Atomic!Foreign, Atomic!Kinds
  <1>4. AloneInv /\ IdleHasNoJob /\ [Next]_vars => [Atomic!AtomicNext]_(Atomic!atomicVars)
    BY StepIsAtomic
  <1> QED BY <1>2, <1>3, <1>4, AloneInvariant, PTL DEF Spec, ActsAtomically, Atomic!AtomicSpec
=============================================================================
