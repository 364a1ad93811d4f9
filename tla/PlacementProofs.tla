-------------------------- MODULE PlacementProofs ---------------------------
(***************************************************************************)
(* Nothing is reported before everything is in place, for any number of    *)
(* operators.  ReportedInPlace is inductive together with three facts: no  *)
(* object and no operator knows of an incarnation yet to come, only what   *)
(* has an owner is ever being collected, and while the first incarnation   *)
(* lives, a reconciliation that is past a child has left it there.         *)
(***************************************************************************)
EXTENDS OperatorProofs

KnownIncarnations ==
    /\ agent # None => agent.uid = lastUid
    /\ \A k \in Kinds : child[k] # None => child[k].owner <= lastUid
    /\ \A o \in Operators : /\ store[o] # None => store[o].uid <= lastUid
                            /\ pc[o] # "idle" => snap[o].uid <= lastUid

CollectedHasOwner ==
    \A k \in Kinds : child[k] # None /\ child[k].deleting => child[k].owner # 0

FirstLives == agent # None /\ lastUid = 1

\* The labels that come after a child of kind k has been dealt with.
Past == [pvc |-> Labels \ {"idle", "get_pvc", "create_pvc"},
         networkpolicy |-> {"get_service", "create_service", "read_pod", "patch_status"},
         service |-> {"read_pod", "patch_status"}]

InPlace ==
    FirstLives =>
       \A k \in Kinds : /\ child[k] # None => ~child[k].deleting
                        /\ \A o \in Operators : pc[o] \in Past[k] => child[k] # None

PlaceInv == TypeOK /\ KnownIncarnations /\ CollectedHasOwner /\ InPlace /\ ReportedInPlace

\* While the first incarnation lives nothing is orphaned, so no child goes.
LEMMA FirstKeepsChildren ==
    ASSUME PlaceInv, FirstLives, Collector
    PROVE  UNCHANGED child
  <1>1. agent.uid = 1
    BY DEF PlaceInv, KnownIncarnations, FirstLives
  <1>2. ASSUME NEW k \in Kinds
        PROVE  ~CollectChild(k)
    <2>1. child[k] # None => child[k].owner \in Nat /\ child[k].owner <= 1
      BY BoundsAssumption
      DEF PlaceInv, KnownIncarnations, FirstLives, TypeOK, ClusterTypeOK, Children
    <2> QED BY <1>1, <2>1 DEF CollectChild, orphaned, FirstLives
  <1>3. ~RemoveVolume
    BY DEF RemoveVolume, PlaceInv, InPlace, FirstLives, Kinds
  <1>4. CollectPod => UNCHANGED child
    BY DEF CollectPod
  <1> QED BY <1>2, <1>3, <1>4 DEF Collector

LEMMA EnvironmentPlace ==
    ASSUME PlaceInv, TypeOK', Environment, UNCHANGED operatorVars
    PROVE  PlaceInv'
  <1> USE DEF operatorVars
  <1>0. /\ lastUid \in Nat
        /\ child \in [Kinds -> Children \cup {None}]
        /\ \A k \in Kinds : child[k] # None => child[k].owner \in Nat
        /\ \A o \in Operators : /\ store[o] # None => store[o].uid \in Nat \ {0}
                                /\ pc[o] # "idle" => snap[o].uid \in Nat \ {0}
    BY BoundsAssumption DEF PlaceInv, TypeOK, ClusterTypeOK, Children, Views, Uids
  <1>1. CASE \E t \in Templates : CreateAgent(t)
    <2>0. PICK t \in Templates : CreateAgent(t)
      BY <1>1
    <2>1. /\ lastUid' = lastUid + 1 /\ agent'.uid = lastUid + 1
          /\ agent'.status.phase = "" /\ child' = child
      BY <2>0 DEF CreateAgent
    <2>2. KnownIncarnations'
      <3>1. \A n \in Nat : n <= lastUid => n <= lastUid'
        <4>1. lastUid \in Nat /\ lastUid' = lastUid + 1
          BY <1>0, <2>1
        <4> QED BY <4>1
      <3> QED BY <1>0, <2>1, <3>1 DEF PlaceInv, KnownIncarnations
    <2>3. InPlace'
      <3>1. CASE lastUid = 0
        <4>1. \A o \in Operators : pc[o] = "idle"
          BY <1>0, <3>1 DEF PlaceInv, KnownIncarnations
        <4>2. \A k \in Kinds : child[k] # None => ~child[k].deleting
          BY <1>0, <3>1 DEF PlaceInv, KnownIncarnations, CollectedHasOwner
        <4>3. \A k \in Kinds : "idle" \notin Past[k]
          BY DEF Kinds, Past
        <4> QED BY <2>1, <4>1, <4>2, <4>3 DEF InPlace
      <3>2. CASE lastUid # 0
        <4>1. lastUid \in Nat /\ lastUid' = lastUid + 1
          BY <1>0, <2>1
        <4>2. lastUid' # 1
          BY <4>1, <3>2
        <4> QED BY <4>2 DEF InPlace, FirstLives
      <3> QED BY <3>1, <3>2
    <2> QED BY <2>1, <2>2, <2>3 DEF PlaceInv, CollectedHasOwner, ReportedInPlace
  <1>2. CASE Collector
    <2>1. UNCHANGED <<agent, lastUid>>
      BY <1>2 DEF Collector, CollectPod, CollectChild, RemoveVolume
    <2>2. \A k \in Kinds : child'[k] # None =>
             /\ child[k] # None
             /\ child'[k].owner = child[k].owner
             /\ child'[k].deleting => child[k].deleting \/ child[k].owner # 0
      BY <1>0, <1>2 DEF Collector, CollectPod, CollectChild, RemoveVolume, orphaned, Children
    <2>3. KnownIncarnations' /\ CollectedHasOwner'
      BY <2>1, <2>2 DEF PlaceInv, KnownIncarnations, CollectedHasOwner
    <2>4. FirstLives => UNCHANGED child
      BY <1>2, FirstKeepsChildren
    <2> QED BY <2>1, <2>3, <2>4 DEF PlaceInv, InPlace, FirstLives, ReportedInPlace
  <1>3. CASE /\ UNCHANGED <<child, lastUid>>
             /\ agent' # None => /\ agent # None
                                /\ agent'.uid = agent.uid
                                /\ agent'.status = agent.status
    BY <1>3 DEF PlaceInv, KnownIncarnations, CollectedHasOwner, InPlace, FirstLives, ReportedInPlace
  <1>4. agent \in Agents \cup {None}
    BY DEF PlaceInv, TypeOK, ClusterTypeOK
  <1>5. Users => (\E t \in Templates : CreateAgent(t))
              \/ /\ UNCHANGED <<child, lastUid>>
                 /\ agent' # None => /\ agent # None
                                    /\ agent'.uid = agent.uid
                                    /\ agent'.status = agent.status
    BY <1>4 DEF Users, SetState, EditSpec, DeleteAgent, RestartPod, Agents
  <1>6. Kubelet => UNCHANGED <<agent, child, lastUid>>
    BY DEF Kubelet, StartPod, CrashContainer, RecoverContainer, EvictPod, FinishPod, RemovePod
  <1> QED BY <1>1, <1>2, <1>3, <1>5, <1>6 DEF Environment

\* A step of operator o that loses no child, learns of no incarnation to come, and
\* goes past no child that is not there.
LEMMA StepPlace ==
    ASSUME PlaceInv, TypeOK', NEW o \in Operators, lastUid' = lastUid,
           agent' # None => agent # None /\ agent'.uid = agent.uid,
           agent' # None /\ FirstLives /\ agent'.status # agent.status
              => \A k \in Kinds : child[k] # None,
           \A k \in Kinds : \/ child'[k] = child[k]
                           \/ /\ child[k] = None
                              /\ child'[k].owner <= lastUid
                              /\ ~child'[k].deleting
                              /\ child'[k] # None,
           \A p \in Operators \ {o} : pc'[p] = pc[p] /\ snap'[p] = snap[p],
           \A p \in Operators : store'[p] # None => store'[p].uid <= lastUid,
           pc'[o] # "idle" => snap'[o].uid <= lastUid,
           FirstLives => \A k \in Kinds : pc'[o] \in Past[k] => child'[k] # None
    PROVE  PlaceInv'
  <1>1. KnownIncarnations'
    BY DEF PlaceInv, KnownIncarnations
  <1>2. CollectedHasOwner'
    BY DEF PlaceInv, CollectedHasOwner
  <1>3. FirstLives' => FirstLives
    BY DEF FirstLives
  <1>4. InPlace'
    BY <1>3 DEF PlaceInv, InPlace
  <1>5. ReportedInPlace'
    BY DEF PlaceInv, ReportedInPlace, FirstLives
  <1> QED BY <1>1, <1>2, <1>4, <1>5 DEF PlaceInv

\* A reconciliation that ends, with the cluster as it was.
LEMMA EndPlace ==
    ASSUME PlaceInv, TypeOK', NEW o \in Operators, UNCHANGED clusterVars, pc'[o] = "idle",
           \A p \in Operators \ {o} : pc'[p] = pc[p] /\ snap'[p] = snap[p],
           \A p \in Operators : store'[p] \in {None, store[p]}
    PROVE  PlaceInv'
  <1>1. \A k \in Kinds : "idle" \notin Past[k]
    BY DEF Kinds, Past
  <1> QED BY <1>1, StepPlace DEF clusterVars, PlaceInv, KnownIncarnations

LEMMA RequeuePlace ==
    ASSUME PlaceInv, TypeOK', NEW o \in Operators, requeue(o), UNCHANGED clusterVars
    PROVE  PlaceInv'
  BY EndPlace DEF requeue, PlaceInv, TypeOK

\* A reconciliation that goes on to label l, past children that are there.
LEMMA GotoPlace ==
    ASSUME PlaceInv, TypeOK', NEW o \in Operators, pc[o] # "idle", NEW l \in Labels, goto(o, l),
           UNCHANGED <<agent, child, lastUid>>,
           FirstLives => \A k \in Kinds : l \in Past[k] => child[k] # None
    PROVE  PlaceInv'
  <1>1. /\ pc' = [pc EXCEPT ![o] = l] /\ UNCHANGED <<store, snap>>
        /\ pc \in [Operators -> Labels]
    BY DEF goto, PlaceInv, TypeOK
  <1>2. /\ \A p \in Operators : store[p] # None => store[p].uid <= lastUid
        /\ snap[o].uid <= lastUid
    BY DEF PlaceInv, KnownIncarnations
  <1> QED BY <1>1, <1>2, StepPlace

LEMMA ReconcilePlace ==
    ASSUME PlaceInv, TypeOK', NEW o \in Operators, reconcile(o)
    PROVE  PlaceInv'
  <1>0. /\ pc \in [Operators -> Labels]
        /\ pc[o] # "idle" => snap[o] \in Views /\ snap[o].uid <= lastUid
        /\ child \in [Kinds -> Children \cup {None}]
    BY DEF PlaceInv, TypeOK, ClusterTypeOK, KnownIncarnations
  <1>1. FirstLives => \A k \in Kinds : pc[o] \in Past[k] => child[k] # None
    BY DEF PlaceInv, InPlace
  \* From the get or create of a child, or from the pod, reconcile() only goes past
  \* what it was past already, and past that child.
  <1>2. ASSUME NEW k \in Kinds, NEW j \in Kinds, pc[o] \in {GetAt[k], CreateAt[k]}
        PROVE  /\ NextAfter[k] \in Past[j] => j = k \/ pc[o] \in Past[j]
               /\ CreateAt[k] \in Past[j] => pc[o] \in Past[j]
    BY <1>2 DEF Kinds, GetAt, CreateAt, NextAfter, Past, Labels
  <1>3. ASSUME NEW l \in {"delete_pod", "replace_pod", "create_pod", "get_networkpolicy"},
               NEW j \in Kinds, l \in Past[j],
               pc[o] \in {"get_pod", "delete_pod", "replace_pod", "create_pod"}
        PROVE  pc[o] \in Past[j]
    BY <1>3 DEF Kinds, Past, Labels
  <1>4. ASSUME NEW k \in Kinds, GetChild(o, k)
        PROVE  PlaceInv'
    <2>1. /\ pc[o] # "idle" /\ pc[o] = GetAt[k] /\ UNCHANGED <<agent, child, lastUid>>
          /\ goto(o, IF child[k] = None THEN CreateAt[k] ELSE NextAfter[k])
      BY <1>4, LabelFacts DEF GetChild, clusterVars
    <2>2. CASE child[k] = None
      BY <1>1, <1>2, <2>1, <2>2, LabelFacts, GotoPlace
    <2>3. CASE child[k] # None
      BY <1>1, <1>2, <2>1, <2>3, LabelFacts, GotoPlace
    <2> QED BY <2>2, <2>3
  <1>5. ASSUME NEW k \in Kinds, CreateChild(o, k)
        PROVE  PlaceInv'
    <2>1. pc[o] # "idle" /\ pc[o] = CreateAt[k] /\ UNCHANGED <<agent, pod, lastUid, edits>>
      BY <1>5, LabelFacts DEF CreateChild
    <2>2. CASE child[k] # None
      BY <1>5, <2>1, <2>2, RequeuePlace DEF CreateChild, error_policy, clusterVars
    <2>3. CASE child[k] = None
      <3>1. /\ child' = [child EXCEPT ![k] = build_child(snap[o])]
            /\ pc' = [pc EXCEPT ![o] = NextAfter[k]]
            /\ UNCHANGED <<store, snap>>
        BY <1>5, <2>3 DEF CreateChild, goto
      <3>2. /\ build_child(snap[o]).owner <= lastUid
            /\ ~build_child(snap[o]).deleting
            /\ build_child(snap[o]) # None
        <4>1. build_child(snap[o]) \in Children
          BY <1>0, <2>1, BuiltChild
        <4> QED BY <1>0, <2>1, <4>1, NoneIsNoObject DEF build_child, owner_reference
      <3>3. \A p \in Operators : store[p] # None => store[p].uid <= lastUid
        BY DEF PlaceInv, KnownIncarnations
      <3>4. FirstLives => \A j \in Kinds : pc'[o] \in Past[j] => child'[j] # None
        BY <1>0, <1>1, <1>2, <2>1, <3>1, <3>2
      <3> QED BY <1>0, <2>1, <2>3, <3>1, <3>2, <3>3, <3>4, StepPlace
    <2> QED BY <2>2, <2>3
  <1>6. CASE GetPod(o)
    <2>1. /\ pc[o] = "get_pod" /\ goto(o, after_get_pod(snap[o]))
          /\ UNCHANGED <<agent, child, lastUid>>
      BY <1>6 DEF GetPod, clusterVars
    <2>2. after_get_pod(snap[o]) \in {"delete_pod", "replace_pod", "create_pod", "get_networkpolicy"}
      BY DEF after_get_pod
    <2> QED BY <1>1, <1>3, <2>1, <2>2, GotoPlace DEF Labels
  <1>7. CASE DeletePod(o) \/ CreatePod(o)
    <2>1. /\ pc[o] \in {"delete_pod", "replace_pod", "create_pod"}
          /\ UNCHANGED <<agent, child, lastUid, edits>>
      BY <1>7 DEF DeletePod, CreatePod
    <2>2. CASE requeue(o) /\ UNCHANGED pod
      BY <2>1, <2>2, RequeuePlace DEF clusterVars
    <2>3. CASE \E l \in {"get_networkpolicy", "create_pod"} : goto(o, l)
      BY <1>1, <1>3, <2>1, <2>3, GotoPlace DEF Labels
    <2> QED BY <1>7, <2>2, <2>3 DEF DeletePod, CreatePod, error_policy
  <1>8. CASE ReadPod(o)
    <2>1. /\ pc[o] = "read_pod" /\ pc' = [pc EXCEPT ![o] = "patch_status"]
          /\ UNCHANGED <<agent, child, lastUid, store, snap>>
      BY <1>8 DEF ReadPod, clusterVars
    <2>2. /\ pc'[o] = "patch_status"
          /\ \A p \in Operators \ {o} : pc'[p] = pc[p]
          /\ \A p \in Operators : store[p] # None => store[p].uid <= lastUid
      BY <1>0, <2>1 DEF PlaceInv, KnownIncarnations
    <2>3. \A k \in Kinds : "read_pod" \in Past[k]
      BY DEF Kinds, Past, Labels
    <2> QED BY <1>0, <1>1, <2>1, <2>2, <2>3, StepPlace
  <1>9. CASE PatchStatus(o)
    <2>1. /\ pc[o] = "patch_status" /\ pc'[o] = "idle"
          /\ UNCHANGED <<child, lastUid, store>>
          /\ \A p \in Operators \ {o} : pc'[p] = pc[p] /\ snap'[p] = snap[p]
      BY <1>0, <1>9 DEF PatchStatus, requeue, PlaceInv, TypeOK
    <2>2. agent' # None => agent # None /\ agent'.uid = agent.uid
      BY <1>9 DEF PatchStatus, PlaceInv, TypeOK, ClusterTypeOK, Agents
    <2>3. \A k \in Kinds : "patch_status" \in Past[k] /\ "idle" \notin Past[k]
      BY DEF Kinds, Past, Labels
    <2>4. \A p \in Operators : store[p] # None => store[p].uid <= lastUid
      BY DEF PlaceInv, KnownIncarnations
    <2> QED BY <1>1, <2>1, <2>2, <2>3, <2>4, StepPlace
  <1> QED BY <1>4, <1>5, <1>6, <1>7, <1>8, <1>9 DEF reconcile

LEMMA NextPlace == PlaceInv /\ [Next]_vars => PlaceInv'
  <1> SUFFICES ASSUME PlaceInv, [Next]_vars
               PROVE  PlaceInv'
    OBVIOUS
  <1>0. TypeOK /\ TypeOK'
    BY NextType DEF PlaceInv
  <1>1. CASE Environment /\ UNCHANGED operatorVars
    BY <1>0, <1>1, EnvironmentPlace
  <1>2. ASSUME NEW o \in Operators, OperatorStep(o)
        PROVE  PlaceInv'
    <2>0. /\ agent # None => agent.uid = lastUid
          /\ \A p \in Operators : /\ store[p] # None => store[p].uid <= lastUid
                                  /\ pc[p] # "idle" => snap[p].uid <= lastUid
          /\ FirstLives => \A k \in Kinds : pc[o] \in Past[k] => child[k] # None
      BY DEF PlaceInv, KnownIncarnations, InPlace
    <2>1. CASE Watch(o)
      <3>1. UNCHANGED <<agent, child, lastUid, pc, snap>>
        BY <2>1 DEF Watch, clusterVars
      <3>2. agent # None => view(agent).uid <= lastUid
        <4>1. lastUid \in Nat
          BY <1>0, BoundsAssumption DEF TypeOK, ClusterTypeOK
        <4> QED BY <2>0, <4>1 DEF view
      <3>3. \A p \in Operators : store'[p] # None => store'[p].uid <= lastUid
        BY <1>0, <2>0, <2>1, <3>2 DEF Watch, TypeOK, view
      <3> QED BY <1>0, <2>0, <3>1, <3>3, StepPlace
    <2>2. CASE Wake(o) \/ DropStale(o)
      BY <1>0, <2>0, <2>2, StepPlace DEF Wake, DropStale, clusterVars
    <2>3. CASE Start(o)
      <3>1. /\ pc'[o] = "get_pvc" /\ snap'[o] = store[o] /\ store[o] # None
            /\ \A p \in Operators \ {o} : pc'[p] = pc[p] /\ snap'[p] = snap[p]
            /\ UNCHANGED <<agent, child, lastUid, store>>
        BY <1>0, <2>3 DEF Start, TypeOK, clusterVars
      <3>2. \A k \in Kinds : "get_pvc" \notin Past[k]
        BY DEF Kinds, Past
      <3> QED BY <1>0, <2>0, <3>1, <3>2, StepPlace
    <2>4. CASE reconcile(o)
      BY <1>0, <2>4, ReconcilePlace
    <2>5. CASE CallFails(o)
      BY <1>0, <2>5, RequeuePlace DEF CallFails, error_policy
    <2>6. CASE Crash(o)
      BY <1>0, <2>6, EndPlace DEF Crash, TypeOK
    <2> QED BY <1>2, <2>1, <2>2, <2>3, <2>4, <2>5, <2>6 DEF OperatorStep, Work
  <1>3. CASE UNCHANGED vars
    BY <1>0, <1>3 DEF vars, PlaceInv, KnownIncarnations, CollectedHasOwner, InPlace, FirstLives,
                      ReportedInPlace
  <1> QED BY <1>1, <1>2, <1>3 DEF Next

LEMMA InitPlace == Init => PlaceInv
  <1>1. Init => KnownIncarnations /\ CollectedHasOwner
    BY DEF Init, ClusterInit, OperatorInit, KnownIncarnations, CollectedHasOwner, NoChildren,
           Foreign
  <1>2. Init => InPlace /\ ReportedInPlace
    BY DEF Init, ClusterInit, InPlace, FirstLives, ReportedInPlace
  <1> QED BY <1>1, <1>2, InitType DEF PlaceInv

\* However many operators there are and whatever fails or crashes: while a name is
\* used for the first time nothing is reported of its agent, a running pod least of
\* all, before volume, network policy and service exist.
THEOREM InPlaceWhenReported == Spec => []ReportedInPlace
  <1>1. PlaceInv => ReportedInPlace
    BY DEF PlaceInv
  <1> QED BY <1>1, InitPlace, NextPlace, PTL DEF Spec

\* An object of the platform with the name of a child is never touched: it exists
\* from the start, so it is not created, and it has no owner, so it is not collected.
THEOREM ForeignUntouched == Spec => []ForeignKept
  <1>1. Init => ForeignKept
    BY TakenAssumption DEF Init, ClusterInit, NoChildren, ForeignKept, Kinds
  <1>2. TypeOK /\ ForeignKept /\ [Next]_vars => ForeignKept'
    <2> SUFFICES ASSUME TypeOK, ForeignKept, [Next]_vars
                 PROVE  ForeignKept'
      OBVIOUS
    <2>0. Foreign # None /\ child \in [Kinds -> Children \cup {None}] /\ Taken \subseteq Kinds
      <3>1. Foreign \in Children
        BY BoundsAssumption DEF Foreign, Children
      <3> QED BY <3>1, NoneIsNoObject, TakenAssumption DEF TypeOK, ClusterTypeOK, Kinds
    <2>1. ASSUME NEW o \in Operators, NEW k \in Kinds, CreateChild(o, k)
          PROVE  ForeignKept'
      BY <2>0, <2>1 DEF CreateChild, ForeignKept
    <2>2. CASE Collector
      BY <2>0, <2>2 DEF Collector, CollectPod, CollectChild, RemoveVolume, orphaned, ForeignKept,
                        Foreign
    <2>3. CASE UNCHANGED child
      BY <2>3 DEF ForeignKept
    <2>4. Users \/ Kubelet => UNCHANGED child
      BY DEF Users, CreateAgent, SetState, EditSpec, DeleteAgent, RestartPod, Kubelet, StartPod,
             CrashContainer, RecoverContainer, EvictPod, FinishPod, RemovePod
    <2>5. ASSUME NEW o \in Operators, OperatorStep(o)
          PROVE  UNCHANGED child \/ \E k \in Kinds : CreateChild(o, k)
      BY <2>5 DEF OperatorStep, Work, Watch, Wake, Start, DropStale, CallFails, Crash, reconcile,
                  GetChild, GetPod, DeletePod, CreatePod, ReadPod, PatchStatus, clusterVars
    <2> QED BY <2>1, <2>2, <2>3, <2>4, <2>5 DEF Next, Environment, vars
  <1> QED BY <1>1, <1>2, TypeCorrect, PTL DEF Spec

-----------------------------------------------------------------------------
(***************************************************************************)
(* The volume of a name's first agent.  It is there before the pod is      *)
(* created, nothing collects it while that agent lives, and a pod of an    *)
(* earlier incarnation there cannot be.                                    *)
(***************************************************************************)
KnownPods == pod # None => pod.owner <= lastUid

VolumeInv == PlaceInv /\ KnownPods /\ FirstVolumeKept

\* A step that brings no pod into being and takes no child away.
LEMMA NoNewPod ==
    ASSUME VolumeInv, PlaceInv', lastUid' = lastUid, agent' # None => agent # None,
           pod' # None => pod # None /\ pod'.owner = pod.owner,
           FirstLives /\ child["pvc"] # None => child'["pvc"] # None
    PROVE  VolumeInv'
  <1>1. KnownPods'
    BY DEF VolumeInv, KnownPods
  <1>2. FirstVolumeKept'
    <2> SUFFICES ASSUME agent' # None, lastUid' = 1, pod' # None
                 PROVE  child'["pvc"] # None /\ ~child'["pvc"].deleting
      BY DEF FirstVolumeKept
    <2>1. FirstLives /\ FirstLives' /\ child'["pvc"] # None
      BY DEF FirstLives, VolumeInv, FirstVolumeKept
    <2> QED BY <2>1 DEF PlaceInv, InPlace, Kinds
  <1> QED BY <1>1, <1>2 DEF VolumeInv

LEMMA EnvironmentVolume ==
    ASSUME VolumeInv, PlaceInv', Environment
    PROVE  VolumeInv'
  <1>0. /\ agent \in Agents \cup {None} /\ pod \in Pods \cup {None} /\ lastUid \in Nat
        /\ pod # None => pod.owner \in Nat \ {0} /\ pod.owner <= lastUid
    BY BoundsAssumption DEF VolumeInv, PlaceInv, TypeOK, ClusterTypeOK, KnownPods, Pods, Uids
  <1>1. ASSUME NEW t \in Templates, CreateAgent(t)
        PROVE  VolumeInv'
    <2>1. pod' = pod /\ lastUid' = lastUid + 1
      BY <1>1 DEF CreateAgent
    <2>2. KnownPods'
      BY <1>0, <2>1 DEF KnownPods
    <2>3. lastUid' = 1 => pod' = None
      BY <1>0, <2>1
    <2> QED BY <2>2, <2>3 DEF VolumeInv, FirstVolumeKept
  <1>2. ASSUME delete_pod, pod # None
        PROVE  pod' # None => pod'.owner = pod.owner
    BY <1>0, <1>2 DEF delete_pod, Pods
  <1>3. CASE RestartPod \/ CollectPod
    BY <1>2, <1>3, NoNewPod DEF RestartPod, CollectPod
  <1>4. CASE Users /\ ~RestartPod
    <2>1. CASE \E t \in Templates : CreateAgent(t)
      BY <1>1, <2>1
    <2>2. CASE DeleteAgent \/ (\E s \in States : SetState(s)) \/ \E t \in Templates : EditSpec(t)
      BY <2>2, NoNewPod DEF DeleteAgent, SetState, EditSpec
    <2> QED BY <1>4, <2>1, <2>2 DEF Users
  <1>5. CASE Kubelet
    <2>1. /\ pod # None
          /\ UNCHANGED <<agent, child, lastUid>>
      BY <1>5 DEF Kubelet, StartPod, CrashContainer, RecoverContainer, EvictPod, FinishPod,
                  RemovePod
    <2>2. pod' # None => pod'.owner = pod.owner
      BY <1>0, <1>5, <2>1 DEF Kubelet, StartPod, CrashContainer, RecoverContainer, EvictPod,
                              FinishPod, RemovePod, Pods
    <2> QED BY <2>1, <2>2, NoNewPod
  <1>6. CASE Collector /\ ~CollectPod
    <2>1. UNCHANGED <<agent, pod, lastUid>>
      BY <1>6 DEF Collector, CollectChild, RemoveVolume
    <2>2. FirstLives => UNCHANGED child
      BY <1>6, FirstKeepsChildren DEF VolumeInv
    <2> QED BY <2>1, <2>2, NoNewPod
  <1> QED BY <1>3, <1>4, <1>5, <1>6 DEF Environment, Collector

LEMMA OperatorVolume ==
    ASSUME VolumeInv, PlaceInv', NEW o \in Operators, OperatorStep(o)
    PROVE  VolumeInv'
  <1>0. /\ pod \in Pods \cup {None} /\ child \in [Kinds -> Children \cup {None}]
        /\ pc[o] # "idle" => snap[o] \in Views /\ snap[o].uid <= lastUid
    BY DEF VolumeInv, PlaceInv, TypeOK, ClusterTypeOK, KnownIncarnations
  <1>1. CASE CreatePod(o) /\ pod = None
    <2>1. /\ pc[o] = "create_pod" /\ pod' = build_pod(snap[o])
          /\ UNCHANGED <<agent, child, lastUid>>
      BY <1>1 DEF CreatePod
    <2>2. KnownPods'
      BY <1>0, <2>1 DEF KnownPods, build_pod, owner_reference
    <2>3. FirstLives => child["pvc"] # None /\ ~child["pvc"].deleting
      BY <2>1 DEF VolumeInv, PlaceInv, InPlace, Past, Kinds, Labels
    <2>4. FirstVolumeKept'
      BY <2>1, <2>3 DEF FirstVolumeKept, FirstLives
    <2> QED BY <2>2, <2>4 DEF VolumeInv
  <1>2. CASE CreatePod(o) /\ pod # None
    BY <1>2, NoNewPod DEF CreatePod
  <1>3. CASE DeletePod(o)
    <2>1. pod' # None => pod # None /\ pod'.owner = pod.owner
      BY <1>0, <1>3 DEF DeletePod, delete_pod, Pods
    <2> QED BY <1>3, <2>1, NoNewPod DEF DeletePod
  <1>4. ASSUME NEW k \in Kinds, CreateChild(o, k)
        PROVE  VolumeInv'
    <2>1. child["pvc"] # None => child'["pvc"] # None
      BY <1>0, <1>4 DEF CreateChild, Kinds
    <2> QED BY <1>4, <2>1, NoNewPod DEF CreateChild
  <1>5. CASE PatchStatus(o)
    BY <1>5, NoNewPod DEF PatchStatus
  <1>6. CASE UNCHANGED clusterVars
    BY <1>6, NoNewPod DEF clusterVars
  <1>7. OperatorStep(o) => \/ CreatePod(o) \/ DeletePod(o) \/ PatchStatus(o)
                           \/ \E k \in Kinds : CreateChild(o, k)
                           \/ UNCHANGED clusterVars
    BY DEF OperatorStep, Work, reconcile, Watch, Wake, Start, DropStale, CallFails, Crash, GetChild,
           GetPod, ReadPod
  <1> QED BY <1>1, <1>2, <1>3, <1>4, <1>5, <1>6, <1>7

\* However many operators there are and whatever fails or crashes: while a name is
\* used for the first time, its agent's pod, through stops, restarts and edits, has
\* its volume, and the volume is not on its way out.
THEOREM FirstVolumeStays == Spec => []FirstVolumeKept
  <1>1. Init => VolumeInv
    <2>1. Init => PlaceInv
      BY InitPlace
    <2> QED BY <2>1 DEF Init, ClusterInit, VolumeInv, KnownPods, FirstVolumeKept
  <1>2. VolumeInv /\ [Next]_vars => VolumeInv'
    <2> SUFFICES ASSUME VolumeInv, [Next]_vars
                 PROVE  VolumeInv'
      OBVIOUS
    <2>1. PlaceInv'
      BY NextPlace DEF VolumeInv
    <2>2. CASE UNCHANGED vars
      BY <2>1, <2>2, NoNewPod DEF vars
    <2> QED BY <2>1, <2>2, EnvironmentVolume, OperatorVolume DEF Next
  <1>3. VolumeInv => FirstVolumeKept
    BY DEF VolumeInv
  <1> QED BY <1>1, <1>2, <1>3, PTL DEF Spec
=============================================================================
