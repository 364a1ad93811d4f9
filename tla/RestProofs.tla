----------------------------- MODULE RestProofs ------------------------------
(***************************************************************************)
(* What reconciling leaves behind and leaves alone.  With quantities that  *)
(* the API server stores as they are, a single operator leaves the pod it  *)
(* was asked for, and replaces one only for a reason; and a cluster that   *)
(* has come to rest is left at rest by any number of operators.            *)
(***************************************************************************)
EXTENDS PlacementProofs

-----------------------------------------------------------------------------
(***************************************************************************)
(* Canonical quantities.                                                   *)
(***************************************************************************)

\* No quantity that users write is rewritten ("1" and "4Gi", but not "0.5").
Canonical == \A t \in Templates : stored(t) = t

\* Whatever is being worked on was once submitted by a user.
KnownSpecs ==
    /\ agent # None => agent.tmpl \in Templates
    /\ \A o \in Operators : /\ store[o] # None => store[o].tmpl \in Templates
                            /\ snap[o] # None => snap[o].tmpl \in Templates

\* A step writes no spec but a user's, and an operator learns of specs only from
\* the Agent, through its cache.
LEMMA SpecsFlow ==
    ASSUME TypeOK, Next
    PROVE  /\ agent' # None => \/ agent'.tmpl \in Templates
                               \/ agent # None /\ agent'.tmpl = agent.tmpl
           /\ \A o \in Operators : /\ store'[o] \in {None, store[o], view(agent)}
                                   /\ snap'[o] \in {None, snap[o], store[o]}
  <1>0. agent \in Agents \cup {None}
    BY DEF TypeOK, ClusterTypeOK
  <1>1. CASE Environment /\ UNCHANGED operatorVars
    <2>1. ASSUME Users, agent' # None
          PROVE  agent'.tmpl \in Templates \/ (agent # None /\ agent'.tmpl = agent.tmpl)
      <3>1. ASSUME NEW t \in Templates, CreateAgent(t) \/ EditSpec(t)
            PROVE  agent'.tmpl \in Templates
        <4>1. CASE CreateAgent(t)
          BY <4>1 DEF CreateAgent
        <4>2. CASE EditSpec(t)
          BY <1>0, <4>2 DEF EditSpec, Agents
        <4> QED BY <3>1, <4>1, <4>2
      <3>2. ASSUME NEW s \in States, SetState(s)
            PROVE  agent # None /\ agent'.tmpl = agent.tmpl
        BY <1>0, <3>2 DEF SetState, Agents
      <3>3. CASE DeleteAgent \/ RestartPod
        BY <2>1, <3>3 DEF DeleteAgent, RestartPod
      <3> QED BY <2>1, <3>1, <3>2, <3>3 DEF Users
    <2>2. Kubelet \/ Collector => UNCHANGED agent
      BY DEF Kubelet, StartPod, CrashContainer, RecoverContainer, EvictPod, FinishPod, RemovePod,
             Collector, CollectPod, CollectChild, RemoveVolume
    <2> QED BY <1>1, <2>1, <2>2 DEF Environment, operatorVars
  <1>2. ASSUME NEW o \in Operators, OperatorStep(o)
        PROVE  /\ agent' # None => agent # None /\ agent'.tmpl = agent.tmpl
               /\ \A p \in Operators : /\ store'[p] \in {None, store[p], view(agent)}
                                       /\ snap'[p] \in {None, snap[p], store[p]}
    <2>1. CASE Watch(o) \/ Wake(o) \/ Start(o) \/ DropStale(o) \/ Crash(o)
      BY <2>1 DEF Watch, Wake, Start, DropStale, Crash, clusterVars, TypeOK
    <2>2. CASE PatchStatus(o)
      BY <1>0, <2>2 DEF PatchStatus, requeue, Agents, TypeOK
    <2>3. CASE reconcile(o) /\ ~PatchStatus(o)
      BY <2>3 DEF reconcile, GetChild, CreateChild, GetPod, DeletePod, CreatePod, ReadPod, goto,
                  error_policy, requeue, clusterVars, TypeOK
    <2>4. CASE CallFails(o)
      BY <2>4 DEF CallFails, error_policy, requeue, clusterVars, TypeOK
    <2> QED BY <1>2, <2>1, <2>2, <2>3, <2>4 DEF OperatorStep, Work
  <1> QED BY <1>1, <1>2 DEF Next

LEMMA NextSpecs == TypeOK /\ KnownSpecs /\ [Next]_vars => KnownSpecs'
  <1> SUFFICES ASSUME TypeOK, KnownSpecs, [Next]_vars
               PROVE  KnownSpecs'
    OBVIOUS
  <1>1. CASE Next
    BY <1>1, SpecsFlow DEF KnownSpecs, view
  <1>2. CASE UNCHANGED vars
    BY <1>2 DEF vars, KnownSpecs
  <1> QED BY <1>1, <1>2

\* The pod that is built for such a snapshot differs from it in nothing.
LEMMA BuiltAsAsked ==
    ASSUME Canonical, NEW a, a.tmpl \in Templates
    PROVE  ~pod_needs_update(build_pod(a), a)
  BY DEF Canonical, build_pod, pod_needs_update

AskedInv == AloneInv /\ KnownSpecs /\ LeavesWhatIsAsked

LEMMA ReconcileAsked ==
    ASSUME AskedInv, Alone, Canonical, NEW o \in Operators, reconcile(o)
    PROVE  LeavesWhatIsAsked'
  <1>0. /\ pc \in [Operators -> Labels]
        /\ pod \in Pods \cup {None}
        /\ pc[o] # "idle" => snap[o] \in Views /\ snap[o].tmpl \in Templates
    BY NoneIsNoView DEF AskedInv, AloneInv, TypeOK, ClusterTypeOK, KnownSpecs
  \* With one operator it is enough to look at the one that moves.
  <1>1. ASSUME UNCHANGED <<pod, snap>>, pc'[o] \in AfterPod => pc[o] \in AfterPod
        PROVE  LeavesWhatIsAsked'
    BY <1>1 DEF AskedInv, Alone, LeavesWhatIsAsked, pod_needs_update
  <1>2. ASSUME pc'[o] \notin AfterPod
        PROVE  LeavesWhatIsAsked'
    BY <1>2 DEF Alone, LeavesWhatIsAsked
  <1>3. ASSUME requeue(o)
        PROVE  LeavesWhatIsAsked'
    BY <1>0, <1>2, <1>3 DEF requeue, AfterPod
  <1>4. ASSUME NEW k \in Kinds, GetChild(o, k) \/ CreateChild(o, k)
        PROVE  LeavesWhatIsAsked'
    <2>1. CASE requeue(o)
      BY <1>3, <2>1
    <2>2. CASE \E l \in {CreateAt[k], NextAfter[k]} : goto(o, l)
      <3>1. pc'[o] \in {CreateAt[k], NextAfter[k]} /\ UNCHANGED <<pod, snap>>
        BY <1>0, <1>4, <2>2 DEF GetChild, CreateChild, goto, clusterVars
      <3>2. pc'[o] \in AfterPod => pc[o] \in AfterPod
        BY <1>4, <3>1 DEF GetChild, CreateChild, Kinds, GetAt, CreateAt, NextAfter, AfterPod
      <3> QED BY <1>1, <3>1, <3>2
    <2> QED BY <1>4, <2>1, <2>2 DEF GetChild, CreateChild, error_policy
  <1>5. CASE GetPod(o)
    <2>1. pc'[o] = after_get_pod(snap[o]) /\ UNCHANGED <<pod, snap>>
      BY <1>0, <1>5 DEF GetPod, goto, clusterVars
    <2>2. CASE snap[o].state = "running" /\ pod # None
      <3>1. pc'[o] \in AfterPod => ~pod_needs_update(pod, snap[o])
        BY <2>1, <2>2 DEF after_get_pod, AfterPod
      <3> QED BY <2>1, <3>1 DEF Alone, LeavesWhatIsAsked, pod_needs_update
    <2>3. CASE ~(snap[o].state = "running" /\ pod # None)
      BY <2>1, <2>3 DEF Alone, LeavesWhatIsAsked
    <2> QED BY <2>2, <2>3
  <1>6. CASE DeletePod(o)
    <2>1. requeue(o) \/ pod' = None \/ pod'.deleting
      BY <1>0, <1>6 DEF DeletePod, delete_pod, error_policy, Pods
    <2> QED BY <1>3, <2>1 DEF LeavesWhatIsAsked
  <1>7. CASE CreatePod(o)
    <2>1. \/ requeue(o)
          \/ pod' = build_pod(snap[o]) /\ snap' = snap
      BY <1>7 DEF CreatePod, goto, error_policy
    <2>2. ~pod_needs_update(build_pod(snap[o]), snap[o])
      BY <1>0, <1>7, BuiltAsAsked DEF CreatePod
    <2> QED BY <1>3, <2>1, <2>2 DEF Alone, LeavesWhatIsAsked, pod_needs_update
  <1>8. CASE ReadPod(o)
    <2>1. pc[o] = "read_pod" /\ UNCHANGED <<pod, snap>>
      BY <1>8 DEF ReadPod, clusterVars
    <2> QED BY <1>1, <2>1 DEF AfterPod
  <1>9. CASE PatchStatus(o)
    BY <1>3, <1>9 DEF PatchStatus
  <1> QED BY <1>4, <1>5, <1>6, <1>7, <1>8, <1>9 DEF reconcile

LEMMA NextAsked ==
    ASSUME Alone, Canonical
    PROVE  AskedInv /\ [Next]_vars => AskedInv'
  <1> SUFFICES ASSUME AskedInv, [Next]_vars
               PROVE  LeavesWhatIsAsked'
    BY NextKeeps, NextSpecs DEF AskedInv, AloneInv
  \* Whatever becomes of the pod without the operator, a live one is the same.
  <1>1. ASSUME PodOnlyLeaves, UNCHANGED <<pc, snap>>
        PROVE  LeavesWhatIsAsked'
    BY <1>1 DEF AskedInv, LeavesWhatIsAsked, PodOnlyLeaves, pod_needs_update
  <1>2. CASE Environment /\ UNCHANGED operatorVars
    BY <1>1, <1>2, EnvironmentLeaves DEF operatorVars, AskedInv, AloneInv
  <1>3. ASSUME NEW o \in Operators, OperatorStep(o)
        PROVE  LeavesWhatIsAsked'
    <2>1. CASE Watch(o) \/ Wake(o) \/ DropStale(o)
      BY <1>1, <2>1 DEF Watch, Wake, DropStale, clusterVars, PodOnlyLeaves
    <2>2. CASE Start(o) \/ Crash(o) \/ CallFails(o)
      <3>1. pc'[o] \in {"idle", "get_pvc"}
        BY <2>2 DEF Start, Crash, CallFails, error_policy, requeue, AskedInv, AloneInv, TypeOK
      <3> QED BY <3>1 DEF Alone, LeavesWhatIsAsked, AfterPod
    <2>3. CASE reconcile(o)
      BY <2>3, ReconcileAsked
    <2> QED BY <1>3, <2>1, <2>2, <2>3 DEF OperatorStep, Work
  <1>4. CASE UNCHANGED vars
    BY <1>1, <1>4 DEF vars, PodOnlyLeaves
  <1> QED BY <1>2, <1>3, <1>4 DEF Next

LEMMA AskedInvariant ==
    ASSUME Alone, Canonical
    PROVE  Spec => []AskedInv
  <1>1. Init => KnownSpecs /\ LeavesWhatIsAsked
    BY DEF Init, ClusterInit, OperatorInit, KnownSpecs, LeavesWhatIsAsked
  <1>2. AskedInv /\ [Next]_vars => AskedInv'
    BY NextAsked
  <1>3. AloneInv /\ KnownSpecs /\ LeavesWhatIsAsked => AskedInv
    BY DEF AskedInv
  <1> QED BY <1>1, <1>2, <1>3, AloneInvariant, PTL DEF Spec

\* A single operator, when it has dealt with the pod, leaves no live pod but one
\* with the image and limits it was asked for, whoever edits and deletes meanwhile.
THEOREM AskedIsLeft == ASSUME Alone, Canonical PROVE Spec => []LeavesWhatIsAsked
  <1>1. AskedInv => LeavesWhatIsAsked
    BY DEF AskedInv
  <1> QED BY <1>1, AskedInvariant, PTL

\* It never deletes a live pod that was built from the very spec it reconciles.
THEOREM RecreatedForAReason == ASSUME Alone, Canonical PROVE Spec => RecreatesOnlyOnChange
  <1>1. AskedInv /\ [Next]_vars
          => [\A o \in Operators :
                 DeletePod(o) /\ pc[o] = "replace_pod" /\ pod # None /\ ~pod.deleting
                    => pod.tmpl # stored(snap[o].tmpl)]_vars
    <2> SUFFICES ASSUME AskedInv, NEW o \in Operators, pc[o] = "replace_pod", pod # None,
                        ~pod.deleting
                 PROVE  pod.tmpl # stored(snap[o].tmpl)
      OBVIOUS
    <2>1. pod_needs_update(pod, snap[o])
      BY DEF AskedInv, AloneInv, ReadsStayTrue
    <2>2. snap[o] \in Views /\ snap[o].tmpl \in Templates
      BY NoneIsNoView DEF AskedInv, AloneInv, TypeOK, KnownSpecs
    <2> QED BY <2>1, <2>2 DEF Canonical, pod_needs_update
  <1> QED BY <1>1, AskedInvariant, PTL DEF Spec, RecreatesOnlyOnChange

-----------------------------------------------------------------------------
(***************************************************************************)
(* At rest.  What a reconciliation does to the pod depends on where it     *)
(* stands; that BranchTaken holds needs no assumption on how many there    *)
(* are.                                                                    *)
(***************************************************************************)

\* What is about to be reported of a stopped agent.
StoppedDraft ==
    \A o \in Operators :
       pc[o] = "patch_status" /\ snap[o].state = "stopped"
          => draft[o] = [phase |-> "Stopped", pod_ip |-> None]

Branches == BranchTaken /\ StoppedDraft

LEMMA GotoBranches ==
    ASSUME TypeOK, Branches, NEW o \in Operators, NEW l \in Labels, goto(o, l),
           l = "delete_pod" => snap[o].state = "stopped",
           l \in {"replace_pod", "create_pod"} => snap[o].state = "running",
           l # "patch_status"
    PROVE  Branches'
  BY DEF TypeOK, Branches, BranchTaken, StoppedDraft, goto

LEMMA RequeueBranches ==
    ASSUME TypeOK, Branches, NEW o \in Operators, requeue(o)
    PROVE  Branches'
  BY DEF TypeOK, Branches, BranchTaken, StoppedDraft, requeue

LEMMA ReconcileBranches ==
    ASSUME TypeOK, Branches, NEW o \in Operators, reconcile(o)
    PROVE  Branches'
  <1>1. ASSUME NEW k \in Kinds, GetChild(o, k) \/ CreateChild(o, k)
        PROVE  Branches'
    <2>1. \A l \in {CreateAt[k], NextAfter[k]} :
             /\ l \in Labels
             /\ l \notin {"delete_pod", "replace_pod", "create_pod", "patch_status"}
      BY DEF Kinds, CreateAt, NextAfter, Labels
    <2> QED BY <1>1, <2>1, GotoBranches, RequeueBranches DEF GetChild, CreateChild, error_policy
  <1>2. CASE GetPod(o)
    <2>1. /\ goto(o, after_get_pod(snap[o]))
          /\ snap[o].state \in {"running", "stopped"}
      BY <1>2 DEF GetPod, TypeOK, Views, States
    <2>2. after_get_pod(snap[o]) \in Labels
      BY DEF after_get_pod, Labels
    <2> QED BY <2>1, <2>2, GotoBranches DEF after_get_pod
  <1>3. CASE DeletePod(o)
    <2>1. pc[o] = "replace_pod" => snap[o].state = "running"
      BY DEF Branches, BranchTaken
    <2>2. "get_networkpolicy" \in Labels /\ "create_pod" \in Labels
      BY DEF Labels
    <2> QED BY <1>3, <2>1, <2>2, GotoBranches, RequeueBranches DEF DeletePod, error_policy
  <1>4. CASE CreatePod(o)
    <2>1. "get_networkpolicy" \in Labels
      BY DEF Labels
    <2> QED BY <1>4, <2>1, GotoBranches, RequeueBranches DEF CreatePod, error_policy
  <1>5. CASE ReadPod(o)
    <2>1. /\ pc' = [pc EXCEPT ![o] = "patch_status"] /\ snap' = snap
          /\ draft' = [draft EXCEPT ![o] = status_of(snap[o])]
      BY <1>5 DEF ReadPod
    <2>2. snap[o].state = "stopped" => status_of(snap[o]) = [phase |-> "Stopped", pod_ip |-> None]
      BY DEF status_of
    <2> QED BY <2>1, <2>2 DEF TypeOK, Branches, BranchTaken, StoppedDraft
  <1>6. CASE PatchStatus(o)
    BY <1>6, RequeueBranches DEF PatchStatus
  <1> QED BY <1>1, <1>2, <1>3, <1>4, <1>5, <1>6 DEF reconcile

LEMMA NextBranches == TypeOK /\ Branches /\ [Next]_vars => Branches'
  <1> SUFFICES ASSUME TypeOK, Branches, [Next]_vars
               PROVE  Branches'
    OBVIOUS
  <1>1. CASE UNCHANGED <<pc, snap, draft>>
    BY <1>1 DEF Branches, BranchTaken, StoppedDraft
  <1>2. ASSUME NEW o \in Operators, OperatorStep(o)
        PROVE  Branches'
    <2>1. CASE Watch(o) \/ Wake(o) \/ DropStale(o)
      BY <1>1, <2>1 DEF Watch, Wake, DropStale
    <2>2. CASE Start(o) \/ Crash(o)
      BY <2>2 DEF Start, Crash, TypeOK, Branches, BranchTaken, StoppedDraft
    <2>3. CASE reconcile(o)
      BY <2>3, ReconcileBranches
    <2>4. CASE CallFails(o)
      BY <2>4, RequeueBranches DEF CallFails, error_policy
    <2> QED BY <1>2, <2>1, <2>2, <2>3, <2>4 DEF OperatorStep, Work
  <1> QED BY <1>1, <1>2 DEF Next, operatorVars, vars

\* The cluster as it was, but for the status and for what the kubelet does to the
\* containers of a pod that stays.
SameCluster ==
    /\ child' = child
    /\ agent = None => agent' = None
    /\ agent # None => /\ agent' # None
                       /\ agent'.uid = agent.uid
                       /\ agent'.state = agent.state
                       /\ agent'.tmpl = agent.tmpl
    /\ pod = None => pod' = None
    /\ pod # None => /\ pod' # None
                     /\ pod'.owner = pod.owner
                     /\ pod'.tmpl = pod.tmpl
                     /\ ~pod'.deleting

\* If nothing else changes, and no operator learns anything else, it is rest.
LEMMA SameRests ==
    ASSUME AtRest, SameCluster,
           \A o \in Operators : /\ {store'[o], snap'[o]} \subseteq {None, view(agent)}
                                /\ pc'[o] # "replace_pod"
    PROVE  AtRest'
  <1>1. view(agent)' = view(agent)
    BY DEF SameCluster, view
  <1>2. Reconciled'
    BY DEF AtRest, SameCluster, Reconciled, ChildrenInPlace, ServedBy, NoChildren, pod_needs_update
  <1>3. agent' # None => child'["pvc"].owner = agent'.uid /\ ~child'["pvc"].deleting
    BY DEF AtRest, SameCluster
  <1> QED BY <1>1, <1>2, <1>3 DEF AtRest

\* The kubelet and the garbage collector find nothing to remove.
LEMMA EnvironmentRests ==
    ASSUME TypeOK, ForeignKept, AtRest, Kubelet \/ Collector
    PROVE  SameCluster /\ agent' = agent
  <1>0. /\ pod \in Pods \cup {None}
        /\ pod # None => ~pod.deleting /\ agent # None /\ pod.owner = agent.uid
    BY DEF TypeOK, ClusterTypeOK, AtRest, Reconciled
  <1>1. ASSUME NEW k \in Kinds, child[k] # None, ~child[k].deleting
        PROVE  ~orphaned(child[k].owner)
    <2>1. CASE agent = None \/ k \in Taken
      <3>1. child[k] = Foreign
        BY <1>1, <2>1 DEF AtRest, Reconciled, NoChildren, ForeignKept
      <3> QED BY <3>1 DEF orphaned, Foreign
    <2>2. CASE agent # None /\ k \notin Taken
      <3>1. child[k].owner = agent.uid
        BY <2>2 DEF AtRest, Reconciled, ChildrenInPlace, ServedBy, Kinds
      <3> QED BY <2>2, <3>1 DEF orphaned
    <2> QED BY <2>1, <2>2
  <1>2. CASE Kubelet
    <2>1. pod \in Pods /\ UNCHANGED <<agent, child>>
      BY <1>0, <1>2 DEF Kubelet, StartPod, CrashContainer, RecoverContainer, EvictPod, FinishPod,
                        RemovePod
    <2>2. /\ pod' \in Pods
          /\ pod'.owner = pod.owner /\ pod'.tmpl = pod.tmpl /\ ~pod'.deleting
      BY <1>0, <1>2, <2>1 DEF Kubelet, StartPod, CrashContainer, RecoverContainer, EvictPod,
                              FinishPod, RemovePod, Pods
    <2> QED BY <2>1, <2>2, NoneIsNoObject DEF SameCluster
  <1>3. ~CollectPod
    BY <1>0 DEF CollectPod, orphaned
  <1>4. ~RemoveVolume
    <2>1. agent = None => child["pvc"] = None \/ child["pvc"] = Foreign
      BY DEF AtRest, Reconciled, NoChildren, Kinds
    <2> QED BY <2>1 DEF RemoveVolume, AtRest, Foreign
  <1>5. \A k \in Kinds : ~CollectChild(k)
    BY <1>1 DEF CollectChild
  <1> QED BY <1>2, <1>3, <1>4, <1>5 DEF Collector

\* A reconciliation goes through its calls and comes to its end.
LEMMA ReconcileRests ==
    ASSUME TypeOK, Branches, AtRest, NEW o \in Operators, reconcile(o)
    PROVE  /\ SameCluster
           /\ store' = store
           /\ \A p \in Operators : snap'[p] \in {None, snap[p]} /\ pc'[p] # "replace_pod"
           /\ agent # None /\ agent.state = "stopped" /\ agent.status.phase = "Stopped"
                 => agent'.status = agent.status
  <1>0. /\ pc \in [Operators -> Labels] /\ snap \in [Operators -> Views \cup {None}]
        /\ pod \in Pods \cup {None} /\ agent \in Agents \cup {None}
        /\ \A p \in Operators : pc[p] # "replace_pod"
        /\ pod # None => ~pod.deleting
    BY DEF TypeOK, ClusterTypeOK, AtRest, Reconciled
  <1>1. pc[o] # "idle" => /\ snap[o] = view(agent) /\ agent # None
                         /\ snap[o].state = agent.state /\ snap[o].tmpl = agent.tmpl
    BY NoneIsNoView DEF TypeOK, AtRest, view
  <1>2. UNCHANGED <<agent, pod, child>> => SameCluster
    BY <1>0 DEF SameCluster
  <1>3. ASSUME NEW l \in Labels \ {"replace_pod"}, goto(o, l)
        PROVE  /\ store' = store
               /\ \A p \in Operators : snap'[p] \in {None, snap[p]} /\ pc'[p] # "replace_pod"
    BY <1>0, <1>3 DEF goto
  <1>4. ASSUME requeue(o)
        PROVE  /\ store' = store
               /\ \A p \in Operators : snap'[p] \in {None, snap[p]} /\ pc'[p] # "replace_pod"
    BY <1>0, <1>4 DEF requeue
  <1>5. ASSUME NEW k \in Kinds, GetChild(o, k) \/ CreateChild(o, k)
        PROVE  /\ UNCHANGED <<agent, pod, child>>
               /\ requeue(o) \/ \E l \in Labels \ {"replace_pod"} : goto(o, l)
    <2>1. {CreateAt[k], NextAfter[k]} \subseteq Labels \ {"replace_pod"}
      BY DEF Kinds, CreateAt, NextAfter, Labels
    <2>2. pc[o] # "idle"
      BY <1>5, LabelFacts DEF GetChild, CreateChild
    <2>3. child[k] # None
      BY <1>1, <2>2 DEF AtRest, Reconciled, ChildrenInPlace, ServedBy, Kinds
    <2> QED BY <1>5, <2>1, <2>3 DEF GetChild, CreateChild, error_policy, clusterVars
  <1>6. CASE GetPod(o)
    <2>1. after_get_pod(snap[o]) \in Labels \ {"replace_pod"}
      <3>1. agent.state = "running" => pod # None /\ ~pod_needs_update(pod, snap[o])
        BY <1>1, <1>6 DEF GetPod, AtRest, Reconciled, pod_needs_update
      <3>2. agent.state \in {"running", "stopped"}
        BY <1>0, <1>1, <1>6 DEF GetPod, Agents, States
      <3> QED BY <1>1, <1>6, <3>1, <3>2 DEF GetPod, after_get_pod, Labels
    <2> QED BY <1>2, <1>3, <1>6, <2>1 DEF GetPod, clusterVars
  <1>7. CASE DeletePod(o)
    <2>1. pc[o] = "delete_pod" /\ pod = None
      BY <1>0, <1>1, <1>7 DEF DeletePod, Branches, BranchTaken, AtRest, Reconciled
    <2> QED BY <1>2, <1>4, <1>7, <2>1 DEF DeletePod, error_policy
  <1>8. CASE CreatePod(o)
    <2>1. pc[o] = "create_pod" /\ pod # None
      BY <1>1, <1>8 DEF CreatePod, Branches, BranchTaken, AtRest, Reconciled
    <2> QED BY <1>2, <1>4, <1>8, <2>1 DEF CreatePod, error_policy
  <1>9. CASE ReadPod(o)
    BY <1>0, <1>2, <1>9 DEF ReadPod, clusterVars
  <1>10. CASE PatchStatus(o)
    <2>1. agent' = [agent EXCEPT !.status = merge(@, draft[o])] /\ UNCHANGED <<pod, child>>
      BY <1>1, <1>10 DEF PatchStatus
    <2>2. SameCluster
      <3>1. agent \in Agents /\ draft[o] \in Status
        BY <1>0, <1>1, <1>10 DEF PatchStatus, TypeOK
      <3>2. /\ agent' \in Agents
            /\ agent'.uid = agent.uid /\ agent'.state = agent.state /\ agent'.tmpl = agent.tmpl
        BY <2>1, <3>1 DEF merge, Agents, Status
      <3> QED BY <1>0, <2>1, <3>1, <3>2, NoneIsNoObject DEF SameCluster
    <2>3. agent.state = "stopped" => draft[o] = [phase |-> "Stopped", pod_ip |-> None]
      BY <1>1, <1>10 DEF PatchStatus, Branches, StoppedDraft
    <2>4. agent.state = "stopped" /\ agent.status.phase = "Stopped" => agent'.status = agent.status
      BY <1>0, <1>1, <1>10, <2>1, <2>3 DEF PatchStatus, merge, Agents, Status
    <2> QED BY <1>4, <1>10, <2>2, <2>4 DEF PatchStatus
  <1> QED BY <1>2, <1>3, <1>4, <1>5, <1>6, <1>7, <1>8, <1>9, <1>10 DEF reconcile

RestInv == TypeOK /\ Branches /\ ForeignKept

LEMMA StepRests ==
    ASSUME RestInv, AtRest, Next
    PROVE  \/ Users
           \/ /\ AtRest'
              /\ agent # None /\ agent.state = "stopped" /\ agent.status.phase = "Stopped"
                    => agent'.status = agent.status
  <1>0. /\ \A o \in Operators : /\ {store[o], snap[o]} \subseteq {None, view(agent)}
                                /\ pc[o] # "replace_pod"
        /\ store \in [Operators -> Views \cup {None}]
        /\ snap \in [Operators -> Views \cup {None}]
        /\ pc \in [Operators -> Labels]
    BY DEF AtRest, RestInv, TypeOK
  <1>1. CASE (Kubelet \/ Collector) /\ UNCHANGED operatorVars
    BY <1>0, <1>1, EnvironmentRests, SameRests DEF RestInv, operatorVars
  <1>2. ASSUME NEW o \in Operators, reconcile(o)
        PROVE  /\ AtRest'
               /\ agent # None /\ agent.state = "stopped" /\ agent.status.phase = "Stopped"
                     => agent'.status = agent.status
    BY <1>0, <1>2, ReconcileRests, SameRests DEF RestInv
  <1>3. ASSUME NEW o \in Operators,
               Watch(o) \/ Wake(o) \/ Start(o) \/ DropStale(o) \/ CallFails(o) \/ Crash(o)
        PROVE  AtRest' /\ agent' = agent
    <2>1. UNCHANGED <<agent, pod, child>>
      BY <1>3 DEF Watch, Wake, Start, DropStale, CallFails, Crash, clusterVars
    <2>2. SameCluster
      BY <2>1 DEF SameCluster, AtRest, Reconciled
    <2>3. \A p \in Operators : /\ {store'[p], snap'[p]} \subseteq {None, view(agent)}
                               /\ pc'[p] # "replace_pod"
      BY <1>0, <1>3 DEF Watch, Wake, Start, DropStale, CallFails, Crash, error_policy, requeue
    <2> QED BY <2>1, <2>2, <2>3, SameRests
  <1> QED BY <1>1, <1>2, <1>3 DEF Next, Environment, OperatorStep, Work

\* Once a cluster is at rest no reconciliation changes it, of any number of operators
\* and whatever fails or crashes, until a user does something.
THEOREM RestStays == Spec => RestIsKept
  <1>1. Init => Branches
    BY DEF Init, OperatorInit, Branches, BranchTaken, StoppedDraft
  <1>2. TypeOK /\ Branches /\ ForeignKept /\ [Next]_vars
          => [AtRest =>
                 \/ Users
                 \/ /\ AtRest'
                    /\ agent # None /\ agent.state = "stopped" /\ agent.status.phase = "Stopped"
                          => agent'.status = agent.status]_vars
    BY StepRests DEF RestInv
  <1> QED BY <1>1, <1>2, NextBranches, TypeCorrect, ForeignUntouched, PTL DEF Spec, RestIsKept
=============================================================================
