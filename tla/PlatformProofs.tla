--------------------------- MODULE PlatformProofs ---------------------------
(***************************************************************************)
(* The platform implements Operator: the theorems about Operator carry     *)
(* over to the operator that works behind the REST API, and the invariants *)
(* of InstanceApi to an API whose cluster an operator works on.            *)
(***************************************************************************)
EXTENDS Platform, AtomicProofs, RestProofs, InstanceApiProofs

\* The write of a handler is a step of Operator's users, or changes nothing.
LEMMA EffectIsUsers ==
    ASSUME NEW r \in Requests, effect(r)
    PROVE  Users \/ UNCHANGED clusterVars
  <1>1. "running" \in States /\ "stopped" \in States
    BY DEF States
  <1> QED BY <1>1 DEF effect, patch_state, Users

LEMMA ApiStepIsUsers ==
    ASSUME NEW r \in Requests, ApiStep(r)
    PROVE  Users \/ UNCHANGED clusterVars
  <1>1. CASE Submit(r) \/ Check(r) \/ Read(r) \/ Poll(r) \/ Final(r) \/ AwaitGone(r)
               \/ Expire(r)
    BY <1>1 DEF Submit, Receive, Check, Read, Poll, Final, AwaitGone, Expire
  <1>2. CASE Apply(r)
    BY <1>2, EffectIsUsers DEF Apply
  <1>3. CASE ApiFails(r) \/ Disconnect(r)
    BY <1>3, EffectIsUsers DEF ApiFails, Disconnect
  <1> QED BY <1>1, <1>2, <1>3 DEF ApiStep, Handle

LEMMA NextImplements == PlatformNext => [Next]_vars
  <1> SUFFICES ASSUME PlatformNext
               PROVE  [Next]_vars
    OBVIOUS
  <1>1. CASE (\E r \in Requests : ApiStep(r)) /\ UNCHANGED operatorVars
    <2>1. Users \/ UNCHANGED clusterVars
      BY <1>1, ApiStepIsUsers
    <2>2. CASE Users
      BY <1>1, <2>2 DEF Next, Environment
    <2>3. CASE UNCHANGED clusterVars
      BY <1>1, <2>3 DEF vars, clusterVars, operatorVars
    <2> QED BY <2>1, <2>2, <2>3
  <1>2. CASE (Kubelet \/ Collector) /\ UNCHANGED <<operatorVars, apiVars>>
    BY <1>2 DEF Next, Environment
  <1>3. CASE (\E o \in Operators : OperatorStep(o)) /\ UNCHANGED apiVars
    BY <1>3 DEF Next
  <1> QED BY <1>1, <1>2, <1>3 DEF PlatformNext

\* Every behaviour of the platform is one of Operator: the API's handlers do
\* nothing to the cluster that the operator was not shown to cope with.
THEOREM Implements == PlatformSpec => ImplementsOperator
  <1>1. PlatformInit => Init
    BY DEF PlatformInit
  <1>2. [PlatformNext]_platformVars => [Next]_vars
    BY NextImplements DEF platformVars
  <1> QED BY <1>1, <1>2, PTL DEF PlatformSpec, Spec, ImplementsOperator

\* In particular the operator forgets no agent and, alone, is never misled by
\* what it has read of the pod.
THEOREM PlatformRemembers == PlatformSpec => []NeverForgotten
  BY Implements, Remembers, PTL DEF ImplementsOperator

THEOREM PlatformReadsHold == ASSUME Alone PROVE PlatformSpec => []ReadsStayTrue
  BY Implements, ReadsHold, PTL DEF ImplementsOperator

\* Behind the API as elsewhere: nothing is reported of an agent that is not isolated
\* yet, and each write is one that an operator acting in a single step could make.
THEOREM PlatformInPlace == PlatformSpec => []ReportedInPlace
  BY Implements, InPlaceWhenReported, PTL DEF ImplementsOperator

THEOREM PlatformActsAtomically == ASSUME Alone PROVE PlatformSpec => ActsAtomically
  BY Implements, SplitIsAtomic, PTL DEF ImplementsOperator

\* Requests are all that can disturb a cluster at rest; a first agent's pod has its
\* volume whatever requests do; and the operator leaves what the requests ask for.
THEOREM PlatformRestStays == PlatformSpec => RestIsKept
  BY Implements, RestStays, PTL DEF ImplementsOperator

THEOREM PlatformFirstVolume == PlatformSpec => []FirstVolumeKept
  BY Implements, FirstVolumeStays, PTL DEF ImplementsOperator

THEOREM PlatformAskedIsLeft == ASSUME Alone, Canonical PROVE PlatformSpec => []LeavesWhatIsAsked
  BY Implements, AskedIsLeft, PTL DEF ImplementsOperator

-----------------------------------------------------------------------------
(***************************************************************************)
(* The other way round.  InstanceApi was checked and proved over a cluster *)
(* where anything is reported at any time; its invariants speak of the     *)
(* requests and of the uids, which the operator, the kubelet and the       *)
(* collector leave alone.                                                  *)
(***************************************************************************)
LEMMA OthersLeaveUids ==
    ASSUME Kubelet \/ Collector \/ \E o \in Operators : OperatorStep(o)
    PROVE  lastUid' = lastUid
  <1>1. Kubelet \/ Collector => lastUid' = lastUid
    BY DEF Kubelet, StartPod, CrashContainer, RecoverContainer, EvictPod, FinishPod, RemovePod,
           Collector, CollectPod, CollectChild, RemoveVolume
  <1>2. ASSUME NEW o \in Operators, OperatorStep(o)
        PROVE  lastUid' = lastUid
    BY <1>2 DEF OperatorStep, Work, reconcile, Watch, Wake, Start, DropStale, CallFails, Crash,
                GetChild, CreateChild, GetPod, DeletePod, CreatePod, ReadPod, PatchStatus, clusterVars
  <1> QED BY <1>1, <1>2

LEMMA PlatformNextApi ==
    CreatorInv /\ RequestInv /\ [PlatformNext]_platformVars => (CreatorInv /\ RequestInv)'
  <1> SUFFICES ASSUME CreatorInv, RequestInv, [PlatformNext]_platformVars
               PROVE  (CreatorInv /\ RequestInv)'
    OBVIOUS
  <1>1. CASE \E r \in Requests : ApiStep(r)
    BY <1>1, NextCredits, NextFine DEF ApiNext
  <1>2. CASE lastUid' = lastUid /\ UNCHANGED apiVars
    BY <1>2, OthersKeep DEF apiVars, RequestInv, RequestTypes, Fine
  <1>3. CASE UNCHANGED platformVars
    BY <1>2, <1>3 DEF platformVars, vars
  <1> QED BY <1>1, <1>2, <1>3, OthersLeaveUids DEF PlatformNext

LEMMA PlatformApi == PlatformSpec => [](CreatorInv /\ RequestInv)
  <1>1. PlatformInit => ApiAloneInit
    BY DEF PlatformInit, Init, ApiAloneInit
  <1> QED BY <1>1, InitFine, PlatformNextApi, PTL DEF PlatformSpec

\* In front of a working operator, too, no instance has two creators.
THEOREM PlatformOneCreator == PlatformSpec => []OneCreatorEach
  <1>1. CreatorInv => OneCreatorEach
    BY DEF CreatorInv
  <1> QED BY <1>1, PlatformApi, PTL

\* Nor does the operator, the kubelet or the collector do to the Agent what only the
\* requests may: all they change of it is its status.
LEMMA OthersAreOthers ==
    ASSUME TypeOK, TypeOK', UNCHANGED apiVars,
           Kubelet \/ Collector \/ \E o \in Operators : OperatorStep(o)
    PROVE  Contract!Others
  <1>1. agent \in Agents \cup {None} /\ agent' \in Agents \cup {None}
    BY DEF TypeOK, ClusterTypeOK
  <1>2. Fates' = Fates /\ op' = op
    BY DEF apiVars, Fates, meaning, did_it, did_nothing
  <1>3. CASE agent' = agent
    BY <1>2, <1>3 DEF Contract!Others, Fates
  <1>4. ASSUME NEW o \in Operators, PatchStatus(o), agent # None
        PROVE  Contract!Others
    <2>1. agent' = [agent EXCEPT !.status = merge(@, draft[o])] /\ agent \in Agents
      BY <1>1, <1>4 DEF PatchStatus
    <2>2. draft[o] \in Status
      BY <1>4 DEF PatchStatus, TypeOK
    <2>3. agent' \in Agents
      BY <2>1, <2>2 DEF merge, Agents, Status
    <2>4. agent'.uid = agent.uid /\ agent'.state = agent.state /\ agent'.tmpl = agent.tmpl
      BY <2>1 DEF Agents
    <2> QED BY <1>2, <1>4, <2>3, <2>4, NoneIsNoObject DEF Contract!Others, Fates
  <1>5. Kubelet \/ Collector => agent' = agent
    BY DEF Kubelet, StartPod, CrashContainer, RecoverContainer, EvictPod, FinishPod, RemovePod,
           Collector, CollectPod, CollectChild, RemoveVolume
  <1>6. ASSUME NEW o \in Operators, OperatorStep(o)
        PROVE  agent' = agent \/ PatchStatus(o)
    <2>1. ASSUME NEW k \in Kinds, GetChild(o, k) \/ CreateChild(o, k)
          PROVE  agent' = agent
      BY <2>1 DEF GetChild, CreateChild, clusterVars
    <2>2. GetPod(o) \/ DeletePod(o) \/ CreatePod(o) \/ ReadPod(o) => agent' = agent
      BY DEF GetPod, DeletePod, CreatePod, ReadPod, clusterVars
    <2>3. Watch(o) \/ Wake(o) \/ Start(o) \/ DropStale(o) \/ CallFails(o) \/ Crash(o)
             => agent' = agent
      BY DEF Watch, Wake, Start, DropStale, CallFails, Crash, clusterVars
    <2> QED BY <1>6, <2>1, <2>2, <2>3 DEF OperatorStep, Work, reconcile
  <1>7. ASSUME NEW o \in Operators, PatchStatus(o), agent = None
        PROVE  agent' = agent
    BY <1>7 DEF PatchStatus
  <1> QED BY <1>3, <1>4, <1>5, <1>6, <1>7

LEMMA PlatformKeepsContract ==
    ASSUME TypeOK, TypeOK', RequestInv, AskedOps, [PlatformNext]_platformVars
    PROVE  AskedOps' /\ [Contract!ContractNext]_Contract!contractVars
  <1>0. AgentFits
    BY DEF TypeOK, ClusterTypeOK, AgentFits
  <1>1. ASSUME NEW r \in Requests, ApiStep(r)
        PROVE  AskedOps' /\ [Contract!ContractNext]_Contract!contractVars
    BY <1>0, <1>1, StepAsks, StepKeepsContract
  <1>2. CASE /\ Kubelet \/ Collector \/ \E o \in Operators : OperatorStep(o)
             /\ UNCHANGED apiVars
    <2>1. Contract!Others
      BY <1>2, OthersAreOthers
    <2>2. AskedOps'
      BY <1>2 DEF AskedOps, apiVars
    <2> QED BY <2>1, <2>2 DEF Contract!ContractNext
  <1>3. CASE UNCHANGED platformVars
    <2>1. Fates' = Fates /\ UNCHANGED <<agent, pod, at, op>>
      BY <1>3 DEF platformVars, vars, apiVars, Fates, meaning, did_it, did_nothing
    <2> QED BY <2>1 DEF AskedOps, Contract!contractVars, Fates
  <1> QED BY <1>1, <1>2, <1>3 DEF PlatformNext

\* With a working operator behind the API, too, its answers mean what they say.
THEOREM PlatformAnswersTrue == PlatformSpec => AnswersMean
  <1>1. PlatformInit => AskedOps /\ Contract!ContractInit
    BY DEF PlatformInit, ApiInit, AskedOps, meaning, Contract!ContractInit
  <1>2. PlatformSpec => []TypeOK
    BY Implements, TypeCorrect, PTL DEF ImplementsOperator
  <1>3. TypeOK /\ TypeOK' /\ RequestInv /\ AskedOps /\ [PlatformNext]_platformVars
           => AskedOps' /\ [Contract!ContractNext]_Contract!contractVars
    BY PlatformKeepsContract
  <1>4. PlatformSpec => []RequestInv
    BY PlatformApi, PTL
  <1> QED BY <1>1, <1>2, <1>3, <1>4, PTL DEF PlatformSpec, AnswersMean, Contract!ContractSpec
=============================================================================
