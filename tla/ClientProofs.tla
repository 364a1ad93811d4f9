---------------------------- MODULE ClientProofs -----------------------------
(***************************************************************************)
(* agent-cli does to the API what any client may do: what is proved of     *)
(* InstanceApi holds when some of the requests are agent-cli's.            *)
(***************************************************************************)
EXTENDS Client, InstanceApiProofs

ExitTypes == exit \in [Invocations -> Exits \cup {None}]

\* An invocation ends without touching the API, but for the connection of a delete,
\* which it drops.
LEMMA ExitIsDisconnect ==
    ASSUME RequestInv, NEW r \in Invocations, CliStep(r)
    PROVE  Disconnect(r) \/ UNCHANGED apiAloneVars
  <1>1. r \in Requests
    BY InvocationsAssumption
  <1>2. CASE HandleError(r) \/ PrintAnswer(r)
    BY <1>2 DEF HandleError, PrintAnswer, exit_with, apiAloneVars, apiVars
  <1>3. CASE PrintDeleted(r)
    <2>1. at' = [at EXCEPT ![r] = IF at[r] = "closed" THEN "closed" ELSE "cut"]
      BY <1>3 DEF PrintDeleted
    <2>2. UNCHANGED <<clusterVars, op, code, heard, late, made, apiFaults>>
      BY <1>3 DEF PrintDeleted, exit_with
    <2>3. CASE at[r] \in {"closed", "cut"}
      <3>1. at' = at
        BY <1>1, <2>1, <2>3 DEF RequestInv, RequestTypes
      <3> QED BY <2>2, <3>1 DEF apiAloneVars, apiVars
    <2>4. CASE at[r] \notin {"closed", "cut", "idle"}
      BY <2>1, <2>2, <2>4 DEF Disconnect
    <2>5. ASSUME at[r] = "idle"
          PROVE  FALSE
      BY <1>1, <1>3, <2>5, Before, NoneIsNoCode DEF PrintDeleted, Fine, Codes
    <2> QED BY <2>3, <2>4, <2>5
  <1> QED BY <1>2, <1>3 DEF CliStep

LEMMA ClientStepIsApis == RequestInv /\ [ClientNext]_clientVars => [ApiNext]_apiAloneVars
  <1> SUFFICES ASSUME RequestInv, [ClientNext]_clientVars
               PROVE  [ApiNext]_apiAloneVars
    OBVIOUS
  <1>1. ASSUME NEW r \in Invocations, Invoke(r)
        PROVE  ApiNext
    <2>1. r \in Requests
      BY InvocationsAssumption
    <2>2. PICK o \in Ops \cap Commands : Receive(r, o, Gateway)
      BY <1>1 DEF Invoke
    <2>3. Submit(r)
      BY <2>2, GatewayAssumption DEF Submit
    <2> QED BY <2>1, <2>3 DEF ApiNext, ApiStep
  <1>2. ASSUME NEW r \in Invocations, CliStep(r)
        PROVE  ApiNext \/ UNCHANGED apiAloneVars
    BY <1>2, ExitIsDisconnect, InvocationsAssumption DEF ApiNext, ApiStep
  <1>3. ASSUME NEW r \in Requests,
               Submit(r) \/ Handle(r) \/ Expire(r) \/ ApiFails(r) \/ Disconnect(r)
        PROVE  ApiNext
    BY <1>3 DEF ApiNext, ApiStep
  <1>4. CASE Report /\ UNCHANGED apiVars
    BY <1>4 DEF ApiNext
  <1>5. CASE UNCHANGED clientVars
    BY <1>5 DEF clientVars, apiAloneVars
  <1> QED BY <1>1, <1>2, <1>3, <1>4, <1>5 DEF ClientNext

LEMMA NextExits == ExitTypes /\ [ClientNext]_clientVars => ExitTypes'
  <1> SUFFICES ASSUME ExitTypes, [ClientNext]_clientVars
               PROVE  ExitTypes'
    OBVIOUS
  <1>1. ASSUME NEW r \in Invocations, NEW e \in Exits, exit' = [exit EXCEPT ![r] = e]
        PROVE  ExitTypes'
    BY <1>1 DEF ExitTypes
  <1>2. ASSUME NEW r \in Invocations, CliStep(r)
        PROVE  \E e \in Exits : exit' = [exit EXCEPT ![r] = e]
    <2>1. {"printed", "refused", "failed", "panicked"} = Exits
      BY DEF Exits
    <2>2. decode(op[r]) \subseteq Exits
      BY <2>1 DEF decode
    <2> QED BY <1>2, <2>1, <2>2 DEF CliStep, HandleError, PrintDeleted, PrintAnswer, exit_with
  <1>3. CASE UNCHANGED exit
    BY <1>3 DEF ExitTypes
  <1> QED BY <1>1, <1>2, <1>3 DEF ClientNext, Invoke, clientVars

LEMMA ClientInvariants == ClientSpec => [](CreatorInv /\ RequestInv /\ ExitTypes)
  <1>1. ClientInit => CreatorInv /\ RequestInv /\ ExitTypes
    BY InitFine DEF ClientInit, ExitTypes
  <1>2. CreatorInv /\ RequestInv /\ ExitTypes /\ [ClientNext]_clientVars
           => (CreatorInv /\ RequestInv /\ ExitTypes)'
    BY ClientStepIsApis, NextCredits, NextFine, NextExits
  <1> QED BY <1>1, <1>2, PTL DEF ClientSpec

\* However many invocations and requests there are, the types are kept,
THEOREM ClientTypeCorrect == ClientSpec => []ClientTypeOK
  <1>1. CreatorInv /\ RequestInv /\ ExitTypes => ClientTypeOK
    BY TypesFollow DEF ClientTypeOK, ExitTypes
  <1> QED BY <1>1, ClientInvariants, PTL

\* and no instance has two creators.
THEOREM ClientOneCreator == ClientSpec => []OneCreatorEach
  <1>1. CreatorInv => OneCreatorEach
    BY DEF CreatorInv
  <1> QED BY <1>1, ClientInvariants, PTL

\* And agent-cli may conclude from an answer what any client may.
LEMMA ClientStepKeepsContract ==
    ContractInv /\ [ClientNext]_clientVars
       => ContractInv' /\ [Contract!ContractNext]_Contract!contractVars
  BY ClientStepIsApis, NextKeepsContract DEF ContractInv

THEOREM ClientAnswersTrue == ClientSpec => AnswersMean
  <1>1. ClientInit => ContractInv /\ Contract!ContractInit
    BY InitContract DEF ClientInit
  <1> QED BY <1>1, ClientStepKeepsContract, PTL
          DEF ClientSpec, AnswersMean, Contract!ContractSpec
=============================================================================
