------------------------------- MODULE Cluster -------------------------------
(***************************************************************************)
(* The Kubernetes objects behind ONE agent name, and what everybody but    *)
(* the operator does to them: the users (through the REST API or kubectl), *)
(* the kubelet, and the garbage collector.                                 *)
(*                                                                         *)
(* Objects of different agents have different names (resources.rs and      *)
(* crd.rs build every name from the agent's), and the controller runtime   *)
(* reconciles each Agent independently, so one name is modelled; a name is *)
(* reused over time, each incarnation with a new uid.                      *)
(*                                                                         *)
(* The users' actions are taken from the handlers of api/src; Kubernetes   *)
(* itself is not in the repository and is modelled from how the operator   *)
(* uses it (external in PROJECT.json).                                     *)
(***************************************************************************)
EXTENDS Naturals

CONSTANTS
    None,        \* "no such object" / "field absent"
    Templates,   \* the agent specs users may submit
    Quantities,  \* the cpu and memory strings that occur in them
    Canon,       \* how the API server rewrites a quantity when it stores it
    IPs,         \* pod addresses
    MaxUid,      \* bound: how often the name is (re)used
    MaxEdits,    \* bound: user operations other than create and delete
    PodFaults,   \* bound: which of "crash" and "evict" happen to running pods
    Taken        \* the kinds of child whose name is that of an object of the platform

Specs == [image : STRING, cpu : Quantities, memory : Quantities, rest : STRING]

ASSUME TemplatesAssumption == Templates \subseteq Specs
ASSUME CanonAssumption ==
    /\ Canon \in [Quantities -> Quantities]
    /\ \A q \in Quantities : Canon[Canon[q]] = Canon[q]
ASSUME BoundsAssumption == MaxUid \in Nat \ {0} /\ MaxEdits \in Nat

\* The Service agent-api of the API server (api-server.yaml) has the name of the
\* Service of an agent called api; nothing else of the platform has such a name.
ASSUME TakenAssumption == Taken \subseteq {"service"}

VARIABLES
    agent,    \* the Agent custom resource (None when it does not exist)
    pod,      \* the Pod agent-<name>
    child,    \* the PVC, the NetworkPolicy and the Service
    lastUid,  \* uids handed out so far
    edits     \* user operations so far (bounded by MaxEdits)

clusterVars == <<agent, pod, child, lastUid, edits>>

Uids   == 1 .. MaxUid
States == {"running", "stopped"}

\* The objects that are created once and then left alone.
Kinds == {"pvc", "networkpolicy", "service"}

(* AgentStatus.  host_node is set and cleared together with pod_ip, and    *)
(* restart_count, node_ports and the fields nobody writes are left out.    *)
Phases == {"", "Creating", "Running", "CrashLoopBackOff", "Stopped", "Failed", "Unknown"}
Status == [phase : Phases, pod_ip : IPs \cup {None}]

Agents == [uid : Uids, state : States, tmpl : Specs, status : Status]

Pods == [owner : Uids, tmpl : Specs,
         phase : {"Pending", "Running", "Succeeded", "Failed"},
         backoff : BOOLEAN, ip : IPs \cup {None}, deleting : BOOLEAN]

\* An object of the platform has no owner (0).
Children == [owner : 0 .. MaxUid, deleting : BOOLEAN]
Foreign  == [owner |-> 0, deleting |-> FALSE]

ASSUME NoneIsNoObject == None \notin Agents \cup Pods \cup Children

\* The children of a name no agent has had.
NoChildren == [k \in Kinds |-> IF k \in Taken THEN Foreign ELSE None]

ClusterTypeOK ==
    /\ agent \in Agents \cup {None}
    /\ pod \in Pods \cup {None}
    /\ child \in [Kinds -> Children \cup {None}]
    /\ lastUid \in 0 .. MaxUid
    /\ edits \in 0 .. MaxEdits

ClusterInit ==
    /\ agent = None
    /\ pod = None
    /\ child = NoChildren
    /\ lastUid = 0
    /\ edits = 0

-----------------------------------------------------------------------------
(***************************************************************************)
(* Effects of API-server calls, shared by the callers.                     *)
(***************************************************************************)

\* What the API server keeps of a container spec: quantities in canonical form.
stored(t) == [t EXCEPT !.cpu = Canon[@], !.memory = Canon[@]]

(* DELETE of the pod (terminationGracePeriodSeconds is 30): a running pod  *)
(* is marked and stays until its containers have stopped; one that was not *)
(* scheduled goes at once.  Repeating it changes nothing.                  *)
delete_pod ==
    pod' \in {[pod EXCEPT !.deleting = TRUE]}
             \cup (IF pod.phase = "Running" THEN {} ELSE {None})

-----------------------------------------------------------------------------
(***************************************************************************)
(* The users.                                                              *)
(***************************************************************************)

\* The POST of a new Agent (create_instance, kubectl create).
CreateAgent(t) ==
    /\ agent = None
    /\ lastUid < MaxUid
    /\ lastUid' = lastUid + 1
    /\ agent' = [uid |-> lastUid + 1, state |-> "running", tmpl |-> t,
                 status |-> [phase |-> "", pod_ip |-> None]]
    /\ UNCHANGED <<pod, child, edits>>

\* A patch of spec.state to its other value (start_instance, stop_instance).
SetState(s) ==
    /\ agent # None
    /\ agent.state # s
    /\ edits < MaxEdits
    /\ edits' = edits + 1
    /\ agent' = [agent EXCEPT !.state = s]
    /\ UNCHANGED <<pod, child, lastUid>>

\* kubectl edit of any other field of the spec.
EditSpec(t) ==
    /\ agent # None
    /\ agent.tmpl # t
    /\ edits < MaxEdits
    /\ edits' = edits + 1
    /\ agent' = [agent EXCEPT !.tmpl = t]
    /\ UNCHANGED <<pod, child, lastUid>>

\* The Agent has no finalizer: it is gone at once, and its dependants are left
\* to the garbage collector (delete_instance).
DeleteAgent ==
    /\ agent # None
    /\ agent' = None
    /\ UNCHANGED <<pod, child, lastUid, edits>>

\* The pod is deleted behind the operator's back, whether its agent still
\* exists or not (restart_instance).
RestartPod ==
    /\ pod # None
    /\ edits < MaxEdits
    /\ edits' = edits + 1
    /\ delete_pod
    /\ UNCHANGED <<agent, child, lastUid>>

Users ==
    \/ \E t \in Templates : CreateAgent(t) \/ EditSpec(t)
    \/ \E s \in States : SetState(s)
    \/ DeleteAgent
    \/ RestartPod

-----------------------------------------------------------------------------
(***************************************************************************)
(* The kubelet and the scheduler.                                          *)
(***************************************************************************)

\* A pod runs once its volume exists and is not being deleted.
StartPod ==
    /\ pod # None
    /\ pod.phase = "Pending"
    /\ ~pod.deleting
    /\ child["pvc"] # None
    /\ ~child["pvc"].deleting
    /\ \E ip \in IPs : pod' = [pod EXCEPT !.phase = "Running", !.ip = ip]
    /\ UNCHANGED <<agent, child, lastUid, edits>>

\* restartPolicy Always: the container dies and waits in CrashLoopBackOff ...
CrashContainer ==
    /\ pod # None
    /\ "crash" \in PodFaults
    /\ pod.phase = "Running"
    /\ pod' = [pod EXCEPT !.backoff = TRUE]
    /\ UNCHANGED <<agent, child, lastUid, edits>>

\* ... or comes back.
RecoverContainer ==
    /\ pod # None
    /\ pod.backoff
    /\ pod' = [pod EXCEPT !.backoff = FALSE]
    /\ UNCHANGED <<agent, child, lastUid, edits>>

\* Node pressure or node loss: the pod object stays, in phase Failed.
EvictPod ==
    /\ pod # None
    /\ "evict" \in PodFaults
    /\ pod.phase = "Running"
    /\ pod' = [pod EXCEPT !.phase = "Failed", !.backoff = FALSE]
    /\ UNCHANGED <<agent, child, lastUid, edits>>

\* The containers of a pod being deleted exit before the object disappears.
FinishPod ==
    /\ pod # None
    /\ pod.deleting
    /\ pod.phase = "Running"
    /\ \E ph \in {"Succeeded", "Failed"} :
          pod' = [pod EXCEPT !.phase = ph, !.backoff = FALSE]
    /\ UNCHANGED <<agent, child, lastUid, edits>>

RemovePod ==
    /\ pod # None
    /\ pod.deleting
    /\ pod' = None
    /\ UNCHANGED <<agent, child, lastUid, edits>>

Kubelet == StartPod \/ CrashContainer \/ RecoverContainer \/ EvictPod \/ FinishPod \/ RemovePod

-----------------------------------------------------------------------------
(***************************************************************************)
(* The garbage collector deletes an object whose owner (an Agent with that *)
(* very uid) no longer exists, and leaves alone what never had one.  A     *)
(* volume claim is first marked, and stays while a pod uses it.            *)
(***************************************************************************)
orphaned(owner) == owner # 0 /\ (agent # None => agent.uid # owner)

CollectPod ==
    /\ pod # None
    /\ ~pod.deleting
    /\ orphaned(pod.owner)
    /\ delete_pod
    /\ UNCHANGED <<agent, child, lastUid, edits>>

CollectChild(k) ==
    /\ child[k] # None
    /\ ~child[k].deleting
    /\ orphaned(child[k].owner)
    /\ child' = [child EXCEPT ![k] = IF k = "pvc" THEN [@ EXCEPT !.deleting = TRUE] ELSE None]
    /\ UNCHANGED <<agent, pod, lastUid, edits>>

RemoveVolume ==
    /\ child["pvc"] # None
    /\ child["pvc"].deleting
    /\ pod # None => pod.phase # "Running"
    /\ child' = [child EXCEPT !["pvc"] = None]
    /\ UNCHANGED <<agent, pod, lastUid, edits>>

Collector == CollectPod \/ RemoveVolume \/ \E k \in Kinds : CollectChild(k)

Environment == Users \/ Kubelet \/ Collector

=============================================================================
