--------------------------- MODULE AtomicOperator ----------------------------
(***************************************************************************)
(* What the operator promises: to look at the cluster and to change it in  *)
(* one step.  An operator takes a job, the agent as it was at some time;   *)
(* whatever it then does to the pod or to the status is justified by the   *)
(* pod as it is at that very moment.  There are no program counter, no     *)
(* cache, no timer, no draft and no failed call here.                      *)
(*                                                                         *)
(* reconcile() reads, awaits, decides, awaits and writes; Operator states  *)
(* that it keeps this promise all the same (ActsAtomically).               *)
(***************************************************************************)
EXTENDS Resources

CONSTANT Operators

VARIABLE job   \* per operator: the view of the agent it acts upon, or None

atomicVars == <<clusterVars, job>>

AtomicInit == ClusterInit /\ job = [o \in Operators |-> None]

\* It takes up an agent, present or past ...
Begin(o) ==
    /\ job[o] = None
    /\ job'[o] \in Views
    /\ job' = [job EXCEPT ![o] = job'[o]]
    /\ UNCHANGED clusterVars

\* ... and may leave it at any time.
End(o) ==
    /\ job[o] # None
    /\ job' = [job EXCEPT ![o] = None]
    /\ UNCHANGED clusterVars

\* A child is created where there is none: one that is there is never replaced.
AddChild(o, k) ==
    /\ job[o] # None
    /\ child[k] = None
    /\ child' = [child EXCEPT ![k] = build_child(job[o])]
    /\ UNCHANGED <<agent, pod, lastUid, edits, job>>

\* A pod is deleted because the agent is stopped, or because the pod there is now
\* differs from what is asked for (or is being deleted already).
RemovePodFor(o) ==
    /\ job[o] # None
    /\ pod # None
    /\ job[o].state = "stopped" \/ pod.deleting \/ pod_needs_update(pod, job[o])
    /\ delete_pod
    /\ UNCHANGED <<agent, child, lastUid, edits, job>>

\* A pod is created for a running agent, where there is none.
AddPod(o) ==
    /\ job[o] # None
    /\ job[o].state = "running"
    /\ pod = None
    /\ pod' = build_pod(job[o])
    /\ UNCHANGED <<agent, child, lastUid, edits, job>>

\* Stopped is all that is reported of a stopped agent, and only of a pod that is
\* gone or going.
Report(o) ==
    /\ job[o] # None
    /\ agent # None
    /\ \E s \in Status :
          /\ job[o].state = "stopped" => s.phase = "Stopped"
          /\ s.phase = "Stopped" /\ pod # None => pod.deleting
          /\ agent' = [agent EXCEPT !.status = merge(@, s)]
    /\ job' = [job EXCEPT ![o] = None]
    /\ UNCHANGED <<pod, child, lastUid, edits>>

AtomicNext ==
    \/ Environment /\ UNCHANGED job
    \/ \E o \in Operators :
          \/ Begin(o) \/ End(o)
          \/ \E k \in Kinds : AddChild(o, k)
          \/ RemovePodFor(o) \/ AddPod(o)
          \/ Report(o)

AtomicSpec == AtomicInit /\ [][AtomicNext]_atomicVars
=============================================================================
