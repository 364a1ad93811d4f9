----------------------------- MODULE ApiContract -----------------------------
(***************************************************************************)
(* What the answers of the REST API mean to who asked.  There are no       *)
(* handlers, calls, streams or deadlines here: a request is pending until  *)
(* its fate is known, and of what was asked for                            *)
(*                                                                         *)
(*    "done"      it was carried out, by this request and exactly once;    *)
(*    "void"      nothing was and nothing will be: it may be asked again;  *)
(*    "doubtful"  it was carried out at most once, and will not be later.  *)
(*                                                                         *)
(* InstanceApi says which answers stand for which fate (meaning), and that *)
(* it keeps the contract (AnswersMean).                                    *)
(***************************************************************************)
CONSTANTS
    None,       \* no such object
    Requests,   \* the requests, each made once
    Ops         \* what they may ask for

VARIABLES
    agent,   \* the instance
    pod,     \* its pod
    asked,   \* what each request asks for
    fate     \* what is known of it

contractVars == <<agent, pod, asked, fate>>

ContractInit == fate = [r \in Requests |-> "new"]

-----------------------------------------------------------------------------
\* What is asked for, as a change of the cluster.  (A restart is the deletion of the
\* pod, which may take its time.)
set_state(s) == agent # None /\ agent' = [agent EXCEPT !.state = s] /\ pod' = pod

carried_out(o) ==
    \/ o = "create" /\ agent = None /\ agent' # None /\ agent'.state = "running" /\ pod' = pod
    \/ o = "start" /\ set_state("running")
    \/ o = "stop" /\ set_state("stopped")
    \/ o = "restart" /\ pod # None /\ pod' \in {None, [pod EXCEPT !.deleting = TRUE]} /\ agent' = agent
    \/ o = "delete" /\ agent # None /\ agent' = None /\ pod' = pod

becomes(r, f) == fate' = [fate EXCEPT ![r] = f]

\* A request comes in, and may be turned away at once.
Ask(r) ==
    /\ fate[r] = "new"
    /\ \E o \in Ops, f \in {"pending", "void"} : asked' = [asked EXCEPT ![r] = o] /\ becomes(r, f)
    /\ UNCHANGED <<agent, pod>>

\* It is carried out, which need not come to light.
CarryOut(r) ==
    /\ fate[r] = "pending"
    /\ carried_out(asked[r])
    /\ becomes(r, "done") \/ becomes(r, "doubtful")
    /\ UNCHANGED asked

\* It is refused, or fails, or is forgotten.
GiveUp(r) ==
    /\ fate[r] = "pending"
    /\ becomes(r, "void") \/ becomes(r, "doubtful")
    /\ UNCHANGED <<agent, pod, asked>>

\* Only of a delete may one be left in doubt afterwards.
LoseSight(r) ==
    /\ fate[r] = "done"
    /\ asked[r] = "delete"
    /\ becomes(r, "doubtful")
    /\ UNCHANGED <<agent, pod, asked>>

\* Nobody else creates, deletes or changes the instance, but for its status.
Others ==
    /\ agent = None => agent' = None
    /\ agent # None => /\ agent' # None
                       /\ agent'.uid = agent.uid
                       /\ agent'.state = agent.state
                       /\ agent'.tmpl = agent.tmpl
    /\ UNCHANGED <<asked, fate>>

ContractNext ==
    \/ \E r \in Requests : Ask(r) \/ CarryOut(r) \/ GiveUp(r) \/ LoseSight(r)
    \/ Others

ContractSpec == ContractInit /\ [][ContractNext]_contractVars
=============================================================================
