----------------------------- MODULE InstanceApi -----------------------------
(***************************************************************************)
(* The REST API (api/src): the bearer check and the route table, the five  *)
(* handlers that change an instance, from the request to the end of the    *)
(* event stream that answers it, and the seven that only read.             *)
(*                                                                         *)
(* The server keeps no state: each request is a process of its own (on any *)
(* replica), with one action per call it awaits.  "status" events, which   *)
(* only keep the connection alive, are left out of what the client hears.  *)
(***************************************************************************)
EXTENDS Cluster, Sequences

CONSTANTS
    Requests,      \* the requests clients make, each once
    Ops,           \* what they may ask for
    MaxApiFaults   \* bound: calls to Kubernetes that fail

Lifecycle == {"create", "start", "stop", "restart", "delete"}
Reads     == {"list", "get", "logs", "ssh", "stats", "nodes", "health"}

ASSUME OpsAssumption == Ops \subseteq Lifecycle \cup Reads
ASSUME ApiFaultsAssumption == MaxApiFaults \in Nat

VARIABLES
    at,      \* where each request's handler stands
    op,      \* what it was asked to do
    code,    \* the HTTP status it answered, None before
    heard,   \* the events the client has received
    late,    \* has the deadline of its polling passed?
    made,    \* the uid it created, 0 if none (observed, not kept by the code)
    apiFaults

apiVars == <<at, op, code, heard, late, made, apiFaults>>

Events == {"created", "ready", "stopped", "deleted", "error"}

Codes == {"200", "401", "404", "409", "500"}

ASSUME NoneIsNoCode == None \notin Codes

Places == {"idle", "check", "apply", "read", "poll", "final", "await_gone", "closed", "cut"}

ApiTypeOK ==
    /\ at \in [Requests -> Places]
    /\ op \in [Requests -> Ops \cup {None}]
    /\ code \in [Requests -> Codes \cup {None}]
    /\ heard \in [Requests -> Seq(Events)]
    /\ \A r \in Requests : Len(heard[r]) <= 3
    /\ late \in [Requests -> BOOLEAN]
    /\ made \in [Requests -> 0 .. MaxUid]
    /\ apiFaults \in 0 .. MaxApiFaults

ApiInit ==
    /\ at = [r \in Requests |-> "idle"]
    /\ op = [r \in Requests |-> None]
    /\ code = [r \in Requests |-> None]
    /\ heard = [r \in Requests |-> <<>>]
    /\ late = [r \in Requests |-> FALSE]
    /\ made = [r \in Requests |-> 0]
    /\ apiFaults = 0

-----------------------------------------------------------------------------
\* What an instance is doing, in the API's words (sse.rs).
derive_status(a) ==
    IF a.state = "stopped" THEN "stopped"
    ELSE CASE a.status.phase = "Running" -> "running"
           [] a.status.phase \in {"", "Creating", "Pending"} -> "creating"
           [] a.status.phase = "Stopped" -> "stopped"
           [] a.status.phase \in {"CrashLoopBackOff", "Failed"} -> "error"
           [] OTHER -> "unknown"    \* the phase itself, in lower case

\* What the polling of each operation waits for, and the event that follows it.
target_status(o) == IF o = "stop" THEN "stopped" ELSE "running"
final_event(o)   == IF o = "stop" THEN "stopped" ELSE "ready"

\* The handler returns an error response: there is no stream.
answer(r, c) ==
    /\ at' = [at EXCEPT ![r] = "closed"]
    /\ code' = [code EXCEPT ![r] = c]
    /\ UNCHANGED <<op, heard, late>>

\* It answers 200, or has done so, sends the events and goes on at place p.
stream(r, p, events) ==
    /\ at' = [at EXCEPT ![r] = p]
    /\ code' = [code EXCEPT ![r] = "200"]
    /\ heard' = [heard EXCEPT ![r] = @ \o events]
    /\ UNCHANGED <<op, late>>

-----------------------------------------------------------------------------
(* Without a bearer token (any will do) nothing but /health is served.     *)
(* delete_instance answers 200 before it has looked at anything, and       *)
(* health looks at nothing.                                                *)
Receive(r, o, token) ==
    /\ at[r] = "idle"
    /\ op' = [op EXCEPT ![r] = o]
    /\ IF o # "health" /\ ~token
       THEN /\ at' = [at EXCEPT ![r] = "closed"]
            /\ code' = [code EXCEPT ![r] = "401"]
       ELSE /\ at' = [at EXCEPT ![r] = CASE o = "health" -> "closed"
                                         [] o \in {"list", "nodes"} -> "read"
                                         [] OTHER -> "check"]
            /\ code' = [code EXCEPT ![r] = IF o \in {"delete", "health"} THEN "200" ELSE None]
    /\ UNCHANGED <<clusterVars, heard, late, made, apiFaults>>

Submit(r) == \E o \in Ops, token \in BOOLEAN : Receive(r, o, token)

(* get_opt: the instance must not exist (create) or must (all others); the *)
(* answer is 409 or 404, and an error event on the stream of a delete.     *)
Check(r) ==
    /\ at[r] = "check"
    /\ IF (agent = None) = (op[r] = "create")
       THEN \/ /\ op[r] \in {"get", "stats"}
               /\ answer(r, "200")
            \/ /\ op[r] \notin {"get", "stats"}
               /\ at' = [at EXCEPT ![r] = IF op[r] \in Lifecycle THEN "apply" ELSE "read"]
               /\ UNCHANGED <<op, code, heard, late>>
       ELSE \/ op[r] = "create" /\ answer(r, "409")
            \/ op[r] = "delete" /\ stream(r, "closed", <<"error">>)
            \/ op[r] \notin {"create", "delete"} /\ answer(r, "404")
    /\ UNCHANGED <<clusterVars, made, apiFaults>>

\* get_logs: the kubelet has no log of a pod that has not started (400, which is
\* no 404 and becomes a 500).  get_ssh_info: the port is that of the Service.
log_code == IF pod = None THEN "404" ELSE IF pod.phase = "Pending" THEN "500" ELSE "200"
ssh_code == IF child["service"] = None THEN "404" ELSE "200"

\* The second call of those two; the calls of list_instances and list_nodes.
Read(r) ==
    /\ at[r] = "read"
    /\ answer(r, CASE op[r] = "logs" -> log_code
                   [] op[r] = "ssh" -> ssh_code
                   [] OTHER -> "200")
    /\ UNCHANGED <<clusterVars, made, apiFaults>>

\* The write itself, on whatever bears the name by now.
patch_state(s) == IF agent.state = s THEN UNCHANGED clusterVars ELSE SetState(s)

\* Mutants: a create that overwrites (server-side apply); a restart that deletes
\* the pod with no grace period.
effect_overwrites(r) ==
    \/ op[r] = "create" /\ \E t \in Templates : CreateAgent(t)
    \/ op[r] = "create" /\ agent # None /\ UNCHANGED clusterVars
    \/ op[r] = "start" /\ agent # None /\ patch_state("running")
    \/ op[r] = "stop" /\ agent # None /\ patch_state("stopped")
    \/ op[r] = "restart" /\ RestartPod
    \/ op[r] = "delete" /\ DeleteAgent
effect_forced(r) ==
    \/ op[r] = "create" /\ \E t \in Templates : CreateAgent(t)
    \/ op[r] = "start" /\ agent # None /\ patch_state("running")
    \/ op[r] = "stop" /\ agent # None /\ patch_state("stopped")
    \/ op[r] = "restart" /\ pod # None /\ pod' = None
       /\ UNCHANGED <<agent, child, lastUid, edits>>
    \/ op[r] = "delete" /\ DeleteAgent

effect(r) ==
    \/ op[r] = "create" /\ \E t \in Templates : CreateAgent(t)
    \/ op[r] = "start" /\ agent # None /\ patch_state("running")
    \/ op[r] = "stop" /\ agent # None /\ patch_state("stopped")
    \/ op[r] = "restart" /\ RestartPod
    \/ op[r] = "delete" /\ DeleteAgent

\* What follows a write that succeeded, and one that did not: the pod delete of
\* a restart is `let _ =`, every other failure is the caller's.
succeed(r) ==
    stream(r, IF op[r] = "delete" THEN "await_gone" ELSE "poll",
              IF op[r] = "create" THEN <<"created">> ELSE <<>>)

\* Mutant: every failure is ignored, as that of a restart is.
fail_ignored(r) == stream(r, IF op[r] = "delete" THEN "await_gone" ELSE "poll", <<>>)

fail(r) ==
    \/ op[r] \in {"create", "start", "stop"} /\ answer(r, "500")
    \/ op[r] = "restart" /\ stream(r, "poll", <<>>)
    \/ op[r] = "delete" /\ stream(r, "closed", <<"error">>)

\* AlreadyExists for a create, NotFound for the others.
refused(r) ==
    \/ op[r] = "create" /\ agent # None
    \/ op[r] \in {"start", "stop", "delete"} /\ agent = None
    \/ op[r] = "restart" /\ pod = None

Apply(r) ==
    /\ at[r] = "apply"
    /\ \/ /\ effect(r)
          /\ succeed(r)
          /\ made' = [made EXCEPT ![r] = IF op[r] = "create" THEN lastUid' ELSE 0]
       \/ /\ refused(r)
          /\ fail(r)
          /\ UNCHANGED <<clusterVars, made>>
    /\ UNCHANGED apiFaults

-----------------------------------------------------------------------------
\* poll_status_stream: every 3 s, until the target, an error or the deadline.
\* (An iteration that finds another status, or no instance, changes nothing.)
\* Mutants: no deadline; no `break` after the timeout error.
Poll_forever(r) ==
    /\ at[r] = "poll"
    /\ agent # None
    /\ derive_status(agent) = target_status(op[r])
    /\ stream(r, "final", <<>>)
    /\ UNCHANGED <<clusterVars, made, apiFaults>>
Poll_no_break(r) ==
    /\ at[r] = "poll"
    /\ late[r]
    /\ stream(r, "poll", <<"error">>)
    /\ UNCHANGED <<clusterVars, made, apiFaults>>

Poll(r) ==
    /\ at[r] = "poll"
    /\ \/ late[r] /\ stream(r, "final", <<"error">>)
       \/ /\ ~late[r]
          /\ agent # None
          /\ derive_status(agent) = target_status(op[r])
          /\ stream(r, "final", <<>>)
    /\ UNCHANGED <<clusterVars, made, apiFaults>>

\* The handler's own last event, sent however the polling ended.
Final(r) ==
    /\ at[r] = "final"
    /\ stream(r, "closed", <<final_event(op[r])>>)
    /\ UNCHANGED <<clusterVars, made, apiFaults>>

\* delete_instance's own loop, every 2 s.
AwaitGone(r) ==
    /\ at[r] = "await_gone"
    /\ \/ late[r] /\ stream(r, "closed", <<"error">>)
       \/ ~late[r] /\ agent = None /\ stream(r, "closed", <<"deleted">>)
    /\ UNCHANGED <<clusterVars, made, apiFaults>>

\* The deadline (600 s, 120 s or 60 s) passes.
Expire(r) ==
    /\ at[r] \in {"poll", "await_gone"}
    /\ ~late[r]
    /\ late' = [late EXCEPT ![r] = TRUE]
    /\ UNCHANGED <<clusterVars, at, op, code, heard, made, apiFaults>>

-----------------------------------------------------------------------------
(* A call to Kubernetes fails, or its answer is lost after it took effect. *)
ApiFails(r) ==
    /\ apiFaults < MaxApiFaults
    /\ apiFaults' = apiFaults + 1
    /\ \/ /\ at[r] = "check"
          /\ IF op[r] = "delete" THEN stream(r, "closed", <<"error">>) ELSE answer(r, "500")
          /\ UNCHANGED clusterVars
       \/ /\ at[r] = "read"
          /\ answer(r, "500")
          /\ UNCHANGED clusterVars
       \/ /\ at[r] = "apply"
          /\ fail(r)
          /\ UNCHANGED clusterVars \/ effect(r)
       \/ /\ at[r] = "poll"
          /\ stream(r, "final", <<"error">>)
          /\ UNCHANGED clusterVars
    /\ UNCHANGED made

\* The client goes away: the handler, or the stream, is dropped where it stands; a
\* write it had sent off may still be carried out.
Disconnect(r) ==
    /\ at[r] \notin {"idle", "closed", "cut"}
    /\ at' = [at EXCEPT ![r] = "cut"]
    /\ \/ UNCHANGED clusterVars
       \/ at[r] = "apply" /\ effect(r)
    /\ UNCHANGED <<op, code, heard, late, made, apiFaults>>

-----------------------------------------------------------------------------
Handle(r) == Check(r) \/ Read(r) \/ Apply(r) \/ Poll(r) \/ Final(r) \/ AwaitGone(r)

ApiStep(r) == Submit(r) \/ Handle(r) \/ Expire(r) \/ ApiFails(r) \/ Disconnect(r)

\* The operator, as far as the API can tell: it reports any phase at any time.
Report ==
    /\ agent # None
    /\ \E ph \in Phases \ {""} : agent' = [agent EXCEPT !.status.phase = ph]
    /\ UNCHANGED <<pod, child, lastUid, edits>>

\* An empty cluster, or one where the name is already taken.
ApiAloneInit ==
    /\ ApiInit
    /\ ClusterInit \/ \E t \in Templates, s \in States, ph \in Phases :
          /\ agent = [uid |-> 1, state |-> s, tmpl |-> t,
                      status |-> [phase |-> ph, pod_ip |-> None]]
          /\ lastUid = 1
          /\ pod = None
          /\ child = NoChildren
          /\ edits = 0

ApiNext ==
    \/ \E r \in Requests : ApiStep(r)
    \/ Report /\ UNCHANGED apiVars

apiAloneVars == <<clusterVars, apiVars>>

\* A handler that is not waiting for anything gets on; deadlines pass.
ApiFairness == \A r \in Requests : WF_apiAloneVars(Handle(r)) /\ WF_apiAloneVars(Expire(r))

ApiSpec == ApiAloneInit /\ [][ApiNext]_apiAloneVars /\ ApiFairness

-----------------------------------------------------------------------------
(***************************************************************************)
(* Properties.                                                             *)
(***************************************************************************)

\* However create requests, deletes and failures interleave, two of them never
\* both report to have created the same instance (handlers.rs, create_instance).
OneCreatorEach ==
    \A r, q \in Requests :
       r # q /\ made[r] # 0 /\ made[r] = made[q] => FALSE

\* Every request comes to an end, whether or not the instance ever gets where
\* the request wants it, or still exists: the deadlines of poll_status_stream
\* and of delete_instance.
EveryRequestEnds ==
    \A r \in Requests : at[r] # "idle" ~> at[r] \in {"closed", "cut"}

\* What a client may conclude: 401, 404 and 409 say that nothing was done; the 200 of
\* a create, start or stop, and the "deleted" of a delete, that the request itself
\* did what it asked for; 500, an "error", the 200 of a restart (whose failures are
\* ignored) and a lost connection leave it in doubt.
did_nothing(r) == code[r] \in {"401", "404", "409"} \/ op[r] \in Reads

did_it(r) ==
    \/ op[r] \in {"create", "start", "stop"} /\ code[r] = "200"
    \/ op[r] = "delete" /\ at[r] = "await_gone"
    \/ op[r] = "delete" /\ at[r] = "closed" /\ heard[r] = <<"deleted">>

meaning(r) ==
    IF at[r] = "idle" THEN "new"
    ELSE IF at[r] \in {"check", "apply", "read"} THEN "pending"
    ELSE IF did_nothing(r) THEN "void"
    ELSE IF did_it(r) THEN "done"
    ELSE "doubtful"

Contract == INSTANCE ApiContract WITH asked <- op, fate <- [r \in Requests |-> meaning(r)]

\* However requests interleave, fail and are cut off: no request is carried out
\* twice, none after its answer, and each answer means what it says.
AnswersMean == Contract!ContractSpec

-----------------------------------------------------------------------------
(* What the documentation says and the code does not do.                   *)

\* "Client disconnect does NOT cancel the operation" (ARCHITECTURE.md:243): a
\* delete that was answered 200 on an existing instance deletes it, or says that
\* it failed, or the instance goes otherwise.
DisconnectKeepsDelete ==
    \A r \in Requests :
       (op[r] = "delete" /\ code[r] = "200" /\ at[r] # "closed" /\ agent # None)
          ~> (agent = None \/ "error" \in {heard[r][i] : i \in 1 .. Len(heard[r])})
=============================================================================
