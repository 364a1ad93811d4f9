------------------------------- MODULE Client --------------------------------
(***************************************************************************)
(* agent-cli (cli/src/main.rs) against the REST API: a process per         *)
(* invocation, which sends one request, waits for the answer, prints and   *)
(* exits.  It adds to InstanceApi what becomes of the answer.              *)
(*                                                                         *)
(* agent-cli sends no Authorization header; a gateway in front of the API  *)
(* may add one.                                                            *)
(***************************************************************************)
EXTENDS InstanceApi

CONSTANTS
    Invocations,   \* the requests that are agent-cli's
    Gateway        \* does what stands before the API add a bearer token?

ASSUME InvocationsAssumption == Invocations \subseteq Requests
ASSUME GatewayAssumption == Gateway \in BOOLEAN

VARIABLE exit   \* how each invocation ended, None before

clientVars == <<clusterVars, apiVars, exit>>

Commands == {"health", "create", "list", "get", "delete", "start", "stop", "restart", "logs"}

\* It has printed what it was sent, or an error (the API's, or the connection's),
\* or an unwrap() failed.
Exits == {"printed", "refused", "failed", "panicked"}

ClientTypeOK ==
    /\ ApiTypeOK
    /\ exit \in [Invocations -> Exits \cup {None}]

ClientInit == ApiAloneInit /\ exit = [r \in Invocations |-> None]

-----------------------------------------------------------------------------
(***************************************************************************)
(* What is on the wire: the fields that are always there.  A stream of     *)
(* events is no JSON document and has none.                                *)
(***************************************************************************)
InstanceFields == {"name", "status", "image", "created_at"}

provided(o) == CASE o \in {"get", "list"} -> InstanceFields
                 [] o = "logs" -> {"name", "logs"}
                 [] o \in Lifecycle -> {}
                 [] o = "health" -> {"status"}

\* The fields that have to be there for agent-cli to decode the answer.
Instance == {"name", "image", "cpu", "memory", "disk", "state"}

needed(o) == CASE o = "logs" -> {"name", "lines"}
               [] o = "health" -> {}
               [] OTHER -> Instance

\* r.json().await.unwrap(), of a complete answer with code 200; a list may be empty
\* (or hold other agents than the one modelled).
decode(o) ==
    (IF needed(o) \subseteq provided(o) THEN {"printed"} ELSE {"panicked"})
    \cup (IF o = "list" THEN {"printed"} ELSE {})

-----------------------------------------------------------------------------
\* main: the command is turned into a request.
Invoke(r) ==
    /\ \E o \in Ops \cap Commands : Receive(r, o, Gateway)
    /\ UNCHANGED exit

exit_with(r, e) ==
    /\ exit[r] = None
    /\ exit' = [exit EXCEPT ![r] = e]
    /\ UNCHANGED <<clusterVars, op, code, heard, late, made, apiFaults>>

\* handle_error: any status but 200, or no answer at all.
\* Mutant: without the arm for a connection that failed.
HandleError_answers_only(r) ==
    /\ code[r] # "200"
    /\ at[r] = "closed"
    /\ exit_with(r, "refused")
    /\ UNCHANGED at

HandleError(r) ==
    /\ code[r] # "200"
    /\ \/ at[r] = "closed" /\ exit_with(r, "refused")
       \/ at[r] = "cut" /\ exit_with(r, "failed")
    /\ UNCHANGED at

\* "Deleted instance": printed on the status alone.  The process exits, and its
\* connection goes with it.
PrintDeleted(r) ==
    /\ op[r] = "delete"
    /\ code[r] = "200"
    /\ exit_with(r, "printed")
    /\ at' = [at EXCEPT ![r] = IF @ = "closed" THEN "closed" ELSE "cut"]

\* Every other answer is read to its end, an event stream too.
PrintAnswer(r) ==
    /\ op[r] # "delete"
    /\ code[r] = "200"
    /\ \/ at[r] = "closed" /\ \E e \in decode(op[r]) : exit_with(r, e)
       \/ at[r] = "cut" /\ exit_with(r, "panicked")
    /\ UNCHANGED at

CliStep(r) == HandleError(r) \/ PrintDeleted(r) \/ PrintAnswer(r)

\* The other requests are made by hand, with a token or without.
ClientNext ==
    \/ \E r \in Invocations : Invoke(r) \/ CliStep(r)
    \/ /\ \/ \E r \in Requests \ Invocations : Submit(r)
          \/ \E r \in Requests : Handle(r) \/ Expire(r) \/ ApiFails(r) \/ Disconnect(r)
          \/ Report /\ UNCHANGED apiVars
       /\ UNCHANGED exit

ClientFairness ==
    /\ \A r \in Requests : /\ WF_clientVars(Handle(r) /\ UNCHANGED exit)
                           /\ WF_clientVars(Expire(r) /\ UNCHANGED exit)
    /\ \A r \in Invocations : WF_clientVars(CliStep(r))

ClientSpec == ClientInit /\ [][ClientNext]_clientVars /\ ClientFairness

-----------------------------------------------------------------------------
\* Every invocation of agent-cli ends, one way or another: it waits for the end of
\* the stream of a create, start, stop or restart, which the deadline of
\* poll_status_stream brings about even if the instance never gets there.
EveryCommandExits == \A r \in Invocations : at[r] # "idle" ~> exit[r] # None

=============================================================================
