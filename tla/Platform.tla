------------------------------ MODULE Platform ------------------------------
(***************************************************************************)
(* The REST API and the operator at work on the same Agent.  They never    *)
(* call each other: everything passes through the Agent resource and, for  *)
(* a restart, the Pod.  The requests take the place of Operator's users.   *)
(***************************************************************************)
EXTENDS Operator, InstanceApi

platformVars == <<vars, apiVars>>

PlatformInit == Init /\ ApiInit

PlatformNext ==
    \/ (\E r \in Requests : ApiStep(r)) /\ UNCHANGED operatorVars
    \/ (Kubelet \/ Collector) /\ UNCHANGED <<operatorVars, apiVars>>
    \/ (\E o \in Operators : OperatorStep(o)) /\ UNCHANGED apiVars

PlatformSpec == PlatformInit /\ [][PlatformNext]_platformVars

\* Each side is scheduled as it is alone.
PlatformFairness ==
    /\ WF_platformVars(StartPod /\ UNCHANGED <<operatorVars, apiVars>>)
    /\ WF_platformVars(RemovePod /\ UNCHANGED <<operatorVars, apiVars>>)
    /\ WF_platformVars(CollectPod /\ UNCHANGED <<operatorVars, apiVars>>)
    /\ WF_platformVars(RemoveVolume /\ UNCHANGED <<operatorVars, apiVars>>)
    /\ \A k \in Kinds : WF_platformVars(CollectChild(k) /\ UNCHANGED <<operatorVars, apiVars>>)
    /\ \A o \in Operators : /\ WF_platformVars(Watch(o) /\ UNCHANGED apiVars)
                            /\ WF_platformVars(Work(o) /\ UNCHANGED apiVars)
    /\ \A r \in Requests : /\ WF_platformVars(Handle(r) /\ UNCHANGED operatorVars)
                           /\ WF_platformVars(Expire(r) /\ UNCHANGED operatorVars)

FairPlatformSpec == PlatformSpec /\ PlatformFairness

-----------------------------------------------------------------------------
(***************************************************************************)
(* Properties.                                                             *)
(***************************************************************************)

\* Whatever its handlers do, in whatever order, the API is to the operator no
\* more than the users that Operator allows for: what is checked and proved of
\* Operator holds of the platform.
ImplementsOperator == Spec

\* "Stop agent via API - process stops" (test-cases.md:25): once a stop has been
\* answered 200 the pod goes away for good, unless the agent is started again or
\* deleted; whether or not the client stays to listen, and although a
\* reconciliation of the running agent may be in flight.
StopTakesEffect ==
    <>[](\A r \in Requests :
            op[r] = "stop" /\ code[r] = "200"
               => agent = None \/ agent.state = "running" \/ pod = None)

\* "Restart agent via API - comes back running" (test-cases.md:27): once a restart
\* has been answered 200 the agent ends up with a running pod, unless it is
\* stopped or deleted.
RestartComesBack ==
    <>[](\A r \in Requests :
            op[r] = "restart" /\ code[r] = "200"
               => \/ agent = None
                  \/ agent.state = "stopped"
                  \/ pod # None /\ ~pod.deleting /\ pod.phase = "Running" /\ pod.owner = agent.uid)

-----------------------------------------------------------------------------
(* What the documentation says and the code does not do.                   *)

\* "Restart agent via API - comes back running" (test-cases.md:27): when the
\* client is told "ready", and no error, there is a pod that is not going away.
ReadyEventIsTrue ==
    [][\A r \in Requests :
          Final(r) /\ op[r] = "restart" /\ heard[r] = <<>>
             => pod # None /\ ~pod.deleting]_platformVars
=============================================================================
