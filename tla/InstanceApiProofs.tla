-------------------------- MODULE InstanceApiProofs --------------------------
(***************************************************************************)
(* Theorems about InstanceApi, for every set of requests and every bound.  *)
(***************************************************************************)
EXTENDS InstanceApi, TLAPS

(* OneCreatorEach is not inductive: a request could be credited with a uid *)
(* that is yet to be given out.  No uid credited exceeds the last one.     *)
CreditedBefore ==
    /\ lastUid \in Nat
    /\ made \in [Requests -> 0 .. MaxUid]
    /\ \A r \in Requests : made[r] <= lastUid

CreatorInv == CreditedBefore /\ OneCreatorEach

\* Only an Apply credits anybody, and with a fresh uid.
LEMMA ApplyCredits ==
    ASSUME CreatorInv, NEW r \in Requests, Apply(r)
    PROVE  CreatorInv'
  <1>1. CASE made' = made /\ UNCHANGED clusterVars
    BY <1>1 DEF CreatorInv, CreditedBefore, OneCreatorEach, clusterVars
  <1>2. CASE effect(r) /\ made' = [made EXCEPT ![r] = IF op[r] = "create" THEN lastUid' ELSE 0]
    <2>1. CASE op[r] = "create"
      <3>1. lastUid' = lastUid + 1 /\ lastUid < MaxUid
        BY <1>2, <2>1 DEF effect, CreateAgent
      <3>2. made' = [made EXCEPT ![r] = lastUid + 1]
        BY <1>2, <2>1, <3>1
      <3>3. lastUid + 1 \in 0 .. MaxUid
        BY <3>1, BoundsAssumption DEF CreatorInv, CreditedBefore
      <3> QED BY <3>1, <3>2, <3>3, BoundsAssumption DEF CreatorInv, CreditedBefore, OneCreatorEach
    <2>2. CASE op[r] # "create"
      <3>1. lastUid' = lastUid
        BY <1>2, <2>2 DEF effect, patch_state, SetState, RestartPod, DeleteAgent, clusterVars
      <3>2. made' = [made EXCEPT ![r] = 0]
        BY <1>2, <2>2
      <3> QED BY <3>1, <3>2, BoundsAssumption DEF CreatorInv, CreditedBefore, OneCreatorEach
    <2> QED BY <2>1, <2>2
  <1> QED BY <1>1, <1>2 DEF Apply

\* Every other step credits nobody, and takes no uid back.
LEMMA OthersKeep ==
    ASSUME CreatorInv, made' = made, lastUid' = lastUid \/ lastUid' = lastUid + 1
    PROVE  CreatorInv'
  BY BoundsAssumption DEF CreatorInv, CreditedBefore, OneCreatorEach

LEMMA NextCredits == CreatorInv /\ [ApiNext]_apiAloneVars => CreatorInv'
  <1> SUFFICES ASSUME CreatorInv, [ApiNext]_apiAloneVars
               PROVE  CreatorInv'
    OBVIOUS
  <1>1. ASSUME NEW r \in Requests, ApiStep(r)
        PROVE  CreatorInv'
    <2>1. CASE Apply(r)
      BY <2>1, ApplyCredits
    <2>2. CASE Submit(r) \/ Check(r) \/ Read(r) \/ Poll(r) \/ Final(r) \/ AwaitGone(r)
                 \/ Expire(r)
      <3>1. made' = made /\ lastUid' = lastUid
        BY <2>2 DEF Submit, Receive, Check, Read, Poll, Final, AwaitGone, Expire, clusterVars
      <3> QED BY <3>1, OthersKeep
    <2>3. CASE ApiFails(r) \/ Disconnect(r)
      <3>1. effect(r) => lastUid' = lastUid \/ lastUid' = lastUid + 1
        BY DEF effect, CreateAgent, patch_state, SetState, RestartPod, DeleteAgent, clusterVars
      <3>2. made' = made /\ (lastUid' = lastUid \/ lastUid' = lastUid + 1)
        BY <2>3, <3>1 DEF ApiFails, Disconnect, clusterVars
      <3> QED BY <3>2, OthersKeep
    <2> QED BY <1>1, <2>1, <2>2, <2>3 DEF ApiStep, Handle
  <1>2. CASE Report /\ UNCHANGED apiVars
    BY <1>2, OthersKeep DEF Report, apiVars
  <1>3. CASE UNCHANGED apiAloneVars
    BY <1>3, OthersKeep DEF apiAloneVars, apiVars, clusterVars
  <1> QED BY <1>1, <1>2, <1>3 DEF ApiNext

-----------------------------------------------------------------------------
(* A request by its place: what it has been answered and what its client   *)
(* has heard.                                                              *)
Fine(p, o, c, h) ==
    /\ p = "idle" => c = None /\ h = <<>>
    /\ p \in {"check", "apply", "read"} => h = <<>> /\ c = IF o = "delete" THEN "200" ELSE None
    /\ p = "read" => o \notin Lifecycle
    /\ p \in {"poll", "final", "await_gone"} => c = "200"
    /\ p = "poll" => Len(h) <= 1
    /\ p = "await_gone" => o = "delete" /\ h = <<>>
    /\ p = "final" => Len(h) <= 2
    /\ p \in {"closed", "cut"} => Len(h) <= 3
    /\ c \notin {None, "200"} => h = <<>>

RequestTypes ==
    /\ at \in [Requests -> Places]
    /\ op \in [Requests -> Ops \cup {None}]
    /\ code \in [Requests -> Codes \cup {None}]
    /\ heard \in [Requests -> Seq(Events)]
    /\ late \in [Requests -> BOOLEAN]
    /\ apiFaults \in 0 .. MaxApiFaults

RequestInv ==
    /\ RequestTypes
    /\ \A r \in Requests : Fine(at[r], op[r], code[r], heard[r])

\* An event more.
LEMMA OneMoreEvent ==
    ASSUME NEW h \in Seq(Events), NEW e \in Events
    PROVE  /\ h \o <<e>> \in Seq(Events)
           /\ Len(h \o <<e>>) = Len(h) + 1
           /\ h \o <<e>> # <<>>
  <1>1. /\ h \o <<e>> \in Seq(Events)
        /\ Len(h \o <<e>>) = Len(h) + 1
        /\ (h \o <<e>>)[Len(h) + 1] = e
    OBVIOUS
  <1>2. Len(h) + 1 # 0
    OBVIOUS
  <1>3. h \o <<e>> # <<>>
    BY <1>1, <1>2
  <1> QED BY <1>1, <1>3

LEMMA NoMoreEvent == ASSUME NEW h \in Seq(Events) PROVE h \o <<>> = h
  OBVIOUS

LEMMA NothingHeard == <<>> \in Seq(Events) /\ Len(<<>>) = 0
  OBVIOUS

\* A step moves one request; it is enough that this one is fine where it arrives.
LEMMA OneMoves ==
    ASSUME RequestInv, NEW r \in Requests,
           NEW p \in Places, NEW o \in Ops \cup {None}, NEW c \in Codes \cup {None},
           NEW h \in Seq(Events), NEW l \in BOOLEAN,
           Fine(p, o, c, h),
           at' = [at EXCEPT ![r] = p], op' = [op EXCEPT ![r] = o],
           code' = [code EXCEPT ![r] = c], heard' = [heard EXCEPT ![r] = h],
           late' = [late EXCEPT ![r] = l],
           apiFaults' \in 0 .. MaxApiFaults
    PROVE  RequestInv'
  <1>1. RequestTypes'
    BY DEF RequestInv, RequestTypes
  <1>2. ASSUME NEW q \in Requests
        PROVE  Fine(at[q], op[q], code[q], heard[q])'
    <2>1. CASE q = r
      <3>1. at'[q] = p /\ op'[q] = o /\ code'[q] = c /\ heard'[q] = h
        BY <2>1 DEF RequestInv, RequestTypes
      <3> QED BY <3>1 DEF Fine
    <2>2. CASE q # r
      <3>1. at'[q] = at[q] /\ op'[q] = op[q] /\ code'[q] = code[q] /\ heard'[q] = heard[q]
        BY <2>2 DEF RequestInv, RequestTypes
      <3>2. Fine(at[q], op[q], code[q], heard[q])
        BY DEF RequestInv
      <3> QED BY <3>1, <3>2 DEF Fine
    <2> QED BY <2>1, <2>2
  <1> QED BY <1>1, <1>2 DEF RequestInv

LEMMA Answered ==
    ASSUME RequestInv, NEW r \in Requests, NEW c \in Codes, answer(r, c),
           Fine("closed", op[r], c, heard[r]),
           apiFaults' \in 0 .. MaxApiFaults
    PROVE  RequestInv'
  <1>1. /\ op' = [op EXCEPT ![r] = op[r]]
        /\ heard' = [heard EXCEPT ![r] = heard[r]]
        /\ late' = [late EXCEPT ![r] = late[r]]
    BY DEF answer, RequestInv, RequestTypes
  <1>2. "closed" \in Places
    BY DEF Places
  <1>3. op[r] \in Ops \cup {None} /\ heard[r] \in Seq(Events) /\ late[r] \in BOOLEAN
    BY DEF RequestInv, RequestTypes
  <1>4. at' = [at EXCEPT ![r] = "closed"] /\ code' = [code EXCEPT ![r] = c]
    BY DEF answer
  <1> QED BY <1>1, <1>2, <1>3, <1>4, OneMoves

LEMMA Streamed ==
    ASSUME RequestInv, NEW r \in Requests, NEW p \in Places, NEW events \in Seq(Events),
           stream(r, p, events),
           Fine(p, op[r], "200", heard[r] \o events),
           apiFaults' \in 0 .. MaxApiFaults
    PROVE  RequestInv'
  <1>1. /\ op' = [op EXCEPT ![r] = op[r]]
        /\ late' = [late EXCEPT ![r] = late[r]]
    BY DEF stream, RequestInv, RequestTypes
  <1>2. "200" \in Codes \cup {None}
    BY DEF Codes
  <1>3. op[r] \in Ops \cup {None} /\ heard[r] \in Seq(Events) /\ late[r] \in BOOLEAN
    BY DEF RequestInv, RequestTypes
  <1>4. heard[r] \o events \in Seq(Events)
    BY <1>3
  <1>5. /\ at' = [at EXCEPT ![r] = p]
        /\ code' = [code EXCEPT ![r] = "200"]
        /\ heard' = [heard EXCEPT ![r] = heard[r] \o events]
    BY DEF stream
  <1> QED BY <1>1, <1>2, <1>3, <1>4, <1>5, OneMoves

-----------------------------------------------------------------------------
(* Action by action.                                                       *)
LEMMA ReceiveFine ==
    ASSUME RequestInv, NEW r \in Requests, Submit(r)
    PROVE  RequestInv'
  <1>1. PICK o \in Ops, token \in BOOLEAN : Receive(r, o, token)
    BY DEF Submit
  <1> DEFINE p == IF o # "health" /\ ~token THEN "closed"
                  ELSE CASE o = "health" -> "closed"
                         [] o \in {"list", "nodes"} -> "read"
                         [] OTHER -> "check"
             c == IF o # "health" /\ ~token THEN "401"
                  ELSE IF o \in {"delete", "health"} THEN "200" ELSE None
  <1>2. p \in Places /\ c \in Codes \cup {None}
    BY DEF Places, Codes
  <1>3. heard[r] = <<>> /\ heard[r] \in Seq(Events) /\ Len(heard[r]) = 0 /\ late[r] \in BOOLEAN
    BY <1>1, NothingHeard DEF Receive, RequestInv, RequestTypes, Fine
  <1>4. Fine(p, o, c, heard[r])
    BY <1>3 DEF Fine, Lifecycle
  <1>5. /\ at' = [at EXCEPT ![r] = p] /\ op' = [op EXCEPT ![r] = o]
        /\ code' = [code EXCEPT ![r] = c]
    BY <1>1 DEF Receive
  <1>6. /\ heard' = [heard EXCEPT ![r] = heard[r]]
        /\ late' = [late EXCEPT ![r] = late[r]]
        /\ apiFaults' \in 0 .. MaxApiFaults
    BY <1>1 DEF Receive, RequestInv, RequestTypes
  <1> HIDE DEF p, c
  <1> QED BY <1>2, <1>3, <1>4, <1>5, <1>6, OneMoves

\* The facts about a request that the following proofs start from.
LEMMA Before ==
    ASSUME RequestInv, NEW r \in Requests
    PROVE  /\ Fine(at[r], op[r], code[r], heard[r])
           /\ at[r] \in Places /\ op[r] \in Ops \cup {None} /\ code[r] \in Codes \cup {None}
           /\ heard[r] \in Seq(Events) /\ Len(heard[r]) \in Nat
           /\ late[r] \in BOOLEAN
  BY DEF RequestInv, RequestTypes

\* A stream closes, or goes on to the handler's last event, with one event more.
LEMMA OneEvent ==
    ASSUME RequestInv, NEW r \in Requests, NEW p \in {"final", "closed"}, NEW e \in Events,
           stream(r, p, <<e>>),
           \/ at[r] = "check" /\ op[r] = "delete"
           \/ at[r] = "apply" /\ op[r] = "delete"
           \/ at[r] \in {"poll", "await_gone"}
           \/ at[r] = "final" /\ p = "closed",
           apiFaults' \in 0 .. MaxApiFaults
    PROVE  RequestInv'
  <1> DEFINE h == heard[r] \o <<e>>
  <1>1. h \in Seq(Events) /\ Len(h) = Len(heard[r]) + 1
    BY OneMoreEvent, Before
  <1>2. Len(heard[r]) \in Nat /\ Len(heard[r]) <= IF at[r] = "final" THEN 2 ELSE 1
    BY Before, NothingHeard DEF Fine
  <1>3. Len(h) <= IF at[r] = "final" THEN 3 ELSE 2
    BY <1>1, <1>2
  <1>4. Fine(p, op[r], "200", h)
    <2>1. Len(h) <= 3 /\ (p = "final" => Len(h) <= 2)
      BY <1>1, <1>2, <1>3
    <2> HIDE DEF h
    <2> QED BY <1>1, <2>1 DEF Fine
  <1>5. p \in Places /\ <<e>> \in Seq(Events)
    BY DEF Places
  <1> QED BY <1>4, <1>5, Streamed

LEMMA CheckFine ==
    ASSUME RequestInv, NEW r \in Requests, Check(r)
    PROVE  RequestInv'
  <1>1. apiFaults' \in 0 .. MaxApiFaults
    BY DEF Check, RequestInv, RequestTypes
  <1>2. at[r] = "check" /\ heard[r] = <<>>
    BY Before DEF Check, Fine
  <1>3. CASE op[r] \in {"get", "stats"} /\ answer(r, "200")
    <2>1. Fine("closed", op[r], "200", heard[r])
      BY <1>2, <1>3, NothingHeard DEF Fine, Lifecycle
    <2> QED BY <1>1, <1>3, <2>1, Answered DEF Codes
  <1>4. CASE /\ at' = [at EXCEPT ![r] = IF op[r] \in Lifecycle THEN "apply" ELSE "read"]
             /\ UNCHANGED <<op, code, heard, late>>
    <2> DEFINE p == IF op[r] \in Lifecycle THEN "apply" ELSE "read"
    <2>1. p \in Places /\ Fine(p, op[r], code[r], heard[r])
      BY <1>2, Before, NothingHeard DEF Fine, Places
    <2>2. /\ op' = [op EXCEPT ![r] = op[r]] /\ code' = [code EXCEPT ![r] = code[r]]
          /\ heard' = [heard EXCEPT ![r] = heard[r]] /\ late' = [late EXCEPT ![r] = late[r]]
      BY <1>4 DEF RequestInv, RequestTypes
    <2>3. at' = [at EXCEPT ![r] = p]
      BY <1>4
    <2> HIDE DEF p
    <2> QED BY <1>1, <2>1, <2>2, <2>3, Before, OneMoves
  <1>5. CASE \E c \in {"404", "409"} : answer(r, c)
    <2>1. PICK c \in {"404", "409"} : answer(r, c)
      BY <1>5
    <2>2. Fine("closed", op[r], c, heard[r])
      BY <1>2, NothingHeard DEF Fine
    <2> QED BY <1>1, <2>1, <2>2, Answered DEF Codes
  <1>6. CASE op[r] = "delete" /\ stream(r, "closed", <<"error">>)
    BY <1>1, <1>2, <1>6, OneEvent DEF Events
  <1> QED BY <1>3, <1>4, <1>5, <1>6 DEF Check

LEMMA ReadFine ==
    ASSUME RequestInv, NEW r \in Requests, Read(r)
    PROVE  RequestInv'
  <1>1. PICK c \in {"200", "404", "500"} : answer(r, c)
    BY DEF Read, log_code, ssh_code
  <1>2. heard[r] = <<>> /\ op[r] \notin Lifecycle
    BY Before DEF Read, Fine
  <1>3. Fine("closed", op[r], c, heard[r])
    BY <1>2, NothingHeard DEF Fine
  <1>4. apiFaults' \in 0 .. MaxApiFaults
    BY DEF Read, RequestInv, RequestTypes
  <1> QED BY <1>1, <1>3, <1>4, Answered DEF Codes

\* A write that succeeded and one that failed, whether or not it took effect.
LEMMA SucceedFine ==
    ASSUME RequestInv, NEW r \in Requests, at[r] = "apply", succeed(r),
           apiFaults' \in 0 .. MaxApiFaults
    PROVE  RequestInv'
  <1> DEFINE p == IF op[r] = "delete" THEN "await_gone" ELSE "poll"
             e == IF op[r] = "create" THEN <<"created">> ELSE <<>>
  <1>0. heard[r] = <<>>
    BY Before DEF Fine
  <1>1. heard[r] = <<>> /\ <<>> \o e = e /\ e \in Seq(Events) /\ Len(e) <= 1
    <2>1. e \in {<<>>, <<"created">>} /\ "created" \in Events
      BY DEF Events
    <2>2. \A x \in Events : <<>> \o <<x>> = <<x>> /\ <<x>> \in Seq(Events) /\ Len(<<x>>) = 1
      OBVIOUS
    <2> QED BY <1>0, <2>1, <2>2, NothingHeard, NoMoreEvent
  <1>2. Fine(p, op[r], "200", heard[r] \o e)
    <2>1. heard[r] \o e = e /\ (op[r] = "delete" => e = <<>>)
      BY <1>1
    <2> HIDE DEF e
    <2> QED BY <1>1, <2>1 DEF Fine
  <1>3. p \in Places
    BY DEF Places
  <1>4. stream(r, p, e)
    BY DEF succeed
  <1> HIDE DEF p, e
  <1> QED BY <1>1, <1>2, <1>3, <1>4, Streamed

LEMMA FailFine ==
    ASSUME RequestInv, NEW r \in Requests, at[r] = "apply", fail(r),
           apiFaults' \in 0 .. MaxApiFaults
    PROVE  RequestInv'
  <1>1. heard[r] = <<>>
    BY Before DEF Fine
  <1>2. CASE answer(r, "500")
    <2>1. Fine("closed", op[r], "500", heard[r])
      BY <1>1, NothingHeard DEF Fine
    <2> QED BY <1>2, <2>1, Answered DEF Codes
  <1>3. CASE op[r] = "restart" /\ stream(r, "poll", <<>>)
    <2>1. heard[r] \o <<>> = <<>>
      BY <1>1
    <2>2. Fine("poll", op[r], "200", heard[r] \o <<>>)
      BY <2>1, NothingHeard DEF Fine
    <2> QED BY <1>3, <2>2, NothingHeard, Streamed DEF Places
  <1>4. CASE op[r] = "delete" /\ stream(r, "closed", <<"error">>)
    BY <1>4, OneEvent DEF Events
  <1> QED BY <1>2, <1>3, <1>4 DEF fail

LEMMA ApplyFine ==
    ASSUME RequestInv, NEW r \in Requests, Apply(r)
    PROVE  RequestInv'
  <1>1. at[r] = "apply" /\ (succeed(r) \/ fail(r)) /\ apiFaults' \in 0 .. MaxApiFaults
    BY DEF Apply, RequestInv, RequestTypes
  <1> QED BY <1>1, SucceedFine, FailFine

LEMMA PollFine ==
    ASSUME RequestInv, NEW r \in Requests, Poll(r)
    PROVE  RequestInv'
  <1>1. apiFaults' \in 0 .. MaxApiFaults /\ at[r] = "poll"
    BY DEF Poll, RequestInv, RequestTypes
  <1>2. CASE stream(r, "final", <<"error">>)
    BY <1>1, <1>2, OneEvent DEF Events
  <1>3. CASE stream(r, "final", <<>>)
    <2>1. heard[r] \o <<>> = heard[r]
      BY Before, NoMoreEvent
    <2>2. code[r] = "200" /\ Len(heard[r]) \in Nat /\ Len(heard[r]) <= 1
      BY <1>1, Before DEF Fine
    <2>3. Len(heard[r]) <= 2
      BY <2>2
    <2>4. Fine("final", op[r], "200", heard[r] \o <<>>)
      BY <2>1, <2>3 DEF Fine
    <2> QED BY <1>1, <1>3, <2>4, NothingHeard, Streamed DEF Places
  <1> QED BY <1>2, <1>3 DEF Poll

LEMMA FinalFine ==
    ASSUME RequestInv, NEW r \in Requests, Final(r)
    PROVE  RequestInv'
  <1>1. PICK e \in {"stopped", "ready"} : stream(r, "closed", <<e>>)
    BY DEF Final, final_event
  <1>2. at[r] = "final" /\ apiFaults' \in 0 .. MaxApiFaults
    BY DEF Final, RequestInv, RequestTypes
  <1> QED BY <1>1, <1>2, OneEvent DEF Events

LEMMA AwaitGoneFine ==
    ASSUME RequestInv, NEW r \in Requests, AwaitGone(r)
    PROVE  RequestInv'
  <1>1. PICK e \in {"error", "deleted"} : stream(r, "closed", <<e>>)
    BY DEF AwaitGone
  <1>2. at[r] = "await_gone" /\ apiFaults' \in 0 .. MaxApiFaults
    BY DEF AwaitGone, RequestInv, RequestTypes
  <1> QED BY <1>1, <1>2, OneEvent DEF Events

LEMMA ApiFailsFine ==
    ASSUME RequestInv, NEW r \in Requests, ApiFails(r)
    PROVE  RequestInv'
  <1>1. apiFaults' \in 0 .. MaxApiFaults
    BY ApiFaultsAssumption DEF ApiFails, RequestInv, RequestTypes
  <1>2. CASE at[r] = "check" /\ op[r] = "delete" /\ stream(r, "closed", <<"error">>)
    BY <1>1, <1>2, OneEvent DEF Events
  <1>3. CASE /\ at[r] \in {"check", "read"} /\ ~(at[r] = "check" /\ op[r] = "delete")
             /\ answer(r, "500")
    <2>1. Fine("closed", op[r], "500", heard[r])
      BY <1>3, Before, NothingHeard DEF Fine
    <2> QED BY <1>1, <1>3, <2>1, Answered DEF Codes
  <1>4. CASE at[r] = "apply" /\ fail(r)
    BY <1>1, <1>4, FailFine
  <1>5. CASE at[r] = "poll" /\ stream(r, "final", <<"error">>)
    BY <1>1, <1>5, OneEvent DEF Events
  <1> QED BY <1>2, <1>3, <1>4, <1>5 DEF ApiFails

\* Nothing happens to what has been answered and heard.
LEMMA ExpireFine ==
    ASSUME RequestInv, NEW r \in Requests, Expire(r)
    PROVE  RequestInv'
  BY DEF Expire, RequestInv, RequestTypes, Fine

LEMMA DisconnectFine ==
    ASSUME RequestInv, NEW r \in Requests, Disconnect(r)
    PROVE  RequestInv'
  <1>1. Len(heard[r]) \in Nat /\ Len(heard[r]) <= 2
    <2>1. Len(heard[r]) \in Nat
      BY Before
    <2>2. Len(heard[r]) = 0 \/ Len(heard[r]) <= 1 \/ Len(heard[r]) <= 2
      BY Before, NothingHeard DEF Disconnect, Fine, Places
    <2> QED BY <2>1, <2>2
  <1>2. Fine("cut", op[r], code[r], heard[r])
    <2>1. Len(heard[r]) <= 3
      BY <1>1
    <2> QED BY <2>1, Before DEF Fine
  <1>3. /\ op' = [op EXCEPT ![r] = op[r]] /\ code' = [code EXCEPT ![r] = code[r]]
        /\ heard' = [heard EXCEPT ![r] = heard[r]] /\ late' = [late EXCEPT ![r] = late[r]]
        /\ apiFaults' \in 0 .. MaxApiFaults
    BY DEF Disconnect, RequestInv, RequestTypes
  <1>4. "cut" \in Places /\ at' = [at EXCEPT ![r] = "cut"]
    BY DEF Disconnect, Places
  <1> QED BY <1>2, <1>3, <1>4, Before, OneMoves

LEMMA NextFine == RequestInv /\ [ApiNext]_apiAloneVars => RequestInv'
  <1> SUFFICES ASSUME RequestInv, [ApiNext]_apiAloneVars
               PROVE  RequestInv'
    OBVIOUS
  <1>1. ASSUME NEW r \in Requests, ApiStep(r)
        PROVE  RequestInv'
    BY <1>1, ReceiveFine, CheckFine, ReadFine, ApplyFine, PollFine, FinalFine, AwaitGoneFine,
       ExpireFine, ApiFailsFine, DisconnectFine DEF ApiStep, Handle
  <1>2. CASE UNCHANGED apiVars
    BY <1>2 DEF apiVars, RequestInv, RequestTypes, Fine
  <1> QED BY <1>1, <1>2 DEF ApiNext, apiAloneVars

-----------------------------------------------------------------------------
(* The safety of the API does not depend on fairness.                      *)
ApiSafety == ApiAloneInit /\ [][ApiNext]_apiAloneVars

LEMMA InitFine == ApiAloneInit => CreatorInv /\ RequestInv
  <1>1. ApiAloneInit => CreatorInv
    BY BoundsAssumption
       DEF ApiAloneInit, ApiInit, ClusterInit, CreatorInv, CreditedBefore, OneCreatorEach
  <1>2. ApiAloneInit => RequestInv
    <2> SUFFICES ASSUME ApiInit PROVE RequestInv
      BY DEF ApiAloneInit
    <2>1. RequestTypes
      BY ApiFaultsAssumption, NothingHeard DEF ApiInit, RequestTypes, Places
    <2>2. ASSUME NEW r \in Requests
          PROVE  Fine(at[r], op[r], code[r], heard[r])
      BY DEF ApiInit, Fine
    <2> QED BY <2>1, <2>2 DEF RequestInv
  <1> QED BY <1>1, <1>2

LEMMA Invariants == ApiSafety => [](CreatorInv /\ RequestInv)
  BY InitFine, NextCredits, NextFine, PTL DEF ApiSafety

\* Each of the invariants that the runs check follows.
LEMMA TypesFollow == CreatorInv /\ RequestInv => ApiTypeOK
  <1> SUFFICES ASSUME CreatorInv, RequestInv
               PROVE  ApiTypeOK
    OBVIOUS
  <1>1. ASSUME NEW r \in Requests
        PROVE  Len(heard[r]) <= 3
    <2>1. Len(heard[r]) \in Nat
      BY Before
    <2>2. Len(heard[r]) = 0 \/ Len(heard[r]) <= 1 \/ Len(heard[r]) <= 2 \/ Len(heard[r]) <= 3
      BY Before, NothingHeard DEF Fine, Places
    <2> QED BY <2>1, <2>2
  <1> QED BY <1>1 DEF ApiTypeOK, CreatorInv, CreditedBefore, RequestInv, RequestTypes

\* The handlers keep the types of InstanceApi: at most three events in a stream.
THEOREM ApiTypeCorrect == ApiSpec => []ApiTypeOK
  BY Invariants, TypesFollow, PTL DEF ApiSpec, ApiSafety

\* No two requests are ever told that they created the same instance, however
\* many there are and whatever fails.
THEOREM OneCreator == ApiSpec => []OneCreatorEach
  <1>1. CreatorInv => OneCreatorEach
    BY DEF CreatorInv
  <1> QED BY <1>1, Invariants, PTL DEF ApiSpec, ApiSafety

-----------------------------------------------------------------------------
(***************************************************************************)
(* The answers mean what ApiContract says.  A step of a request changes    *)
(* its own fate only; and two more facts are needed: a request that was    *)
(* made asks for something the API knows, and the Agent is well-formed (to *)
(* be an object, and to have a state to patch).                            *)
(***************************************************************************)
AskedOps == \A r \in Requests : at[r] # "idle" => op[r] \in Ops

AgentFits == agent \in Agents \cup {None} /\ lastUid \in 0 .. MaxUid

Fates == [r \in Requests |-> meaning(r)]

\* Nothing moves but request r.
OnlyMoves(r) ==
    \A q \in Requests \ {r} :
       at'[q] = at[q] /\ op'[q] = op[q] /\ code'[q] = code[q] /\ heard'[q] = heard[q]

LEMMA OneFate ==
    ASSUME NEW r \in Requests, OnlyMoves(r)
    PROVE  /\ Fates' = [Fates EXCEPT ![r] = meaning(r)']
           /\ meaning(r)' = meaning(r) => Fates' = Fates
  <1>1. ASSUME NEW q \in Requests \ {r}
        PROVE  meaning(q)' = meaning(q)
    <2>1. at'[q] = at[q] /\ op'[q] = op[q] /\ code'[q] = code[q] /\ heard'[q] = heard[q]
      BY DEF OnlyMoves
    <2> QED BY <2>1 DEF meaning, did_it, did_nothing
  <1> QED BY <1>1 DEF Fates

LEMMA StepMoves ==
    ASSUME RequestInv, NEW r \in Requests, ApiStep(r)
    PROVE  OnlyMoves(r) /\ (Submit(r) \/ op' = op)
  <1> USE DEF RequestInv, RequestTypes, OnlyMoves, answer, stream
  <1>1. CASE Submit(r)
    BY <1>1 DEF Submit, Receive
  <1>2. CASE Check(r)
    BY <1>2 DEF Check
  <1>3. CASE Read(r) \/ Poll(r) \/ Final(r) \/ AwaitGone(r)
    BY <1>3 DEF Read, Poll, Final, AwaitGone
  <1>4. CASE Apply(r)
    BY <1>4 DEF Apply, succeed, fail
  <1>5. CASE Expire(r) \/ Disconnect(r)
    BY <1>5 DEF Expire, Disconnect
  <1>6. CASE ApiFails(r)
    BY <1>6 DEF ApiFails, fail
  <1> QED BY <1>1, <1>2, <1>3, <1>4, <1>5, <1>6 DEF ApiStep, Handle

\* The steps of the contract, from what becomes of the request that moves.
LEMMA ContractMoves ==
    ASSUME NEW r \in Requests, OnlyMoves(r),
           \/ /\ meaning(r) = "new" /\ meaning(r)' \in {"pending", "void"}
              /\ UNCHANGED <<agent, pod>> /\ \E o \in Ops : op' = [op EXCEPT ![r] = o]
           \/ /\ meaning(r) = "pending" /\ meaning(r)' \in {"done", "doubtful"}
              /\ Contract!carried_out(op[r]) /\ op' = op
           \/ /\ meaning(r) = "pending" /\ meaning(r)' \in {"void", "doubtful"}
              /\ UNCHANGED <<agent, pod, op>>
           \/ /\ meaning(r) = "done" /\ meaning(r)' = "doubtful" /\ op[r] = "delete"
              /\ UNCHANGED <<agent, pod, op>>
           \/ meaning(r)' = meaning(r) /\ UNCHANGED <<agent, pod, op>>
    PROVE  [Contract!ContractNext]_Contract!contractVars
  <1>1. /\ Fates' = [Fates EXCEPT ![r] = meaning(r)']
        /\ Fates[r] = meaning(r)
        /\ meaning(r)' = meaning(r) => Fates' = Fates
    BY OneFate DEF Fates
  <1> USE DEF Fates, Contract!becomes
  <1>2. CASE /\ meaning(r) = "new" /\ meaning(r)' \in {"pending", "void"}
             /\ UNCHANGED <<agent, pod>> /\ \E o \in Ops : op' = [op EXCEPT ![r] = o]
    <2>1. Contract!Ask(r)
      BY <1>1, <1>2 DEF Contract!Ask
    <2> QED BY <2>1 DEF Contract!ContractNext
  <1>3. CASE /\ meaning(r) = "pending" /\ meaning(r)' \in {"done", "doubtful"}
             /\ Contract!carried_out(op[r]) /\ op' = op
    <2>1. Contract!CarryOut(r)
      BY <1>1, <1>3 DEF Contract!CarryOut
    <2> QED BY <2>1 DEF Contract!ContractNext
  <1>4. CASE /\ meaning(r) = "pending" /\ meaning(r)' \in {"void", "doubtful"}
             /\ UNCHANGED <<agent, pod, op>>
    <2>1. Contract!GiveUp(r)
      BY <1>1, <1>4 DEF Contract!GiveUp
    <2> QED BY <2>1 DEF Contract!ContractNext
  <1>5. CASE /\ meaning(r) = "done" /\ meaning(r)' = "doubtful" /\ op[r] = "delete"
             /\ UNCHANGED <<agent, pod, op>>
    <2>1. Contract!LoseSight(r)
      BY <1>1, <1>5 DEF Contract!LoseSight
    <2> QED BY <2>1 DEF Contract!ContractNext
  <1>6. CASE meaning(r)' = meaning(r) /\ UNCHANGED <<agent, pod, op>>
    BY <1>1, <1>6 DEF Contract!contractVars
  <1> QED BY <1>2, <1>3, <1>4, <1>5, <1>6

\* What the handlers write is what was asked for.
LEMMA EffectCarriesOut ==
    ASSUME AgentFits, NEW r \in Requests, effect(r)
    PROVE  Contract!carried_out(op[r]) /\ op[r] \in Lifecycle
  <1> USE DEF Contract!carried_out, Contract!set_state, AgentFits, Lifecycle
  <1>1. ASSUME NEW t \in Templates, CreateAgent(t), op[r] = "create"
        PROVE  Contract!carried_out(op[r])
    <2>1. lastUid + 1 \in Uids
      <3>1. lastUid \in 0 .. MaxUid /\ lastUid < MaxUid
        BY <1>1 DEF CreateAgent
      <3> QED BY <3>1, BoundsAssumption DEF Uids
    <2>2. agent' \in Agents /\ agent'.state = "running"
      BY <1>1, <2>1, TemplatesAssumption DEF CreateAgent, Agents, States, Status, Phases
    <2> QED BY <1>1, <2>2, NoneIsNoObject DEF CreateAgent
  <1>2. ASSUME NEW s \in States, agent # None, patch_state(s)
        PROVE  Contract!set_state(s)
    BY <1>2 DEF patch_state, SetState, Agents, clusterVars
  <1>3. CASE op[r] = "create" /\ \E t \in Templates : CreateAgent(t)
    BY <1>1, <1>3
  <1>4. CASE op[r] = "start" /\ agent # None /\ patch_state("running")
    BY <1>2, <1>4 DEF States
  <1>5. CASE op[r] = "stop" /\ agent # None /\ patch_state("stopped")
    BY <1>2, <1>5 DEF States
  <1>6. CASE op[r] = "restart" /\ RestartPod
    BY <1>6 DEF RestartPod, delete_pod
  <1>7. CASE op[r] = "delete" /\ DeleteAgent
    BY <1>7 DEF DeleteAgent
  <1> QED BY <1>3, <1>4, <1>5, <1>6, <1>7 DEF effect

\* What an answer, and an event, leave behind.
LEMMA AnsweredIs ==
    ASSUME RequestInv, NEW r \in Requests, NEW c, answer(r, c)
    PROVE  at'[r] = "closed" /\ code'[r] = c /\ heard'[r] = heard[r] /\ op' = op
  BY DEF answer, RequestInv, RequestTypes

LEMMA StreamedIs ==
    ASSUME RequestInv, NEW r \in Requests, NEW p, NEW e, stream(r, p, e)
    PROVE  at'[r] = p /\ code'[r] = "200" /\ heard'[r] = heard[r] \o e /\ op' = op
  BY DEF stream, RequestInv, RequestTypes

\* A delete that ends with "error", and a stream that is a different one from it.
LEMMA NotDeleted ==
    ASSUME NEW h \in Seq(Events), NEW e \in Events \ {"deleted"}
    PROVE  h \o <<e>> # <<"deleted">>
  <1>1. (h \o <<e>>)[Len(h) + 1] = e /\ Len(h \o <<e>>) = Len(h) + 1
    OBVIOUS
  <1>2. Len(<<"deleted">>) = 1 /\ <<"deleted">>[1] = "deleted" /\ Len(h) \in Nat
    OBVIOUS
  <1>3. ASSUME h \o <<e>> = <<"deleted">>
        PROVE  FALSE
    <2>1. Len(h) + 1 = 1
      BY <1>1, <1>2, <1>3
    <2> QED BY <1>1, <1>2, <1>3, <2>1
  <1> QED BY <1>3

LEMMA ErrorDoubtful ==
    ASSUME RequestInv, NEW r \in Requests, op[r] = "delete", stream(r, "closed", <<"error">>)
    PROVE  meaning(r)' = "doubtful" /\ op' = op
  <1>1. at'[r] = "closed" /\ code'[r] = "200" /\ heard'[r] = heard[r] \o <<"error">> /\ op' = op
    BY StreamedIs
  <1>2. heard[r] \o <<"error">> # <<"deleted">>
    BY Before, NotDeleted DEF Events
  <1> QED BY <1>1, <1>2 DEF meaning, did_it, did_nothing, Reads

LEMMA SucceedMeans ==
    ASSUME RequestInv, NEW r \in Requests, op[r] \in Lifecycle, succeed(r)
    PROVE  meaning(r)' \in {"done", "doubtful"} /\ op' = op
  <1>1. /\ at'[r] = IF op[r] = "delete" THEN "await_gone" ELSE "poll"
        /\ code'[r] = "200" /\ op' = op
    BY StreamedIs DEF succeed
  <1> QED BY <1>1 DEF meaning, did_it, did_nothing, Lifecycle, Reads

LEMMA FailMeans ==
    ASSUME RequestInv, NEW r \in Requests, at[r] = "apply", fail(r)
    PROVE  meaning(r)' = "doubtful" /\ op' = op
  <1>1. CASE op[r] \in {"create", "start", "stop"} /\ answer(r, "500")
    BY <1>1, AnsweredIs DEF meaning, did_it, did_nothing, Reads
  <1>2. CASE op[r] = "restart" /\ stream(r, "poll", <<>>)
    BY <1>2, StreamedIs DEF meaning, did_it, did_nothing, Reads
  <1>3. CASE op[r] = "delete" /\ stream(r, "closed", <<"error">>)
    BY <1>3, ErrorDoubtful
  <1> QED BY <1>1, <1>2, <1>3 DEF fail

\* While a stream goes on, and when it closes, nothing new is learnt of the request.
LEMMA StreamGoesOn ==
    ASSUME RequestInv, NEW r \in Requests, code[r] = "200",
           \/ at[r] = "poll" /\ \E e \in {<<>>, <<"error">>} : stream(r, "final", e)
           \/ at[r] = "final" /\ \E e \in Events \ {"deleted"} : stream(r, "closed", <<e>>)
    PROVE  meaning(r)' = meaning(r) /\ op' = op
  <1>1. CASE at[r] = "poll" /\ \E e \in {<<>>, <<"error">>} : stream(r, "final", e)
    <2>1. at'[r] = "final" /\ code'[r] = "200" /\ op' = op
      BY <1>1, StreamedIs
    <2> QED BY <1>1, <2>1 DEF meaning, did_it, did_nothing
  <1>2. CASE at[r] = "final" /\ \E e \in Events \ {"deleted"} : stream(r, "closed", <<e>>)
    <2>1. at'[r] = "closed" /\ code'[r] = "200" /\ op' = op /\ heard'[r] # <<"deleted">>
      BY <1>2, StreamedIs, NotDeleted, Before
    <2> QED BY <1>2, <2>1 DEF meaning, did_it, did_nothing
  <1> QED BY <1>1, <1>2

\* Action by action: what becomes of what is known of the request.
LEMMA StepKeepsContract ==
    ASSUME RequestInv, AskedOps, AgentFits, NEW r \in Requests, ApiStep(r)
    PROVE  [Contract!ContractNext]_Contract!contractVars
  <1>0. /\ OnlyMoves(r)
        /\ Fine(at[r], op[r], code[r], heard[r])
        /\ heard[r] \in Seq(Events)
        /\ at[r] # "idle" => op[r] \in Lifecycle \cup Reads
        /\ Lifecycle \cap Reads = {}
    BY StepMoves, Before, OpsAssumption DEF AskedOps, Lifecycle, Reads
  <1>1. CASE Submit(r)
    <2>1. PICK o \in Ops, token \in BOOLEAN : Receive(r, o, token)
      BY <1>1 DEF Submit
    <2>2. at[r] = "idle" /\ meaning(r) = "new"
      BY <2>1 DEF Receive, meaning
    <2>3. /\ op' = [op EXCEPT ![r] = o] /\ op'[r] = o
          /\ \/ at'[r] \in {"read", "check"}
             \/ at'[r] = "closed" /\ code'[r] = "401"
             \/ at'[r] = "closed" /\ o \in Reads
      BY <2>1 DEF Receive, RequestInv, RequestTypes, Reads
    <2>4. meaning(r)' \in {"pending", "void"}
      BY <2>3 DEF meaning, did_nothing
    <2>5. UNCHANGED <<agent, pod>>
      BY <2>1 DEF Receive, clusterVars
    <2> QED BY <1>0, <2>2, <2>3, <2>4, <2>5, ContractMoves
  <1>2. CASE Check(r)
    <2>1. at[r] = "check" /\ meaning(r) = "pending" /\ UNCHANGED <<agent, pod>>
      BY <1>2 DEF Check, meaning, clusterVars
    <2>2. CASE op[r] \in {"get", "stats"} /\ answer(r, "200")
      <3>1. meaning(r)' = "void" /\ op' = op
        BY <2>2, AnsweredIs DEF meaning, did_nothing, Reads
      <3> QED BY <1>0, <2>1, <3>1, ContractMoves
    <2>3. CASE /\ at' = [at EXCEPT ![r] = IF op[r] \in Lifecycle THEN "apply" ELSE "read"]
               /\ UNCHANGED <<op, code, heard, late>>
      <3>1. at'[r] \in {"apply", "read"}
        BY <2>3 DEF RequestInv, RequestTypes
      <3>2. meaning(r)' = "pending"
        BY <3>1 DEF meaning
      <3> QED BY <1>0, <2>1, <2>3, <3>2, ContractMoves
    <2>4. CASE \E c \in {"404", "409"} : answer(r, c)
      <3>1. meaning(r)' = "void" /\ op' = op
        BY <2>4, AnsweredIs DEF meaning, did_nothing
      <3> QED BY <1>0, <2>1, <3>1, ContractMoves
    <2>5. CASE op[r] = "delete" /\ stream(r, "closed", <<"error">>)
      <3>1. meaning(r)' = "doubtful" /\ op' = op
        BY <1>0, <2>1, <2>5, ErrorDoubtful
      <3> QED BY <1>0, <2>1, <3>1, ContractMoves
    <2> QED BY <1>2, <2>2, <2>3, <2>4, <2>5 DEF Check
  <1>3. CASE Read(r)
    <2>1. at[r] = "read" /\ meaning(r) = "pending" /\ UNCHANGED <<agent, pod>> /\ op[r] \in Reads
      BY <1>0, <1>3 DEF Read, meaning, clusterVars, Fine
    <2>2. \E c \in {"200", "404", "500"} : answer(r, c)
      BY <1>3 DEF Read, log_code, ssh_code
    <2>3. meaning(r)' = "void" /\ op' = op
      BY <2>1, <2>2, AnsweredIs DEF meaning, did_nothing
    <2> QED BY <1>0, <2>1, <2>3, ContractMoves
  <1>4. CASE Apply(r)
    <2>1. at[r] = "apply" /\ meaning(r) = "pending"
      BY <1>4 DEF Apply, meaning
    <2>2. CASE effect(r) /\ succeed(r)
      <3>1. Contract!carried_out(op[r]) /\ op[r] \in Lifecycle
        BY <2>2, EffectCarriesOut
      <3>2. meaning(r)' \in {"done", "doubtful"} /\ op' = op
        BY <1>0, <2>2, <3>1, SucceedMeans
      <3> QED BY <1>0, <2>1, <3>1, <3>2, ContractMoves
    <2>3. CASE refused(r) /\ fail(r) /\ UNCHANGED <<clusterVars, made>>
      <3>1. meaning(r)' = "doubtful" /\ op' = op
        BY <1>0, <2>1, <2>3, FailMeans
      <3> QED BY <1>0, <2>1, <2>3, <3>1, ContractMoves DEF clusterVars
    <2> QED BY <1>4, <2>2, <2>3 DEF Apply
  <1>5. CASE Poll(r)
    <2>1. /\ at[r] = "poll" /\ code[r] = "200" /\ UNCHANGED <<agent, pod>>
          /\ \E e \in {<<>>, <<"error">>} : stream(r, "final", e)
      BY <1>0, <1>5 DEF Poll, clusterVars, Fine
    <2> QED BY <1>0, <2>1, StreamGoesOn, ContractMoves
  <1>6. CASE Final(r)
    <2>1. /\ at[r] = "final" /\ code[r] = "200" /\ UNCHANGED <<agent, pod>>
          /\ \E e \in Events \ {"deleted"} : stream(r, "closed", <<e>>)
      BY <1>0, <1>6 DEF Final, clusterVars, Fine, final_event, Events
    <2> QED BY <1>0, <2>1, StreamGoesOn, ContractMoves
  <1>7. CASE AwaitGone(r)
    <2>1. /\ at[r] = "await_gone" /\ code[r] = "200" /\ op[r] = "delete" /\ heard[r] = <<>>
          /\ UNCHANGED <<agent, pod>>
      BY <1>0, <1>7 DEF AwaitGone, clusterVars, Fine
    <2>2. meaning(r) = "done"
      BY <1>0, <2>1 DEF meaning, did_it, did_nothing, Lifecycle
    <2>3. CASE stream(r, "closed", <<"error">>)
      <3>1. meaning(r)' = "doubtful" /\ op' = op
        BY <1>0, <2>1, <2>3, ErrorDoubtful
      <3> QED BY <1>0, <2>1, <2>2, <3>1, ContractMoves
    <2>4. CASE stream(r, "closed", <<"deleted">>)
      <3>1. at'[r] = "closed" /\ code'[r] = "200" /\ heard'[r] = <<"deleted">> /\ op' = op
        <4>1. <<>> \o <<"deleted">> = <<"deleted">>
          OBVIOUS
        <4> QED BY <2>1, <2>4, <4>1, StreamedIs
      <3>2. meaning(r)' = "done"
        BY <1>0, <2>1, <3>1 DEF meaning, did_it, did_nothing, Lifecycle
      <3> QED BY <1>0, <2>1, <2>2, <3>1, <3>2, ContractMoves
    <2> QED BY <1>7, <2>3, <2>4 DEF AwaitGone
  <1>8. CASE Expire(r)
    <2>1. UNCHANGED <<agent, pod, at, op, code, heard>>
      BY <1>8 DEF Expire, clusterVars
    <2>2. meaning(r)' = meaning(r)
      BY <2>1 DEF meaning, did_it, did_nothing
    <2> QED BY <1>0, <2>1, <2>2, ContractMoves
  <1>9. CASE ApiFails(r)
    <2>1. CASE at[r] \in {"check", "apply", "read"}
      <3>0. meaning(r) = "pending"
        BY <2>1 DEF meaning
      <3>1. \/ op[r] = "delete" /\ stream(r, "closed", <<"error">>) /\ UNCHANGED clusterVars
            \/ answer(r, "500") /\ UNCHANGED clusterVars
            \/ at[r] = "apply" /\ fail(r) /\ (UNCHANGED clusterVars \/ effect(r))
        BY <1>9, <2>1 DEF ApiFails
      <3>2. CASE op[r] = "delete" /\ stream(r, "closed", <<"error">>) /\ UNCHANGED clusterVars
        <4>1. meaning(r)' = "doubtful" /\ op' = op
          BY <1>0, <2>1, <3>2, ErrorDoubtful
        <4> QED BY <1>0, <3>0, <3>2, <4>1, ContractMoves DEF clusterVars
      <3>3. CASE answer(r, "500") /\ UNCHANGED clusterVars
        <4>1. at'[r] = "closed" /\ code'[r] = "500" /\ heard'[r] = heard[r] /\ op' = op
          BY <3>3, AnsweredIs
        <4>2. heard[r] # <<"deleted">>
          <5>1. heard[r] = <<>>
            BY <1>0, <2>1 DEF Fine
          <5>2. Len(<<"deleted">>) = 1 /\ Len(<<>>) = 0
            OBVIOUS
          <5> QED BY <5>1, <5>2
        <4>3. meaning(r)' \in {"void", "doubtful"}
          BY <4>1, <4>2 DEF meaning, did_it, did_nothing
        <4> QED BY <1>0, <3>0, <3>3, <4>1, <4>3, ContractMoves DEF clusterVars
      <3>4. CASE at[r] = "apply" /\ fail(r) /\ UNCHANGED clusterVars
        <4>1. meaning(r)' = "doubtful" /\ op' = op
          BY <1>0, <3>4, FailMeans
        <4> QED BY <1>0, <3>0, <3>4, <4>1, ContractMoves DEF clusterVars
      <3>5. CASE at[r] = "apply" /\ fail(r) /\ effect(r)
        <4>1. meaning(r)' = "doubtful" /\ op' = op
          BY <1>0, <3>5, FailMeans
        <4> QED BY <1>0, <3>0, <3>5, <4>1, EffectCarriesOut, ContractMoves
      <3> QED BY <3>1, <3>2, <3>3, <3>4, <3>5
    <2>2. CASE at[r] = "poll"
      <3>1. code[r] = "200" /\ UNCHANGED <<agent, pod>> /\ stream(r, "final", <<"error">>)
        BY <1>0, <1>9, <2>2 DEF ApiFails, clusterVars, Fine
      <3> QED BY <1>0, <2>2, <3>1, StreamGoesOn, ContractMoves
    <2> QED BY <1>9, <2>1, <2>2 DEF ApiFails
  <1>10. CASE Disconnect(r)
    <2>1. at'[r] = "cut" /\ UNCHANGED <<op, code, heard>>
      BY <1>10 DEF Disconnect, RequestInv, RequestTypes
    <2>2. CASE at[r] \in {"check", "apply", "read"}
      <3>1. /\ meaning(r) = "pending"
            /\ code[r] = IF op[r] = "delete" THEN "200" ELSE None
        BY <1>0, <2>2 DEF meaning, Fine
      <3>2. meaning(r)' = IF op[r] \in Reads THEN "void" ELSE "doubtful"
        BY <1>0, <2>1, <3>1, NoneIsNoCode DEF meaning, did_it, did_nothing, Codes
      <3>3. CASE UNCHANGED clusterVars
        BY <1>0, <2>1, <3>1, <3>2, <3>3, ContractMoves DEF clusterVars
      <3>4. CASE effect(r)
        <4>1. Contract!carried_out(op[r]) /\ op[r] \in Lifecycle
          BY <3>4, EffectCarriesOut
        <4>2. meaning(r)' = "doubtful"
          BY <1>0, <3>2, <4>1
        <4> QED BY <1>0, <2>1, <3>1, <4>1, <4>2, ContractMoves
      <3> QED BY <1>10, <3>3, <3>4 DEF Disconnect
    <2>3. CASE at[r] \in {"poll", "final"}
      <3>1. UNCHANGED <<agent, pod>>
        BY <1>10, <2>3 DEF Disconnect, clusterVars
      <3>2. meaning(r)' = meaning(r)
        BY <2>1, <2>3 DEF meaning, did_it, did_nothing
      <3> QED BY <1>0, <2>1, <3>1, <3>2, ContractMoves
    <2>4. CASE at[r] = "await_gone"
      <3>1. UNCHANGED <<agent, pod>>
        BY <1>10, <2>4 DEF Disconnect, clusterVars
      <3>2. op[r] = "delete" /\ code[r] = "200"
        BY <1>0, <2>4 DEF Fine
      <3>3. meaning(r) = "done" /\ meaning(r)' = "doubtful"
        BY <1>0, <2>1, <2>4, <3>2 DEF meaning, did_it, did_nothing, Lifecycle
      <3> QED BY <1>0, <2>1, <3>1, <3>2, <3>3, ContractMoves
    <2>5. at[r] \in Places \ {"idle", "closed", "cut"}
      BY <1>10 DEF Disconnect, RequestInv, RequestTypes
    <2> QED BY <2>2, <2>3, <2>4, <2>5 DEF Places
  <1> QED BY <1>1, <1>2, <1>3, <1>4, <1>5, <1>6, <1>7, <1>8, <1>9, <1>10 DEF ApiStep, Handle

\* The operator, as far as the API can tell, is one of the others; and the Agent
\* stays well-formed.
LEMMA ReportIsOthers ==
    ASSUME AgentFits, Report, UNCHANGED apiVars
    PROVE  Contract!Others /\ AgentFits'
  <1>1. PICK ph \in Phases \ {""} : agent' = [agent EXCEPT !.status.phase = ph]
    BY DEF Report
  <1>2. agent \in Agents /\ agent # None
    BY DEF Report, AgentFits
  <1>3. /\ agent' \in Agents /\ agent'.uid = agent.uid
        /\ agent'.state = agent.state /\ agent'.tmpl = agent.tmpl
    BY <1>1, <1>2 DEF Agents, Status
  <1>4. UNCHANGED <<at, op, code, heard>> /\ lastUid' = lastUid
    BY DEF apiVars, Report
  <1>5. Fates' = Fates
    BY <1>4 DEF Fates, meaning, did_it, did_nothing
  <1>6. Contract!Others
    BY <1>2, <1>3, <1>4, <1>5, NoneIsNoObject DEF Contract!Others, Fates
  <1>7. AgentFits'
    BY <1>3, <1>4 DEF AgentFits
  <1> QED BY <1>6, <1>7

LEMMA EffectFits ==
    ASSUME AgentFits, NEW r \in Requests, effect(r)
    PROVE  AgentFits'
  <1>1. ASSUME NEW t \in Templates, CreateAgent(t)
        PROVE  AgentFits'
    <2>1. lastUid \in 0 .. MaxUid /\ lastUid < MaxUid
      BY <1>1 DEF CreateAgent, AgentFits
    <2>2. lastUid + 1 \in Uids /\ lastUid + 1 \in 0 .. MaxUid
      BY <2>1, BoundsAssumption DEF Uids
    <2>3. agent' \in Agents
      BY <1>1, <2>2, TemplatesAssumption DEF CreateAgent, Agents, States, Status, Phases
    <2> QED BY <1>1, <2>2, <2>3 DEF CreateAgent, AgentFits
  <1>2. ASSUME NEW s \in States, agent # None, patch_state(s)
        PROVE  AgentFits'
    BY <1>2 DEF patch_state, SetState, AgentFits, Agents, clusterVars
  <1>3. RestartPod \/ DeleteAgent => AgentFits'
    BY DEF RestartPod, DeleteAgent, AgentFits
  <1> QED BY <1>1, <1>2, <1>3 DEF effect, States

LEMMA StepFits ==
    ASSUME AgentFits, NEW r \in Requests, ApiStep(r)
    PROVE  AgentFits'
  <1>1. effect(r) \/ UNCHANGED clusterVars
    BY DEF ApiStep, Handle, Submit, Receive, Check, Read, Apply, Poll, Final, AwaitGone, Expire,
           ApiFails, Disconnect
  <1> QED BY <1>1, EffectFits DEF AgentFits, clusterVars

LEMMA StepAsks ==
    ASSUME RequestInv, AskedOps, NEW r \in Requests, ApiStep(r)
    PROVE  AskedOps'
  <1>1. OnlyMoves(r) /\ (Submit(r) \/ op' = op)
    BY StepMoves
  <1>2. CASE Submit(r)
    BY <1>1, <1>2 DEF Submit, Receive, AskedOps, OnlyMoves, RequestInv, RequestTypes
  <1>3. CASE op' = op /\ ~Submit(r)
    <2>1. at[r] # "idle"
      BY <1>3 DEF ApiStep, Handle, Check, Read, Apply, Poll, Final, AwaitGone, Expire, ApiFails,
                  Disconnect
    <2> QED BY <1>1, <1>3, <2>1 DEF AskedOps, OnlyMoves
  <1> QED BY <1>1, <1>2, <1>3

ContractInv == RequestInv /\ AskedOps /\ AgentFits

LEMMA NextKeepsContract ==
    ASSUME ContractInv, [ApiNext]_apiAloneVars
    PROVE  ContractInv' /\ [Contract!ContractNext]_Contract!contractVars
  <1>0. RequestInv'
    BY NextFine DEF ContractInv
  <1>1. ASSUME NEW r \in Requests, ApiStep(r)
        PROVE  ContractInv' /\ [Contract!ContractNext]_Contract!contractVars
    BY <1>0, <1>1, StepFits, StepAsks, StepKeepsContract DEF ContractInv
  <1>2. CASE Report /\ UNCHANGED apiVars
    <2>1. Contract!Others /\ AgentFits'
      BY <1>2, ReportIsOthers DEF ContractInv
    <2>2. AskedOps'
      BY <1>2 DEF ContractInv, AskedOps, apiVars
    <2> QED BY <1>0, <2>1, <2>2 DEF ContractInv, Contract!ContractNext
  <1>3. CASE UNCHANGED apiAloneVars
    <2>1. UNCHANGED <<agent, pod, lastUid, at, op, code, heard>>
      BY <1>3 DEF apiAloneVars, apiVars, clusterVars
    <2>2. Fates' = Fates
      BY <2>1 DEF Fates, meaning, did_it, did_nothing
    <2> QED BY <1>0, <2>1, <2>2 DEF ContractInv, AskedOps, AgentFits, Contract!contractVars, Fates
  <1> QED BY <1>1, <1>2, <1>3 DEF ApiNext

LEMMA InitContract == ApiAloneInit => ContractInv /\ Contract!ContractInit
  <1> SUFFICES ASSUME ApiAloneInit
               PROVE  ContractInv /\ Contract!ContractInit
    OBVIOUS
  <1>1. ApiInit
    BY DEF ApiAloneInit
  <1>2. AskedOps /\ Fates = [r \in Requests |-> "new"]
    BY <1>1 DEF ApiInit, AskedOps, Fates, meaning
  <1>3. AgentFits
    <2>1. CASE ClusterInit
      BY <2>1, BoundsAssumption DEF ClusterInit, AgentFits
    <2>2. CASE lastUid = 1 /\ \E t \in Templates, s \in States, ph \in Phases :
                  agent = [uid |-> 1, state |-> s, tmpl |-> t,
                           status |-> [phase |-> ph, pod_ip |-> None]]
      <3>1. 1 \in Uids /\ 1 \in 0 .. MaxUid
        BY BoundsAssumption DEF Uids
      <3> QED BY <2>2, <3>1, TemplatesAssumption DEF AgentFits, Agents, Status
    <2> QED BY <2>1, <2>2 DEF ApiAloneInit
  <1> QED BY <1>2, <1>3, InitFine DEF ContractInv, Contract!ContractInit, Fates

LEMMA ContractKept == ApiSafety => []ContractInv /\ AnswersMean
  BY InitContract, NextKeepsContract, PTL DEF ApiSafety, AnswersMean, Contract!ContractSpec

\* Whatever the interleaving, the failures and the lost answers, and for any number of
\* requests: 401, 404 and 409 mean that nothing was done, the 200 of a create, start
\* or stop and the "deleted" of a delete that the request did it, once.
THEOREM AnswersTrue == ApiSpec => AnswersMean
  BY ContractKept, PTL DEF ApiSpec, ApiSafety
=============================================================================
