# A TLA+ model of the agent hosting platform

The platform hosts "agents" (long-lived containers) on Kubernetes. A client asks a
REST API for an instance; the API writes an `Agent` custom resource; an operator
turns the resource into a pod, a volume, a network policy and a service, and
reports in its status what became of it. API and operator never call each other:
everything passes through objects in Kubernetes that other parties change too.

This directory models that protocol, checks it with TLC on small instances and
proves its safety with TLAPS for all instances. `PROJECT.json` maps every
definition to the lines it models and lists runs, hazards, findings and theorems.
Paths below are relative to `src/`.

## 1. Inventory

| component | state it keeps | operations | talks to |
|---|---|---|---|
| Agent resource and its children (`operator/src/crd.rs`, `resources.rs`; a copy of the type in `api/src/crd.rs`) | spec (image, limits, state, ...), status; pod, PVC, NetworkPolicy, Service | created, patched, deleted by the others; children carry an owner reference | the meeting point |
| Operator: `reconcile` (`operator/src/controller.rs`) | none of its own: a snapshot of the Agent and what it read, for the length of a reconciliation | `reconcile_pvc`, `reconcile_pod` or `delete_pod_if_exists`, `reconcile_network_policy`, `reconcile_service`, `update_status`; `error_policy` | reads Agents from its watch cache, reads and writes the children, patches the status |
| Operator: start-up and runtime (`operator/src/main.rs`, kube-rs) | watch cache, queue with timers | watch, wake, run one reconciliation per object, requeue after 30 s or 15 s; `register_crd` once | Kubernetes |
| REST API: lifecycle handlers (`api/src/handlers.rs`, `sse.rs`, `error.rs`) | none across requests; per request the position in handler and event stream | create, start, stop, restart, delete; polling of the status | reads, creates, patches, deletes the Agent; deletes the pod (restart) |
| REST API: read-only handlers (`handlers.rs`) | none | list, get, logs, ssh, stats, nodes, health | reads the Agent, the pod's log, the Service, the nodes |
| REST API: authentication and routes (`auth.rs`, `main.rs`) | none | looks for a token, chooses the handler | - |
| Sizing (`handlers.rs` normalize_resource, `resources.rs` parsers) | none | quantity strings to requests and limits | - |
| Command line client (`cli/`) | where the invocation stands | one HTTP request per invocation; decodes and prints the answer | REST API |
| SSH proxy, MinIO, backup policy, Terraform, K3s and Sysbox scripts (`deploy/`, `configs/`, `scripts/`) | configuration | - | - |

Hard behaviours, by component, and what makes the component correct:

* **Operator.** Each of the up to twelve calls of a reconciliation may fail, and the
  world moves between any two: users edit, stop, restart, delete and re-create;
  the kubelet starts, crashes, evicts and removes pods; the garbage collector takes
  what a deleted Agent owned; the process may die and a second one may run beside
  it. Correct means: no agent is ever dropped from the queue; what was read of the
  pod still holds when it is acted on; a healthy pod is not deleted; "Stopped" is
  not said of a running pod; nothing is said of an agent that is not isolated yet; an
  object of the platform with the name of a child is left alone; and, once the users
  stop, objects and status converge.
* **REST API.** Requests race each other and the operator; calls fail or take effect
  and lose their answer; clients disconnect; polling runs into its deadline.
  Correct means: one creator per instance; every request ends and says how; what
  was accepted with 200 takes effect.
* **Command line client.** It waits for the end of whatever it is answered, decodes it
  without looking, and exits: its connection goes with it. Correct means: every invocation ends.
* **Both together.** The API adds no behaviour the operator is not made for.
* **Sizing.** Requests are the promised quarter of the limits, and never exceed them, or the
  pod can never be created.

`PROJECT.json` ("hazards") lists these one by one, at the line where they bite.

## 2. Modules

    Cluster ── Resources ──┬── AtomicOperator
                           └── Operator ──────┬── Platform
    Cluster ── InstanceApi ──┬────────────────┘
    ApiContract ────┘        └── Client
    PodSizing

    OperatorProofs (Operator) ──┬── AtomicProofs ──────────────────┬── PlatformProofs (Platform)
                                └── PlacementProofs ── RestProofs ─┤
    InstanceApiProofs (InstanceApi) ──┬────────────────────────────┘
                                      └── ClientProofs (Client)
    PodSizingProofs (PodSizing)

    MCOperator, MCInstanceApi, MCClient, MCPlatform, MCPodSizing: constants for TLC

**Cluster.** `agent`, `pod` and `child` are the objects behind *one* agent name,
`None` when absent. A name may be used again; each incarnation has a new uid, which
is what owner references point to. `CreateAgent`, `SetState`, `DeleteAgent` and
`RestartPod` are the writes of the API's handlers (or of kubectl), `EditSpec` is
`kubectl edit`. Kubelet, scheduler and garbage collector are not in the repository;
they are modelled from how the operator uses them and marked external: a pod needs
its volume to start; deleting a pod marks it, a running one stays until its
containers are gone (`terminationGracePeriodSeconds: 30`); the Agent has no finalizer
and disappears at once, its dependants later; a volume outlives its deletion while a
pod uses it. `Canon` is the API server's canonical form of quantities: what is read
back of a pod is not the string that was sent.

One name suffices for the operator because every object's name is built from the
agent's and kube-rs runs reconciliations of different objects independently. The one
exception is the Service `agent-api`: it is the API server's (`api-server.yaml`), and the
one an agent called `api` would have. `Taken` is the set of kinds whose name is taken in
this way; such a child is `Foreign` from the start and has no owner. `op_safety` runs with
the Service taken, the other runs without.

**Resources.** What the operator computes without awaiting anything: the view of an Agent,
the pod and the children it builds from it, `pod_needs_update`, `derive_status_from_pod` and
`merge`, the merge patch of a status whose absent fields keep their value.

**AtomicOperator.** The abstract specification of the operator: it takes a job (the agent
as it was at some time), and each of its writes is one step, justified by what is there at
that very step. It has no program counter, cache, timer or draft, and no call of it fails.
`RemovePodFor` needs a stopped agent, a pod that differs or one that is going already;
`AddPod` a running agent and no pod; `AddChild` no child; `Report` says "Stopped" only of a
pod that is gone or going.

**Operator.** One action per awaited call of `reconcile()`, in the code's order; `pc[o]`
is the call to be made next by operator process `o`, `snap[o]` the Agent it works on
(a snapshot from the cache), `draft[o]` the status it is about to patch.

| action | code (`operator/src/controller.rs`) |
|---|---|
| `GetChild("pvc")`, `CreateChild("pvc")` | `reconcile_pvc` |
| `GetPod`, `DeletePod`, `CreatePod` | `reconcile_pod`, `delete_pod_if_exists`; `after_get_pod` holds their branches |
| `GetChild`, `CreateChild` of the other kinds | `reconcile_network_policy`, `reconcile_service` |
| `ReadPod`, `PatchStatus` | `update_status`; `merge` is the merge patch, which leaves absent fields alone |
| `requeue`, `error_policy` | the two ways a reconciliation ends |
| `CallFails`, `Crash` | any `?`, and the end of the process |
| `Watch`, `Wake`, `Start`, `DropStale` | the kube-rs runtime that `main.rs` sets up |

Three things are folded. An answer that is lost after the call took effect is the
call's action followed by `CallFails`. `Watch` jumps to the Agent's current state: a
watch may be late, and skipping versions is what a late watch looks like. The read of
the Service in `update_status` only fills `node_ports` and its error is discarded;
`host_node` is set and cleared together with `pod_ip`; `restart_count` is copied from
the pod. These are left out.

`ActsAtomically` says that Operator implements AtomicOperator: the refinement mapping
takes the snapshot for the job (`INSTANCE AtomicOperator WITH job <- snap`), so that a read
or a failed call is a stutter, `Start` takes up a job and the end of a reconciliation
drops it. It holds of one operator. Two undo each other's work: the second one's delete
may hit the pod the first has just created.

**InstanceApi.** `Submit` is the route table and `Receive` the bearer check: any request may
come with or without a token, and without one all but `/health` is answered 401. One process
per request. `at[r]` is the await its handler stands at
(`check`: the `get_opt`; `read`: the second call of a handler that only reads; `apply`: the write; `poll`: `poll_status_stream`; `final`: the
handler's last event; `await_gone`: the loop of `delete_instance`), `heard[r]` the events
the client got, `late[r]` whether the deadline has passed. `made[r]` is an observer.
`ApiFails` covers calls that fail and calls whose answer is lost. `Disconnect` drops
handler and stream where they stand, as the HTTP server does; a write already sent off
may take effect all the same. A delete answers 200
before it has looked at anything, so its errors are events. Alone, the module has an
arbitrary operator (`Report` sets any phase at any time).

**ApiContract.** The abstract specification of the API's answers. It has no handlers, calls,
streams or deadlines; each request has a fate: "pending", then "done" (carried out by this
very request, once), "void" (nothing was done and nothing will be) or "doubtful". A request is
carried out in one step, and only while it is pending; nobody else creates or deletes the
Agent or changes its spec. `AnswersMean` says that InstanceApi implements it. The mapping,
`meaning`, is what a client may read from what it got: 401, 404 and 409 are "void"; the 200 of
a create, start or stop and the "deleted" of a delete are "done"; 500, an "error" event, a lost
connection and the 200 of a restart (`restart_instance` ignores whether its delete worked,
`handlers.rs:416`) are "doubtful".

**Client.** Some of the requests (`Invocations`) are agent-cli's: `Invoke` sends one, with a
token only if a gateway in front of the API adds it (`Gateway`; agent-cli sends none), and
`exit[r]` is how the process ended. `PrintAnswer` reads an answer to its end, an event stream
too, and decodes it: `provided` and `needed` are the fields on the two sides of the wire.
`PrintDeleted` prints on the status alone and drops the connection; a delete may be cut
by it, as by `Disconnect`. `HandleError` covers every other status and a lost connection.

**Platform.** Operator and InstanceApi on the same objects; the requests take the place
of Cluster's `Users`. `ImplementsOperator` says that this implements Operator's `Spec`:
Operator, with its liberal users, is the abstract specification of the platform.

**PodSizing.** The cpu and memory of a request on their way to the pod's requests and
limits. Numbers are counted in quarters, so that "0.25Gi" and "1.5" exist, and come with every
usual unit, those the parsers do not know included: the API validates nothing. `CpuValue` and
`MemoryValue` are what Kubernetes reads in the same strings (external), and `reads_cpu` and
`reads_memory` tell the sizes that are parsed from those that get a default. Exponents, the rarer
units, the rounding of `parse_cpu_millis` (an f64 cast) and `u64` overflow are not modelled.

## 3. Runs

Bounds: `MaxUid` incarnations of the name, `MaxEdits` user operations other than create
and delete, `MaxFaults` failed calls or crashes of the operators, `MaxApiFaults` of the
API's calls, `PodFaults` what may befall pods. They stop the users and faults, never the
operator: `CHECK_DEADLOCK FALSE`, because when the agent is deleted and the bounds are
used up the system is at rest.

| run | bounds | shows |
|---|---|---|
| `op_safety` | 1 operator, 2 incarnations, 2 images, 1 edit, 1 fault, evictions, the Service's name taken; 580k states | `NeverForgotten`, `ReadsStayTrue`, `ActsAtomically`; `FirstVolumeKept`, `LeavesWhatIsAsked`, `RecreatesOnlyOnChange`, `RestIsKept`, `ForeignKept` |
| `op_live` | 1 operator, 1 incarnation, 2 images, 2 addresses, 2 edits, 1 fault, crashing and evicted pods; 240k states | `Converges`, `StatusSettles`: edits during edits, retries, pods that failed for good; `ReportedInPlace` |
| `op_reuse` | 1 operator, 2 incarnations, 1 fault, crashing containers | `Converges`, `StatusSettles` when the second incarnation finds the first one's children, and the first one's reconciliation reports on the second |
| `op_overlap` | 2 operators, 1 edit | `Converges` although the two collide (409, 404) and undo each other's work |
| `api_requests` | 2 requests of any kind, one of them agent-cli's, 1 fault, from an empty cluster or any existing instance; 200k states | `OneCreatorEach`, `AnswersMean`, `EveryRequestEnds`, `EveryCommandExits` |
| `platform` | 2 requests (create, stop, restart), 1 operator, 1 fault of the operator | `ImplementsOperator`, `StopTakesEffect`, `RestartComesBack` |
| `sizes` | 23 cpu and 62 memory sizes, whole and fractional, of every unit, in both request fields | `BigEnoughIsAdmitted`, `RequestsAreQuarters` |
| `op_fraction`, `op_volume`, `op_evicted`, `api_disconnect`, `pl_ready` | the smallest that show it | violations: section 4 |

`Converges` promises a pod that runs and children of the agent's own. An evicted pod breaks the
first half, since nothing replaces it, so the promise is made on the premise that none is left for
ever: `Converges == EvictedIsReplaced => <>[]Settled`. The premise is a property by itself, which
`op_evicted` refutes; in `op_live` users may stop, restart or edit the agent after an eviction, and it
then converges; in `op_reuse` and `op_overlap` nothing is evicted. A name that is taken breaks
the second half, so the three runs have `Taken = {}`.

Why the bounds are enough. A reconciliation keeps one snapshot, so the deepest
confusion is between the snapshot and the present: two incarnations, two specs and one
change between any two calls produce every such pair. One fault can strike at any call,
and repeating it only restarts a reconciliation from the start, which `requeue` also
does. Two operators suffice for a collision. Two requests suffice for every check-then-act
race of the handlers, which look at one object each.

**Fairness.** Of the operator: `WF` of `Watch` and of `Work`, the next step of the single
async task, which is always enabled until it is done; nothing is assumed about faults,
which are bounded. Of Kubernetes: pods that can start do (`StartPod`), deleted ones go
(`RemovePod`, the grace period is finite), the garbage collector and the PVC protection
controller get round to everything. Users, containers that crash or recover, and
evictions are never forced. Of the API: a handler whose next step is enabled takes it,
and deadlines pass (they are timers). Of agent-cli: it takes its next step once there is an
answer or the connection is lost; whether anybody ever invokes it is left open. No strong
fairness is used.

## 4. Where the code differs from what the repository says

Each has a run that violates the quoted claim.

* `op_fraction`: `pod_needs_update` compares the Agent's strings with what Kubernetes
  stored. "0.5" is stored as "500m" and "1024Mi" as "1Gi", so such an agent's pod is
  deleted by every reconciliation. A comment of the tests (`controller.rs:485`) names this
  very failure. (`RecreatesOnlyOnChange` holds in `op_safety`, and is proved, for sizes that
  are stored as they are; here the cpu is 0.5.)
* `op_volume`: `reconcile_pvc` accepts any PVC of the right name. An agent created under
  the name of one just deleted mounts the old volume, which the collector then marks; it
  disappears with the next restart of the pod. README.md:130 promises storage that
  survives restarts. (Of the first agent of a name this is true: `FirstVolumeKept`.)
* `api_disconnect`: `delete_instance` works inside its stream, so a client that leaves right
  after the 200 cancels the delete. ARCHITECTURE.md:243 says it does not.
* `op_evicted`: an evicted pod stays behind in phase Failed. It is there and has the right image
  and limits, so every reconciliation finds it up to date (`controller.rs:98`), and the agent never
  runs again unless somebody restarts it. ARCHITECTURE.md:358 says the operator detects evicted pods
  and restores them.
* `pl_ready`: a restart waits 3 s and polls for Running, still the status of the old pod
  (grace period 30 s): "ready" is sent while that pod terminates.

Seen while modelling, and not given a run, because they can be read off a line or two of
the code:

* No lease is taken, although `operator.yaml:114` speaks of leader election.
* Edits of fields other than image, cpu and memory never reach the pod (`controller.rs:116`).
* A stopped agent keeps the address of its last pod, because the `None` that `update_status` sets
  is not serialised and a merge patch keeps what is absent (`controller.rs:222`, against
  `agent-crd.yaml:80`).
* The Service of an agent called `api` has the name of the API server's own (`resources.rs:393`); it
  is found in place and none is created, against README.md:18. (The platform's Service survives
  the agent: `ForeignKept`.)
* The loser of two concurrent creates is refused by Kubernetes, and `?` makes a 500 of the 409
  (`handlers.rs:263`, `error.rs:30`, against ARCHITECTURE.md:247).
* After an error event (deadline, or a polling call that failed) the stream goes on to say "ready"
  or "stopped" (`handlers.rs:281`, `sse.rs:59`, against ARCHITECTURE.md:244). "stopped" is sent as soon
  as the spec says so (`sse.rs:32`).
* A memory that is not a whole number, such as 0.25Gi, is taken for 2 GiB or 512 MiB
  (`resources.rs:33`): its request of 512Mi exceeds the limit of 256Mi and Kubernetes refuses the pod.
  (From 250m and 512Mi on no size has this effect: `BigEnoughIsAdmitted`.) A size in G in the field
  `memory` is taken for Gi, so that its request is 27% of the limit (`resources.rs:36`).
* agent-cli sends no `Authorization` header (`cli/src/main.rs:227`), and the API answers 401 to
  everything but `/health` without one (`auth.rs:21`); README.md:155 shows the commands against that
  API. What it decodes (`cpu`, `memory`, `disk`, `state`; `lines` of a log; an `error` with a
  `message`) is not what the API answers (`status`, `created_at`; `logs`; an `error` that is a string;
  an event stream for create, start, stop and restart), and an `unwrap()` fails. It prints "Deleted
  instance" on the status of the answer, before anything was deleted (`cli/src/main.rs:332`), and
  exits with 0 whatever happened.
* An Agent written by hand with an empty list of ports has a Service that Kubernetes refuses, so
  its reconciliation fails before the status for ever (`resources.rs:402`).
* `deploy.sh` applies `agent-crd.yaml`, whose schema lacks fields of the spec, and each operator then
  applies its own by force (`operator/src/main.rs:88`): what the API writes in between loses those
  fields.

## 5. Proofs

All theorems hold for every value of the constants that satisfies the modules' assumptions
(templates are well-formed, `Canon` is idempotent, `None` is no object, bounds are naturals and
there is at least one incarnation). Two hypotheses are stated where they are needed: `Alone` (one
operator at most; `operator.yaml` runs one replica) and `Canonical` (every quantity users write is
stored as it is, as "1" and "4Gi" are).

* **`TypeCorrect`**: `Spec => []TypeOK`. TypeOK also says that a reconciliation under
  way has a snapshot, and a draft before it patches one; this is what makes it inductive.
* **`Remembers`**: `Spec => []NeverForgotten`, for any number of operators. Inductive given
  TypeOK: the only step that takes an object off the queue without starting on it is
  `DropStale`, when it has left the cache; the only steps that end a reconciliation queue
  it again.
* **`ReadsHold`** assumes `Alone` (one operator at most). The invariant `AloneInv` is TypeOK, ReadsStayTrue and two facts it needs:
  `BranchTaken` (the place reached in the code tells the state that was asked for) and
  `ExitedIsDeleting` (a pod whose containers have all exited with success is being
  deleted; otherwise "Stopped", derived from phase Succeeded, could be said of a live
  pod). The argument: with one operator nobody else creates pods, and everything else
  that happens to a pod is `PodOnlyLeaves`: it keeps its spec, is marked, or goes. So what
  a reconciliation learnt can only become vacuous, not false. With two operators the
  invariant is false, which is why the hypothesis is there.
* **`SplitIsAtomic`**: `Spec => ActsAtomically`, given `Alone`. The refinement: initial states
  are initial states, a read, a failed call or a move of the runtime is a stutter or the
  end of a job, and each write is the abstract write because `AloneInv` says that what
  justified it when it was read still holds. `IdleHasNoJob` (an operator that is not
  reconciling has no snapshot) makes the mapping work.
* **`InPlaceWhenReported`**: `Spec => []ReportedInPlace`, for any number of operators, and
  **`ForeignUntouched`**: `Spec => []ForeignKept`. The first is inductive together with
  `KnownIncarnations` (no object and no operator knows of a uid yet to come),
  `CollectedHasOwner` and `InPlace` (while the first incarnation lives, a reconciliation
  past a child has left it there, and no child is being collected). Of a second incarnation
  it is false: a late reconciliation of the first may report on it.
* **`FirstVolumeStays`**: `Spec => []FirstVolumeKept`, for any number of operators: while the first
  agent of a name lives, its pod has its volume and the volume is not going. `VolumeInv` adds
  to the invariant above `KnownPods` (a pod belongs to an incarnation that has been). A pod appears
  only in `CreatePod`, which `InPlace` puts behind the volume's creation (`NoNewPod`,
  `OperatorVolume`), and a volume goes only by the collector, for which the Agent must have gone
  (`EnvironmentVolume`). `op_volume` shows that a second incarnation has no such promise.
* **`AskedIsLeft`** and **`RecreatedForAReason`** assume `Alone` and `Canonical`. The first: from the
  time `reconcile_pod` is done until the status is written, a live pod has the image and limits of
  the snapshot. `AskedInv` is AloneInv, `KnownSpecs` (whatever is worked on was submitted by a
  user) and the property; `BuiltAsAsked` is where `Canonical` enters, since what `CreatePod`
  leaves is compared with the strings it was built from. The second, an action property,
  follows from AskedInv. Neither hypothesis can go: `op_fraction` refutes the second for a cpu of
  0.5, and a second operator may put a pod of another spec there.
* **`RestStays`**: `Spec => RestIsKept`, for any number of operators: the safety half of
  convergence. In a cluster at rest every reconciliation, failed call, crash, move of the
  kubelet or the collector leaves Agent's spec, pod and children as they are (`ReconcileRests`,
  `EnvironmentRests`), and the status of an agent reported as Stopped too; only users end
  the rest. It needs `Branches` (the place reached in the code tells what the snapshot
  asked for) of all operators; no `Alone`, because operators that all see the present do not
  collide. The other half, that rest is reached, is `Converges`, checked by TLC.
* **`ApiTypeCorrect`, `OneCreator`**: OneCreatorEach is inductive once no
  credited uid exceeds `lastUid` (`CreditedBefore`). For the types `RequestInv` says, for each
  place a handler may stand at, what has been answered and how many events were sent
  (`Fine`); a step moves one request, and `OneMoves` reduces it to what that request is
  where it arrives.
* **`AnswersTrue`**: `ApiSpec => AnswersMean`, the refinement of ApiContract, for any number of
  requests, whatever fails. `ContractInv` is RequestInv, `AskedOps` (a request that is under way
  has asked for something) and `AgentFits` (the Agent's type). A step changes the fate of one
  request only (`OneFate`), so the proof is one lemma per way in which a handler moves on:
  `EffectCarriesOut` (the write is what the contract calls carrying out), `SucceedMeans`,
  `FailMeans`, `ErrorDoubtful` and `StreamGoesOn` (the answer that goes with it maps to the fate).
  For a delete, whose 200 comes before the look, RequestInv's `Fine` tells a "deleted" after
  the write from the events of a failure.
* **`ClientTypeCorrect`, `ClientOneCreator`, `ClientAnswersTrue`**: the same with agent-cli.
  Every step of Client is a step of InstanceApi or a stutter (`ClientStepIsApis`): an
  invocation that ends is at most a disconnection.
* **`Implements`**: every step of the platform is a step of Operator or a stutter: a write
  of a handler is a step of `Users`, everything else leaves the cluster alone.
  `PlatformRemembers`, `PlatformReadsHold`, `PlatformInPlace`, `PlatformActsAtomically`,
  `PlatformRestStays`, `PlatformFirstVolume` and `PlatformAskedIsLeft` carry the operator's theorems
  over.
* **`PlatformOneCreator`, `PlatformAnswersTrue`**: the API's theorems with the real
  operator, kubelet and collector in the place of `Report`. These do more than `Report` does, so
  the theorems are not inherited: `OthersLeaveUids` and `OthersAreOthers` say what is needed of
  them, that they neither bring nor remove an Agent and change only its status.
* **`Admitted`**: `Spec => []BigEnoughIsAdmitted`, for all sizes of all units, whole or not, with no
  assumption on what clients send. By cases: a number that is read is a quarter of the limit or,
  for G and M, which are taken for the larger Gi and Mi, a little more (`CpuExact`, `MemoryExact`,
  `DecimalMemory`); a default is a fixed number (`CpuDefault`, `MemoryDefault`) that 250m and 512Mi
  cover. The bounds are needed: 0.25Gi requests 512Mi. **`Quarters`**: of every number the
  parsers read, in cores, millicores, GiB or MiB, the request is a quarter, rounded down.

Model-checked only: all liveness (`Converges`, `StatusSettles`, `EveryRequestEnds`,
`EveryCommandExits`, `StopTakesEffect`, `RestartComesBack`), which needs fairness and ENABLED
and is out of the prover's reach.

## 6. Not modelled

The SSH proxy (no state of its own); Terraform, K3s, Sysbox and deployment scripts (run by
hand, in sequence); backups (the repository has a policy but nothing that executes it);
`register_crd` (one server-side apply before anything else: what it changes is which fields
the API server keeps, and the fields are one value here); the 400 of a create without name
and the 404 of an unknown path; agent-cli's parsing of arguments and the layout of its
output. Labels, probes, security contexts, network rules, disk size and environment are
data no property tells apart and are the field `rest` of a spec.

## 7. Plan

Done: Cluster, Resources, Operator, AtomicOperator, ApiContract, InstanceApi, Client, Platform,
PodSizing,
with the proofs above.

What could follow, in this order:

1. *Platform with three requests* and lost answers: create, stop, start; a retry of a
   create whose answer was lost. It needs a coarser environment to stay within TLC's reach.
2. *Sizes in the cluster*: Cluster's `Canon` tied to PodSizing's quantities, to state for
   which sizes pods are left alone: this would replace the hypothesis `Canonical`.
3. *The CRD*: two definitions of the Agent resource applied in turn, and which fields of a
   spec survive.
4. *Proofs*: what holds of a second incarnation once the first one's reconciliation has ended
   (`ReportedInPlace` is about the first alone), and agent-cli in front of the platform.
