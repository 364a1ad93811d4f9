------------------------------ MODULE PodSizing ------------------------------
(***************************************************************************)
(* How the cpu and memory a client asks for become the requests and limits *)
(* of a pod: create_instance (api/src) puts them in the Agent, build_pod   *)
(* (operator/src) parses them there.                                       *)
(*                                                                         *)
(* A quantity string is a number of quarters and a suffix: "1.5Gi" is      *)
(* [quarters |-> 6, suffix |-> "Gi"], and "2" has the suffix "none".       *)
(* Nothing on the way validates it: a client may send any of these.        *)
(***************************************************************************)
EXTENDS Integers

CONSTANTS CpuQuantities, MemoryQuantities   \* what clients send

Cpus     == [quarters : Nat \ {0}, suffix : {"none", "m", "k"}]
Memories == [quarters : Nat \ {0}, suffix : {"none", "k", "Ki", "M", "Mi", "G", "Gi", "Ti"}]

ASSUME QuantitiesAssumption == CpuQuantities \subseteq Cpus /\ MemoryQuantities \subseteq Memories

VARIABLES
    stage,     \* "asked", "agent" (it is in the Agent) or "pod" (a pod was built)
    cpu,       \* as asked, then as in the Agent, where it is also the pod's limit
    memory,
    requests   \* the pod's requests: millicores and MiB

vars == <<stage, cpu, memory, requests>>

-----------------------------------------------------------------------------
whole(q) == q.quarters % 4 = 0
int(q)   == q.quarters \div 4

\* create_instance, for mem_limit (the older field memory is taken as it is).
normalize_resource(q) ==
    IF q.suffix = "G" THEN [q EXCEPT !.suffix = "Gi"]
    ELSE IF q.suffix = "M" THEN [q EXCEPT !.suffix = "Mi"]
    ELSE q

\* Millicores; what does not parse counts as one core.
parse_cpu_millis(q) ==
    IF q.suffix = "none" THEN q.quarters * 250
    ELSE IF q.suffix = "m" /\ whole(q) THEN int(q)
    ELSE 1000

\* Mutant: the default of a fraction of a GiB is scaled twice.
parse_memory_mi_rescaled(q) ==
    IF q.suffix \in {"Gi", "G"} THEN (IF whole(q) THEN int(q) ELSE 2048) * 1024
    ELSE IF q.suffix \in {"Mi", "M"} /\ whole(q) THEN int(q)
    ELSE 512

\* MiB; what does not parse counts as 2 GiB or 512 MiB.
parse_memory_mi(q) ==
    IF q.suffix \in {"Gi", "G"} THEN (IF whole(q) THEN int(q) ELSE 2) * 1024
    ELSE IF q.suffix \in {"Mi", "M"} /\ whole(q) THEN int(q)
    ELSE 512

\* Mutant: the limits are taken for the requests, in cpu as in memory.
build_requests_whole(c, m) == [cpu |-> parse_cpu_millis(c), memory |-> parse_memory_mi(m)]

\* The requests are a quarter of what was parsed; the limits are the strings.
build_requests(c, m) == [cpu |-> parse_cpu_millis(c) \div 4, memory |-> parse_memory_mi(m) \div 4]

-----------------------------------------------------------------------------
Init ==
    /\ stage = "asked"
    /\ cpu \in CpuQuantities
    /\ memory \in MemoryQuantities
    /\ requests = [cpu |-> 0, memory |-> 0]

\* The memory comes in mem_limit or in memory.
create_instance ==
    /\ stage = "asked"
    /\ stage' = "agent"
    /\ memory' \in {memory, normalize_resource(memory)}
    /\ UNCHANGED <<cpu, requests>>

build_pod ==
    /\ stage = "agent"
    /\ stage' = "pod"
    /\ requests' = build_requests(cpu, memory)
    /\ UNCHANGED <<cpu, memory>>

Next == create_instance \/ build_pod

Spec == Init /\ [][Next]_vars

-----------------------------------------------------------------------------
(***************************************************************************)
(* What Kubernetes reads in the same strings, rounded down: cpu in         *)
(* quarters of a millicore, memory in sixteenths of a MiB.                 *)
(***************************************************************************)
CpuValue(q) == q.quarters * (IF q.suffix = "m" THEN 1
                             ELSE IF q.suffix = "none" THEN 1000
                             ELSE 1000000)

MemoryValue(q) ==
    LET n == q.quarters
    IN  IF q.suffix = "Ti" THEN n * 4194304
        ELSE IF q.suffix = "Gi" THEN n * 4096
        ELSE IF q.suffix = "G" THEN (n * 1953125) \div 512
        ELSE IF q.suffix = "Mi" THEN n * 4
        ELSE IF q.suffix = "M" THEN (n * 15625) \div 4096
        ELSE IF q.suffix = "Ki" THEN n \div 256
        ELSE IF q.suffix = "k" THEN (n * 125) \div 32768
        ELSE n \div 262144

\* The parsers read the number itself, and do not put a default in its place.
reads_cpu(q)    == q.suffix = "none" \/ (q.suffix = "m" /\ whole(q))
reads_memory(q) == q.suffix \in {"Gi", "G", "Mi", "M"} /\ whole(q)

\* "Limits enforce the hard cap; requests affect scheduling only"
\* (resources.rs:138): but if a request exceeds its limit Kubernetes refuses the
\* pod, and every reconciliation fails at the same create.  The parsers' defaults
\* lead to requests of 250m, and of 128Mi or 512Mi (resources.rs:20-43): with 250m
\* and 512Mi or more, in any of the units and with or without a fraction, no size
\* keeps the pod from being created.  (Below that some do: 0.25Gi requests 512Mi.)
BigEnoughIsAdmitted ==
    stage = "pod" /\ CpuValue(cpu) >= 1000 /\ MemoryValue(memory) >= 8192
        => /\ requests.cpu * 4 <= CpuValue(cpu)
           /\ requests.memory * 16 <= MemoryValue(memory)

\* "Requests = 25% of limits" (resources.rs:137), to the unit below, for the
\* numbers the parsers read (a G or an M they take for a Gi or a Mi): what the
\* scheduler sets aside.
RequestsAreQuarters ==
    stage = "pod" =>
       /\ reads_cpu(cpu)
            => /\ 16 * requests.cpu <= CpuValue(cpu)
               /\ CpuValue(cpu) < 16 * (requests.cpu + 1)
       /\ reads_memory(memory) /\ memory.suffix \in {"Gi", "Mi"}
            => /\ 64 * requests.memory <= MemoryValue(memory)
               /\ MemoryValue(memory) < 64 * (requests.memory + 1)
=============================================================================
