-------------------------- MODULE PodSizingProofs ---------------------------
(***************************************************************************)
(* From 250m and 512Mi on pods are admissible whatever size is asked for;  *)
(* and a number the parsers read is the number Kubernetes reads.           *)
(***************************************************************************)
EXTENDS PodSizing, TLAPS

LEMMA WholeIsFourfold ==
    ASSUME NEW n \in Nat, n % 4 = 0
    PROVE  n \div 4 \in Nat /\ n = 4 * (n \div 4)
  OBVIOUS

LEMMA Quarter ==
    ASSUME NEW n \in Nat
    PROVE  /\ n \div 4 \in Nat
           /\ 4 * (n \div 4) <= n
           /\ n < 4 * (n \div 4 + 1)
  OBVIOUS

\* What normalize_resource makes of a memory size is one.
LEMMA NormalizedMemory ==
    ASSUME NEW q \in Memories
    PROVE  normalize_resource(q) \in Memories
  BY DEF normalize_resource, Memories

SizingInv ==
    /\ cpu \in Cpus
    /\ memory \in Memories
    /\ stage = "pod" => requests = build_requests(cpu, memory)

LEMMA SizingHolds == Spec => []SizingInv
  <1>1. Init => SizingInv
    BY QuantitiesAssumption DEF Init, SizingInv
  <1>2. SizingInv /\ [Next]_vars => SizingInv'
    BY NormalizedMemory DEF SizingInv, Next, create_instance, build_pod, vars
  <1> QED BY <1>1, <1>2, PTL DEF Spec

-----------------------------------------------------------------------------
(***************************************************************************)
(* What is parsed is what Kubernetes reads, in the units of the requests,  *)
(* or the default, a fixed number of them.                                 *)
(***************************************************************************)
LEMMA CpuExact ==
    ASSUME NEW q \in Cpus, reads_cpu(q)
    PROVE  parse_cpu_millis(q) \in Nat /\ CpuValue(q) = 4 * parse_cpu_millis(q)
  <1>1. q.quarters \in Nat
    BY DEF Cpus
  <1>2. CASE q.suffix = "none"
    <2>1. parse_cpu_millis(q) = q.quarters * 250 /\ CpuValue(q) = q.quarters * 1000
      BY <1>2 DEF parse_cpu_millis, CpuValue
    <2> QED BY <1>1, <2>1
  <1>3. CASE q.suffix = "m" /\ whole(q)
    <2>1. q.quarters \div 4 \in Nat /\ q.quarters = 4 * (q.quarters \div 4)
      BY <1>1, <1>3, WholeIsFourfold DEF whole
    <2>2. parse_cpu_millis(q) = q.quarters \div 4 /\ CpuValue(q) = q.quarters
      BY <1>1, <1>3 DEF parse_cpu_millis, CpuValue, int
    <2> QED BY <2>1, <2>2
  <1> QED BY <1>2, <1>3 DEF reads_cpu

LEMMA CpuDefault ==
    ASSUME NEW q \in Cpus, ~reads_cpu(q)
    PROVE  parse_cpu_millis(q) = 1000
  BY DEF Cpus, reads_cpu, parse_cpu_millis

LEMMA MemoryExact ==
    ASSUME NEW q \in Memories, reads_memory(q), q.suffix \in {"Gi", "Mi"}
    PROVE  parse_memory_mi(q) \in Nat /\ MemoryValue(q) = 16 * parse_memory_mi(q)
  <1>1. /\ q.quarters \in Nat
        /\ q.quarters \div 4 \in Nat
        /\ q.quarters = 4 * (q.quarters \div 4)
    BY WholeIsFourfold DEF Memories, reads_memory, whole
  <1>2. CASE q.suffix = "Gi"
    <2>1. /\ parse_memory_mi(q) = (q.quarters \div 4) * 1024
          /\ MemoryValue(q) = q.quarters * 4096
      BY <1>2 DEF parse_memory_mi, MemoryValue, reads_memory, int
    <2> QED BY <1>1, <2>1
  <1>3. CASE q.suffix = "Mi"
    <2>1. /\ parse_memory_mi(q) = q.quarters \div 4
          /\ MemoryValue(q) = q.quarters * 4
      BY <1>3 DEF parse_memory_mi, MemoryValue, reads_memory, int
    <2> QED BY <1>1, <2>1
  <1> QED BY <1>2, <1>3

\* A G or an M is taken for the larger Gi or Mi: a quarter of that is still less
\* than what Kubernetes reads.
LEMMA DecimalMemory ==
    ASSUME NEW q \in Memories, reads_memory(q), q.suffix \in {"G", "M"}
    PROVE  (parse_memory_mi(q) \div 4) * 16 <= MemoryValue(q)
  <1> DEFINE k == q.quarters \div 4
  <1>1. q.quarters \in Nat /\ k \in Nat /\ q.quarters = 4 * k
    BY WholeIsFourfold DEF Memories, reads_memory, whole
  <1>2. CASE q.suffix = "G"
    <2>1. parse_memory_mi(q) = k * 1024 /\ MemoryValue(q) = (q.quarters * 1953125) \div 512
      BY <1>2 DEF parse_memory_mi, MemoryValue, reads_memory, int
    <2> HIDE DEF k
    <2>2. (k * 1024) \div 4 = k * 256
      BY <1>1
    <2>3. (q.quarters * 1953125) \div 512 >= k * 4096
      BY <1>1
    <2> QED BY <1>1, <2>1, <2>2, <2>3
  <1>3. CASE q.suffix = "M"
    <2>1. parse_memory_mi(q) = k /\ MemoryValue(q) = (q.quarters * 15625) \div 4096
      BY <1>3 DEF parse_memory_mi, MemoryValue, reads_memory, int
    <2> HIDE DEF k
    <2>2. (k \div 4) * 16 <= 4 * k
      BY <1>1, Quarter
    <2>3. (q.quarters * 15625) \div 4096 >= 4 * k
      BY <1>1
    <2> QED BY <1>1, <2>1, <2>2, <2>3
  <1> QED BY <1>2, <1>3

LEMMA MemoryDefault ==
    ASSUME NEW q \in Memories, ~reads_memory(q)
    PROVE  parse_memory_mi(q) \in {512, 2048}
  BY DEF Memories, reads_memory, parse_memory_mi

LEMMA ValueTypes ==
    ASSUME NEW c \in Cpus, NEW m \in Memories
    PROVE  CpuValue(c) \in Nat /\ MemoryValue(m) \in Nat
  BY DEF Cpus, Memories, CpuValue, MemoryValue

-----------------------------------------------------------------------------
LEMMA CpuFits ==
    ASSUME NEW q \in Cpus, CpuValue(q) >= 1000
    PROVE  (parse_cpu_millis(q) \div 4) * 4 <= CpuValue(q)
  <1> DEFINE n == parse_cpu_millis(q)
  <1>1. CASE reads_cpu(q)
    <2>1. n \in Nat /\ CpuValue(q) = 4 * n
      BY <1>1, CpuExact
    <2> HIDE DEF n
    <2>2. (n \div 4) * 4 <= 4 * n
      BY <2>1, Quarter
    <2> QED BY <2>1, <2>2 DEF n
  <1>2. CASE ~reads_cpu(q)
    BY <1>2, CpuDefault, ValueTypes
  <1> QED BY <1>1, <1>2

LEMMA MemoryFits ==
    ASSUME NEW q \in Memories, MemoryValue(q) >= 8192
    PROVE  (parse_memory_mi(q) \div 4) * 16 <= MemoryValue(q)
  <1> DEFINE n == parse_memory_mi(q)
  <1>1. CASE reads_memory(q) /\ q.suffix \in {"Gi", "Mi"}
    <2>1. n \in Nat /\ MemoryValue(q) = 16 * n
      BY <1>1, MemoryExact
    <2> HIDE DEF n
    <2>2. (n \div 4) * 16 <= 16 * n
      BY <2>1, Quarter
    <2> QED BY <2>1, <2>2 DEF n
  <1>2. CASE reads_memory(q) /\ q.suffix \in {"G", "M"}
    BY <1>2, DecimalMemory
  <1>3. CASE ~reads_memory(q)
    <2>1. n \in {512, 2048} /\ MemoryValue(q) \in Nat
      BY <1>3, MemoryDefault DEF Memories, MemoryValue
    <2> HIDE DEF n
    <2>2. (n \div 4) * 16 \in {2048, 8192}
      BY <2>1
    <2> QED BY <2>1, <2>2 DEF n
  <1> QED BY <1>1, <1>2, <1>3 DEF reads_memory

\* Whatever is asked for, read by the parsers or not: with limits of at least 250m
\* and 512Mi the pod's requests stay within them, and it is not refused for its size.
THEOREM Admitted == Spec => []BigEnoughIsAdmitted
  <1>1. SizingInv => BigEnoughIsAdmitted
    <2> SUFFICES ASSUME SizingInv, CpuValue(cpu) >= 1000, MemoryValue(memory) >= 8192, stage = "pod"
                 PROVE  requests.cpu * 4 <= CpuValue(cpu) /\ requests.memory * 16 <= MemoryValue(memory)
      BY DEF BigEnoughIsAdmitted
    <2>1. /\ requests.cpu = parse_cpu_millis(cpu) \div 4
          /\ requests.memory = parse_memory_mi(memory) \div 4
      BY DEF SizingInv, build_requests
    <2>2. (parse_cpu_millis(cpu) \div 4) * 4 <= CpuValue(cpu)
      BY CpuFits DEF SizingInv
    <2>3. (parse_memory_mi(memory) \div 4) * 16 <= MemoryValue(memory)
      BY MemoryFits DEF SizingInv
    <2> QED BY <2>1, <2>2, <2>3
  <1> QED BY <1>1, SizingHolds, PTL

\* Of a number the parsers read, in cores, millicores, GiB or MiB, the request is a
\* quarter, rounded down.
THEOREM Quarters == Spec => []RequestsAreQuarters
  <1>1. SizingInv => RequestsAreQuarters
    <2> SUFFICES ASSUME SizingInv, stage = "pod"
                 PROVE  RequestsAreQuarters
      BY DEF RequestsAreQuarters
    <2>1. /\ requests.cpu = parse_cpu_millis(cpu) \div 4
          /\ requests.memory = parse_memory_mi(memory) \div 4
      BY DEF SizingInv, build_requests
    <2>2. ASSUME reads_cpu(cpu)
          PROVE  16 * requests.cpu <= CpuValue(cpu) /\ CpuValue(cpu) < 16 * (requests.cpu + 1)
      <3> DEFINE n == parse_cpu_millis(cpu)
      <3>1. n \in Nat /\ CpuValue(cpu) = 4 * n
        BY <2>2, CpuExact DEF SizingInv
      <3>2. n \div 4 \in Nat /\ 4 * (n \div 4) <= n /\ n < 4 * (n \div 4 + 1)
        BY <3>1, Quarter
      <3> HIDE DEF n
      <3> QED BY <2>1, <3>1, <3>2 DEF n
    <2>3. ASSUME reads_memory(memory), memory.suffix \in {"Gi", "Mi"}
          PROVE  /\ 64 * requests.memory <= MemoryValue(memory)
                 /\ MemoryValue(memory) < 64 * (requests.memory + 1)
      <3> DEFINE n == parse_memory_mi(memory)
      <3>1. n \in Nat /\ MemoryValue(memory) = 16 * n
        BY <2>3, MemoryExact DEF SizingInv
      <3>2. n \div 4 \in Nat /\ 4 * (n \div 4) <= n /\ n < 4 * (n \div 4 + 1)
        BY <3>1, Quarter
      <3> HIDE DEF n
      <3> QED BY <2>1, <3>1, <3>2 DEF n
    <2> QED BY <2>2, <2>3 DEF RequestsAreQuarters
  <1> QED BY <1>1, SizingHolds, PTL
=============================================================================
