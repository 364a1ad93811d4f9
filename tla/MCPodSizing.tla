---------------------------- MODULE MCPodSizing -----------------------------
(***************************************************************************)
(* Values for the constants of PodSizing.                                  *)
(***************************************************************************)
EXTENDS PodSizing

quantity(n, suffix) == [quarters |-> n, suffix |-> suffix]

\* Cores in quarters; millicores, whole and fractional, on both sides of the 250m
\* the default comes to; kilocores.
MCCpus == {quantity(n, "none") : n \in 1 .. 8}
          \cup {quantity(4 * n, "m") : n \in {1, 3, 4, 5, 100, 249, 250, 1500}}
          \cup {quantity(n, "m") : n \in {2, 402, 999, 1001, 6002}}
          \cup {quantity(n, "k") : n \in {1, 4}}

\* Every unit, whole and fractional, on both sides of the 512Mi the default comes to.
MCMemories == {quantity(n, u) : n \in 1 .. 9 \cup {16, 31, 32}, u \in {"Gi", "G"}}
              \cup {quantity(n, u) : n \in {1, 4, 13, 20, 510, 2047, 2048, 2049, 2147, 2148, 2150, 4096},
                                     u \in {"Mi", "M"}}
              \cup {quantity(n, "Ti") : n \in {1, 2, 4}}
              \cup {quantity(4 * n, "Ki") : n \in {1, 131072, 524287, 524288}}
              \cup {quantity(4 * n, "k") : n \in {1, 134217, 536870, 536871}}
              \cup {quantity(4 * n, "none") : n \in {1, 134217728, 536870911}}
=============================================================================
