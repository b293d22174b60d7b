---------------------------- MODULE CouplingMap ----------------------------
(***************************************************************************)
(* The distances between the physical qubits of a coupling map, as a       *)
(* definition: what calcDistances is meant to compute, and what expanders  *)
(* and cost functions read from Environment::couplingDistances.            *)
(***************************************************************************)
EXTENDS Integers

(* The ordered pairs of different qubits, of n.                            *)
PairsOf(n) == {p \in (0..n-1) \X (0..n-1) : p[1] # p[2]}

(* The edges of a CouplingMap join different qubits of the device.         *)
IsCouplingMap(m) ==
    /\ m.numPhysicalQubits \in Nat \ {0}
    /\ m.edges \subseteq PairsOf(m.numPhysicalQubits)

(* Couplings count in both directions.                                     *)
Adjacent(couplings, x, y) == <<x, y>> \in couplings \/ <<y, x>> \in couplings

(* The least number of couplings between two different qubits, and n - 1   *)
(* between qubits that nothing joins: within[k] are the pairs that at most *)
(* k couplings join.                                                       *)
HopDistances(couplings, n) ==
    LET within[k \in 0..n-1] ==
            IF k = 0 THEN {}
            ELSE {p \in PairsOf(n) :
                    \/ Adjacent(couplings, p[1], p[2])
                    \/ \E y \in 0..n-1 : <<p[1], y>> \in within[k-1]
                                         /\ Adjacent(couplings, y, p[2])}
    IN  [p \in PairsOf(n) |->
            IF p \notin within[n-1] THEN n - 1
            ELSE CHOOSE k \in 1..n-1 : p \in within[k] \ within[k-1]]

=============================================================================
