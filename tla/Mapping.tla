------------------------------ MODULE Mapping ------------------------------
(***************************************************************************)
(* What ToqmMapper::run promises, without saying how: for a circuit it     *)
(* finds a correct schedule with swaps, sooner or later. A mapper that     *)
(* inserts no swaps may give up, but only on a circuit that needs some.    *)
(***************************************************************************)
EXTENDS Result

VARIABLES circuit,              \* the dependence graph and numLogical
          swapsAllowed,         \* may the mapper insert swaps?
          outcome               \* of run

mappingVars == <<circuit, swapsAllowed, outcome>>

(* Every two-qubit gate of the circuit is on a coupling in layout f.       *)
NeedsNoSwaps(c, f) ==
    \A g \in DOMAIN c.gates :
        LET v == c.gates[g]
        IN  IsTwoQubit(v) => Coupled(f[v.control], f[v.target])

Placements(numLogical) ==
    {f \in [0..numLogical-1 -> Physical] : \A q, r \in 0..numLogical-1 : f[q] = f[r] => q = r}

NeedsSwaps(c) == \A f \in Placements(c.numLogical) : ~NeedsNoSwaps(c, f)

Init == outcome = Searching

Succeed ==
    /\ outcome = Searching
    /\ outcome'.kind = "success"
    /\ IsCorrect(circuit.gates, outcome'.result)
    /\ ~swapsAllowed => NumSwaps(outcome'.result) = 0
    /\ UNCHANGED <<circuit, swapsAllowed>>

Fail ==
    /\ outcome = Searching
    /\ ~swapsAllowed
    /\ NeedsSwaps(circuit)
    /\ outcome' = Failure
    /\ UNCHANGED <<circuit, swapsAllowed>>

Next == Succeed \/ Fail

Spec == Init /\ [][Next]_mappingVars /\ <>(outcome # Searching)

=============================================================================
