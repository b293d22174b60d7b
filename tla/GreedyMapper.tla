---------------------------- MODULE GreedyMapper ----------------------------
(***************************************************************************)
(* class GreedyMapper: a node modifier that runs before the cost of a node *)
(* is computed, and places the qubits of ready two-qubit gates that have   *)
(* no place yet as close to each other as possible.                        *)
(***************************************************************************)
EXTENDS CXCost

(* Of the pairs of free places, or of places where a qubit is already, the *)
(* first one of those that are closest. Between two free places the        *)
(* control gets the greater one.                                           *)
FaultyCandidates(n, v) ==               \* places that are taken, too
    {p \in PairsOf(NumPhysical) :
        /\ n.laq[v.target] \in {Unmapped, p[1]}
        /\ n.laq[v.control] \in {Unmapped, p[2]}
        /\ n.laq[v.target] = Unmapped /\ n.laq[v.control] = Unmapped => p[1] < p[2]}

Candidates(n, v) ==
    LET Fits(q, x) == IF n.laq[q] = Unmapped THEN n.qal[x] = Unmapped ELSE x = n.laq[q]
    IN  {p \in PairsOf(NumPhysical) :
            /\ Fits(v.target, p[1]) /\ Fits(v.control, p[2])
            /\ n.laq[v.target] = Unmapped /\ n.laq[v.control] = Unmapped => p[1] < p[2]}

Closest(pairs) ==
    CHOOSE p \in pairs : \A o \in pairs :
        \/ CouplingDistances[p] < CouplingDistances[o]
        \/ /\ CouplingDistances[p] = CouplingDistances[o]
           /\ p[1] < o[1] \/ (p[1] = o[1] /\ p[2] <= o[2])

PlaceOnPair(n, v, p) == PlaceOn(n, v.target, v.control, p[1], p[2])

PlaceGate(n, v) ==
    IF \A q \in QubitsOf(v) : n.laq[q] # Unmapped THEN n
    ELSE PlaceOnPair(n, v, Closest(Candidates(n, v)))

(* mod: the root starts without a layout; nothing happens once all logical *)
(* qubits have places.                                                     *)
MapGreedily(n, gates, numLogical) ==
    LET start == IF n.root /\ n.cycle < 0 THEN Cleared(n) ELSE n
        twoQubit == InOrder({g \in n.readyGates : IsTwoQubit(gates[g])})
        placed[i \in 0..Len(twoQubit)] ==
            IF i = 0 THEN start ELSE PlaceGate(placed[i-1], gates[twoQubit[i]])
    IN  IF \A q \in 0..numLogical-1 : start.laq[q] # Unmapped THEN start
        ELSE placed[Len(twoQubit)]

=============================================================================
