------------------------------ MODULE NoSwaps ------------------------------
(***************************************************************************)
(* class NoSwaps: searches for an initial layout with which the circuit    *)
(* needs no swaps at all.                                                  *)
(***************************************************************************)
EXTENDS Expander

(* The root starts without a layout. Only the first numLogical entries of  *)
(* the arrays are cleared, which is all there is unless init_qal says      *)
(* something else.                                                         *)
ClearedRoot(n, numLogical) ==
    LET Clear(f) == [x \in Physical |-> IF x < numLogical THEN Unmapped ELSE f[x]]
    IN  [n EXCEPT !.qal = Clear(@), !.laq = Clear(@)]

(* The two-qubit gate that a ready gate is or leads to.                    *)
TwoQubitGateAt(gates, g) == IF IsTwoQubit(gates[g]) THEN g ELSE gates[g].nextTargetCNOT

(* The first gate in the order of the ready gates with a qubit to place.   *)
GatesToPlace(n, gates) ==
    LET next == Mapped(InOrder(n.readyGates), LAMBDA g : TwoQubitGateAt(gates, g))
        IsUnplaced(g) == g # NoGate /\ \E q \in QubitsOf(gates[g]) : n.laq[q] = Unmapped
    IN  Picked(next, {i \in DOMAIN next : IsUnplaced(next[i])})

(* A child for each way to put the qubits of such a gate v on a coupling:  *)
(* <<pc, pt>> are places for control and target that are free, or where    *)
(* the qubit is already.                                                   *)
Fits(n, q, p) == IF n.laq[q] = Unmapped THEN n.qal[p] = Unmapped ELSE n.qal[p] = q

BothWays(couplings) ==
    [i \in 1..2*Len(couplings) |->
        LET c == couplings[(i + 1) \div 2] IN IF i % 2 = 1 THEN c ELSE <<c[2], c[1]>>]

PlacesFor(n, v) ==
    LET pairs == BothWays(CouplingsInOrder(Couplings))
    IN  Picked(pairs, {i \in DOMAIN pairs : /\ Fits(n, v.control, pairs[i][1])
                                           /\ Fits(n, v.target, pairs[i][2])})

(* The children stay in the cycle of their parent and cost less.           *)
ExpandLayout(n, cost, v) ==
    LET places == PlacesFor(n, v)
        Placed(p) == [node |-> [PlaceOn(n, v.control, v.target, p[1], p[2])
                                    EXCEPT !.root = FALSE],
                      cost |-> cost - 1]
    IN  Expansion(Mapped(places, Placed),
                  \A i \in DOMAIN places :
                      /\ n.laq[v.control] \in {Unmapped, places[i][1]}
                      /\ n.laq[v.target] \in {Unmapped, places[i][2]})

(* Once all of them have places: the ready gates that can start do. How    *)
(* long a logical qubit is busy is told by its last gate alone.            *)
FaultyLogicallyBusyCycles(n, q) ==      \* one cycle too many
    LET sg == n.lastNonSwapGate[q]
    IN  IF sg = Null THEN 0 ELSE Max({0, EndOf(sg) - n.cycle + 1})

LogicallyBusyCycles(n, q) ==
    LET sg == n.lastNonSwapGate[q]
    IN  IF sg = Null THEN 0 ELSE Max({0, EndOf(sg) - n.cycle})

FaultyStartable(n, gates) ==            \* busy in the next cycle, too
    {g \in n.readyGates :
        /\ n.cycle >= -1
        /\ \A q \in QubitsOf(gates[g]) : LogicallyBusyCycles(n, q) <= 2
        /\ IsTwoQubit(gates[g]) => Coupled(n.laq[gates[g].target], n.laq[gates[g].control])}

Startable(n, gates) ==
    {g \in n.readyGates :
        /\ n.cycle >= -1
        /\ \A q \in QubitsOf(gates[g]) : LogicallyBusyCycles(n, q) <= 1
        /\ IsTwoQubit(gates[g]) => Coupled(n.laq[gates[g].target], n.laq[gates[g].control])}

(* The only child; each of the gates is asserted to start. Without any,    *)
(* and with no qubit left to wait for, there is none.                      *)
OnlyChild(child, cost, started, numLogical) ==
    LET waits == \E q \in 0..numLogical-1 : LogicallyBusyCycles(child.node, q) > 0
    IN  Expansion(IF started = 0 /\ ~waits THEN <<>>
                  ELSE <<[node |-> child.node, cost |-> cost - started]>>,
                  child.good /\ child.legal)

ExpandCircuit(n, cost, gates, numLogical) ==
    LET starting == Startable(n, gates)
    IN  OnlyChild(ScheduleAll(Attempt(PrepChild(n)), gates, GateCalls(starting)),
                  cost, Cardinality(starting), numLogical)

(* expand, when it does not end the search.                                *)
ExpandWithoutSwaps(popped, cost, gates, numLogical) ==
    LET n == IF popped.root THEN ClearedRoot(popped, numLogical) ELSE popped
        places == GatesToPlace(n, gates)
    IN  IF places # <<>> THEN ExpandLayout(n, cost, gates[places[1]])
        ELSE ExpandCircuit(n, cost, gates, numLogical)

=============================================================================
