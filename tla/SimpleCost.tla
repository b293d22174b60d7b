----------------------------- MODULE SimpleCost -----------------------------
(***************************************************************************)
(* class SimpleCost: a lower bound of the cycles in which any schedule     *)
(* that continues a node's can end, and cost2, which breaks ties in        *)
(* GreedyTopK.                                                             *)
(***************************************************************************)
EXTENDS Node, CouplingMap, SequencesExt

(* The elements of set s in the order given by the pairs of relation r:    *)
(* number i is the one that has i - 1 others before it.                    *)
Listed(s, r) ==
    [i \in 1..Cardinality(s) |->
        CHOOSE x \in s : Cardinality({y \in s : <<y, x>> \in r}) = i - 1]

(* Gates in the order of their uid, which is that of the circuit.          *)
InOrder(gs) == Listed(gs, {p \in gs \X gs : p[1] < p[2]})

(* Environment::swapCost: the latency of a swap in the best case.          *)
SwapCost == Latency("swap", Unmapped, Unmapped)

(* Environment::couplingDistances.                                         *)
CouplingDistances == HopDistances(Couplings, NumPhysical)

(* How long a ready gate has to wait for its qubit at p: until p is free,  *)
(* and at least for the next cycle, since no more gates will be scheduled  *)
(* in this one.                                                            *)
WaitFor(n, p) == IF p = Unmapped THEN 0 ELSE Max({BusyCycles(n, p), 1})

(* At least d - 1 swaps bring qubits at distance d next to each other, and *)
(* they can be divided between the two qubits: half of d for one of them,  *)
(* and for the other half of d, or one less when d is even. The one that   *)
(* waits less is given more.                                               *)
GateCost(n, v) ==
    LET c == IF v.control = -1 THEN Unmapped ELSE n.laq[v.control]
        t == n.laq[v.target]
        end == v.criticality + v.optimisticLatency
        viaControl == end + WaitFor(n, c)
        viaTarget == end + WaitFor(n, t)
        d == IF c = Unmapped \/ t = Unmapped THEN 1 ELSE CouplingDistances[<<c, t>>]
        swaps == SwapCost * (d \div 2)
    IN  CASE d <= 1 -> Max({viaControl, viaTarget})
          [] d > 1 /\ d % 2 = 1 -> Max({viaControl, viaTarget}) + swaps
          [] OTHER -> Max({Min({viaControl, viaTarget}) + swaps,
                           Max({viaControl, viaTarget}) + swaps - SwapCost})

FaultySimpleCostOf(n, gates) ==               \* forgets the gates that are not over
    n.cycle + Max({0} \cup {GateCost(n, gates[g]) : g \in n.readyGates})

SimpleCostOf(n, gates) ==
    n.cycle + Max({0} \cup {BusyCycles(n, p) : p \in Physical}
                      \cup {GateCost(n, gates[g]) : g \in n.readyGates})

(* cost2: the swaps that the closest ready two-qubit gate needs. A gate    *)
(* replaces the closest one so far if its distance, not the number of its  *)
(* swaps, is less than that one's number of swaps.                         *)
SwapsOfClosest(distances) ==
    LET Closer(swaps, d) == IF swaps = -1 \/ d < swaps THEN d - 1 ELSE swaps
    IN  Max({0, FoldLeft(Closer, -1, distances)})

SimpleSwaps(n, gates) ==
    LET placed == {g \in n.readyGates : /\ IsTwoQubit(gates[g])
                                        /\ n.laq[gates[g].control] # Unmapped
                                        /\ n.laq[gates[g].target] # Unmapped}
        s == InOrder(placed)
    IN  SwapsOfClosest([i \in DOMAIN s |->
            CouplingDistances[<<n.laq[gates[s[i]].control], n.laq[gates[s[i]].target]>>]])

=============================================================================
