------------------------------- MODULE CXCost -------------------------------
(***************************************************************************)
(* classes CXFrontier and CXFull: like SimpleCost lower bounds of the end  *)
(* of a schedule, from the next two-qubit gate of every qubit.             *)
(*                                                                         *)
(* A front is what the cost functions know of each physical qubit: next,   *)
(* the next two-qubit gate of the logical qubit it holds, and length, the  *)
(* number of cycles until it can start as far as this qubit is concerned.  *)
(***************************************************************************)
EXTENDS SimpleCost

(* From gate g on along the qubit of one-qubit gates: the first two-qubit  *)
(* gate, and how long the gates before it take.                            *)
NextTwoQubitGate(gates) ==
    LET from[g \in 0..Len(gates)] ==
            IF g = NoGate \/ IsTwoQubit(gates[g]) THEN [gate |-> g, length |-> 0]
            ELSE LET later == from[gates[g].targetChild]
                 IN  [later EXCEPT !.length = @ + gates[g].optimisticLatency]
    IN  from

(* The place of the other qubit of two-qubit gate v, than the one at p.    *)
OtherPlace(n, v, p) == IF n.laq[v.target] = p THEN n.laq[v.control] ELSE n.laq[v.target]

(* Gate v is the first one on its qubit at p.                              *)
IsFirstAt(n, v, p) ==
    \E q \in QubitsOf(v) : n.laq[q] = p /\ ParentOn(v, q) = NoGate

Extend(f, p, g, length) == [next |-> [f.next EXCEPT ![p] = g],
                            length |-> [f.length EXCEPT ![p] = length]]

(* The qubits that have been used (a place p holds qal[p]): what follows    *)
(* their last gate.                                                        *)
AfterLastGates(n, gates) ==
    LET used == {p \in Physical : n.qal[p] # Unmapped /\ n.lastNonSwapGate[n.qal[p]] # Null}
        rest(p) == LET sg == n.lastNonSwapGate[n.qal[p]]
                   IN  NextTwoQubitGate(gates)[ChildOn(gates[sg.gate], n.qal[p])]
    IN  [next |-> [p \in Physical |-> IF p \in used THEN rest(p).gate ELSE NoGate],
         length |-> [p \in Physical |->
                        IF p \in used THEN WaitFor(n, p) + rest(p).length ELSE 0]]

(* Ready gate g: it or what follows it is next at its places. A two-qubit  *)
(* gate after a one-qubit gate is also next at its other place, if nothing *)
(* is known of that, and nothing comes before it there.                    *)
VisitReady(n, gates, f, g) ==
    LET v == gates[g]
        t == n.laq[v.target]
        c == IF IsTwoQubit(v) THEN n.laq[v.control] ELSE Unmapped
        rest == NextTwoQubitGate(gates)[g]
        f1 == Extend(f, t, rest.gate, WaitFor(n, t) + rest.length)
        o == OtherPlace(n, gates[rest.gate], t)
    IN  IF t = Unmapped \/ (IsTwoQubit(v) /\ c = Unmapped) THEN f
        ELSE IF IsTwoQubit(v)
        THEN Extend(Extend(f, t, g, WaitFor(n, t)), c, g, WaitFor(n, c))
        ELSE IF rest.gate # NoGate /\ o # Unmapped
                /\ f1.next[o] = NoGate /\ IsFirstAt(n, gates[rest.gate], o)
        THEN Extend(f1, o, rest.gate, WaitFor(n, o))
        ELSE f1

FirstFront(n, gates) ==
    FoldLeft(LAMBDA f, g : VisitReady(n, gates, f, g),
             AfterLastGates(n, gates), InOrder(n.readyGates))

(* The gates that are next at both of their places.                        *)
FrontGates(n, gates, f) ==
    {g \in {f.next[p] : p \in Physical} \ {NoGate} :
        \A q \in QubitsOf(gates[g]) : n.laq[q] # Unmapped /\ f.next[n.laq[q]] = g}

FaultyGateEnd(n, v, long, short) ==     \* swaps only after both have waited
    v.optimisticLatency + v.criticality + long
      + SwapCost * ((CouplingDistances[<<n.laq[v.control], n.laq[v.target]>>]) \div 2)

(* When qubits that wait so long can be together: of the swaps that takes, *)
(* the qubit that waits less makes as many as fit into the difference;     *)
(* they divide the others, and who is ahead then makes an odd one.         *)
WithOddSwap(a, b, odd) ==
    IF a < b THEN Max({a + SwapCost * odd, b}) ELSE Max({a, b + SwapCost * odd})

Divided(long, short, swaps) ==
    WithOddSwap(long + SwapCost * (swaps \div 2), short + SwapCost * (swaps \div 2), swaps % 2)

Together(long, short, swaps, before) ==
    Divided(long, short + SwapCost * before, swaps - before)

TogetherAt(long, short, swaps) ==
    Together(long, short, swaps, Min({(long - short) \div SwapCost, swaps}))

(* The least number of cycles in which gate v of the front and all that    *)
(* depends on it can be over.                                              *)
GateEnd(n, v, long, short) ==
    v.optimisticLatency + v.criticality
      + TogetherAt(long, short, CouplingDistances[<<n.laq[v.control], n.laq[v.target]>>] - 1)

FrontCosts(n, gates, f) ==
    {LET lengths == {f.length[n.laq[q]] : q \in QubitsOf(gates[g])}
     IN  GateEnd(n, gates[g], Max(lengths), Min(lengths)) : g \in FrontGates(n, gates, f)}

(* cost2: the least number of swaps that a gate of the front needs.        *)
SwapsIn(n, gates, front) ==
    LET swaps == {CouplingDistances[<<n.laq[gates[g].control], n.laq[gates[g].target]>>] - 1 :
                    g \in front}
    IN  IF swaps = {} THEN 0 ELSE Min(swaps)

CostFrom(n, costs) == n.cycle + Max({0} \cup {BusyCycles(n, p) : p \in Physical} \cup costs)

(* CXFrontier: the front, with the other places of gates that nothing is   *)
(* known of and that the gate is the first for. The last physical qubit is *)
(* not asked for such a gate.                                              *)
Completed(n, gates, f) ==
    LET givers(p) == {g \in {f.next[x] : x \in 0..NumPhysical-2} \ {NoGate} :
                        IsFirstAt(n, gates[g], p)}
        open == {p \in Physical : f.next[p] = NoGate /\ givers(p) # {}}
    IN  [next |-> [p \in Physical |-> IF p \in open THEN Max(givers(p)) ELSE f.next[p]],
         length |-> [p \in Physical |-> IF p \in open THEN WaitFor(n, p) ELSE f.length[p]]]

FrontierCost(n, gates) ==
    CostFrom(n, FrontCosts(n, gates, Completed(n, gates, FirstFront(n, gates))))

FrontierSwaps(n, gates) ==
    SwapsIn(n, gates, FrontGates(n, gates, Completed(n, gates, FirstFront(n, gates))))

(* CXFull: one front after the other. Where a gate of the front is next,   *)
(* the following front has what comes after it.                            *)
Advance(n, gates, f) ==
    LET front == FrontGates(n, gates, f)
        from == NextTwoQubitGate(gates)
        rest(p) == from[ChildOn(gates[f.next[p]], n.qal[p])]
        moving == {p \in Physical : f.next[p] \in front}
        goes == {p \in moving : rest(p).gate # NoGate}
    IN  [next |-> [p \in Physical |-> IF p \in moving THEN rest(p).gate ELSE f.next[p]],
         length |-> [p \in Physical |->
                        IF p \in goes
                        THEN f.length[p] + gates[f.next[p]].optimisticLatency + rest(p).length
                        ELSE f.length[p]]]

FullCost(n, gates) ==
    CostFrom(n, FoldLeft(LAMBDA s, v :
                            IF FrontGates(n, gates, s.front) = {} THEN s
                            ELSE [front |-> Advance(n, gates, s.front),
                                  costs |-> s.costs \cup FrontCosts(n, gates, s.front)],
                         [front |-> FirstFront(n, gates), costs |-> {}], gates).costs)

FullSwaps(n, gates) == SwapsIn(n, gates, FrontGates(n, gates, FirstFront(n, gates)))

=============================================================================
