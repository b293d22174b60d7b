----------------------------- MODULE GreedyTopK -----------------------------
(***************************************************************************)
(* class GreedyTopK: every gate that can start does, with subsets of the   *)
(* swaps that bring a next two-qubit gate closer; of the children only the *)
(* K best ones are pushed.                                                 *)
(***************************************************************************)
EXTENDS Expander

(* CXFrontier: for each logical qubit a two-qubit gate that is next on it, *)
(* the ready ones first. A later one takes the place of a less critical    *)
(* one on its control; what is next on its target is not looked at.        *)
PutGate(front, gates, g) ==
    [front EXCEPT ![gates[g].target] = g, ![gates[g].control] = g]

Replace(front, gates, old, g) ==
    PutGate([front EXCEPT ![gates[old].target] = NoGate], gates, g)

NextGates(n, gates) ==
    LET ready == InOrder({g \in n.readyGates : IsTwoQubit(gates[g])})
        others == InOrder({g \in n.readyGates : ~IsTwoQubit(gates[g])})
        Put(front, g) == PutGate(front, gates, g)
        PutLater(front, h) ==
            LET g == gates[h].nextTargetCNOT
                old == front[gates[g].control]
            IN  IF g = NoGate THEN front
                ELSE IF old = NoGate THEN PutGate(front, gates, g)
                ELSE IF gates[old].criticality < gates[g].criticality
                THEN Replace(front, gates, old, g)
                ELSE front
    IN  FoldLeft(PutLater, FoldLeft(Put, [q \in Physical |-> NoGate], ready), others)

(* The swap on coupling c, tried on the node itself and taken back, brings *)
(* the next gate of a qubit it moves closer together.                      *)
GateDistance(laq, v) == CouplingDistances[<<laq[v.control], laq[v.target]>>]

HelpsGate(n, gates, c) ==
    LET front == NextGates(n, gates)
        after == SwapLaq(n.laq, n.qal, c[2], c[1])
    IN  \E q \in HeldAt(n, c) :
            LET v == gates[front[q]]
            IN  /\ front[q] # NoGate
                /\ n.laq[v.control] # Unmapped /\ n.laq[v.target] # Unmapped
                /\ GateDistance(after, v) < GateDistance(n.laq, v)

(* Swaps stay away from the qubits of the gates that will start.           *)
HelpfulSwaps(n, gates) ==
    LET occupied == UNION {PlacesOf(n, gates[g]) : g \in Executable(n, gates)}
    IN  {c \in Couplings :
            /\ n.cycle < -1 \/ {c[1], c[2]} \cap occupied = {}
            /\ HelpsGate(n, gates, c)
            /\ \E q \in HeldAt(n, c) : IsUsedAgain(n, gates, q)
            /\ AreFreeNext(n, {c[1], c[2]})}

(* The child for one subset of the swaps; all guaranteed gates are         *)
(* asserted to start.                                                      *)
Asserted(a) == [a EXCEPT !.good = TRUE, !.legal = @ /\ a.good]

StartGuaranteed(a, gates, guaranteed) ==
    IF ~a.good THEN a ELSE Asserted(ScheduleAll(a, gates, guaranteed))

GreedyChild(n, gates, swaps) ==
    StartGuaranteed(ChildWith(n, gates, swaps), gates, GateCalls(Executable(n, gates)))

(* Without gates that start and without busy qubits, some swap must.       *)
GreedyAttempts(n, gates) ==
    LET all == Subsets(SwapCalls(HelpfulSwaps(n, gates)))
        isIdle == Executable(n, gates) = {} /\ \A p \in Physical : BusyCycles(n, p) = 0
    IN  [x \in DOMAIN all |->
            IF x = 1 /\ isIdle THEN [Attempt(n) EXCEPT !.good = FALSE]
            ELSE GreedyChild(n, gates, all[x])]

(* expand, when it does not end the search, before it chooses the best.    *)
ExpandGreedily(n, gates) == Succeeded(GreedyAttempts(n, gates))

(* The K best of the priced children, the worst of them first. Each child  *)
(* comes after those that are no better, and then the first is given up if *)
(* there are too many.                                                     *)
IsNoCheaper(a, b) == a.cost > b.cost \/ (a.cost = b.cost /\ a.cost2 >= b.cost2)

Keep(best, child, k) ==
    LET position == 1 + Cardinality({i \in DOMAIN best : IsNoCheaper(best[i], child)})
        all == InsertAt(best, position, child)
    IN  IF Len(all) > k THEN Tail(all) ELSE all

KBest(children, k) ==
    LET best[i \in 0..Len(children)] ==
            IF i = 0 THEN <<>> ELSE Keep(best[i-1], children[i], k)
    IN  best[Len(children)]

=============================================================================
