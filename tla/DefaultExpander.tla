-------------------------- MODULE DefaultExpander --------------------------
(***************************************************************************)
(* class DefaultExpander: a child for every subset of the gates of two or  *)
(* more cycles and the swaps that may start in the next cycle.             *)
(***************************************************************************)
EXTENDS Expander

DependsOnSomething(n, places) == \E p \in places : BusyCycles(n, p) # 0

(* One of places is not free before the next cycle, or the parent's        *)
(* children could have started this already; size nodes are left in the    *)
(* queue.                                                                  *)
IsTimely(n, size, places) == n.cycle > 0 /\ size > 0 => DependsOnSomething(n, places)

ReadyToStart(n, gates, size) ==
    {g \in Executable(n, gates) : IsTimely(n, size, PlacesOf(n, gates[g]))}

FaultyIsSingleCycle(n, v) == TRUE       \* all gates start as soon as possible

(* Single-cycle gates are those of latency 0 or 1 on their present qubits. *)
IsSingleCycle(n, v) ==
    LET control == IF IsTwoQubit(v) THEN n.laq[v.control] ELSE Unmapped
    IN  Latency(v.name, n.laq[v.target], control) \in {0, 1}

(* The logical qubits that no two-qubit gate is going to use. A ready gate *)
(* without a control that has no two-qubit gate after it adds the number   *)
(* of the physical qubit it is on, though: noMoreCX is indexed by          *)
(* laq[g->target] there, and by logical qubits everywhere else.            *)
NextCNOT(v, q) == IF v.target = q THEN v.nextTargetCNOT ELSE v.nextControlCNOT

IsLastOne(n, v) ==
    /\ ~IsTwoQubit(v) \/ n.laq[v.control] = Unmapped
    /\ v.nextTargetCNOT = NoGate

NoMoreCX(n, gates) ==
    {q \in Physical : LET sg == n.lastNonSwapGate[q]
                      IN  sg # Null /\ NextCNOT(gates[sg.gate], q) = NoGate}
    \cup {n.laq[gates[g].target] : g \in {h \in n.readyGates : IsLastOne(n, gates[h])}}

(* noMoreCX[-1] is written for such a gate on an unmapped qubit. That is   *)
(* outside of the vector; with the GNU library it destroys the size of the *)
(* heap chunk, and freeing the vector aborts the program.                  *)
IsInBounds(n, gates) ==
    \A g \in n.readyGates : IsLastOne(n, gates[g]) => n.laq[gates[g].target] # Unmapped

(* The swap on coupling c would undo one: no gate with two qubits has used *)
(* the qubits of c since the same swap.                                    *)
IsCyclic(n, c) ==
    LET touching == {i \in DOMAIN n.scheduled :
                        /\ n.scheduled[i].physicalControl # Unmapped
                        /\ QubitsOfEntry(n.scheduled[i]) \cap {c[1], c[2]} # {}}
    IN  /\ n.lastGate[c[1]] # Null /\ n.lastGate[c[2]] # Null
        /\ touching # {}
        /\ LET e == n.scheduled[Max(touching)]
           IN  e.gate = GeneratedSwap /\ <<e.physicalControl, e.physicalTarget>> = c

SwapsToStart(n, gates, size) ==
    {c \in Couplings :
        /\ \E q \in HeldAt(n, c) : q \notin NoMoreCX(n, gates)
        /\ \E q \in HeldAt(n, c) : IsUsedAgain(n, gates, q)
        /\ AreFreeNext(n, {c[1], c[2]})
        /\ IsTimely(n, size, {c[1], c[2]})
        /\ ~IsCyclic(n, c)}

-----------------------------------------------------------------------------
(* The child for one subset of the possible gates: these have to start, in *)
(* the given order, unless one that came before fails; then the            *)
(* single-cycle gates, whether they start or not.                          *)
TrySingle(a, gates, single) ==
    IF ~a.good THEN a
    ELSE [ScheduleAll(a, gates, single) EXCEPT !.good = TRUE]

Child(n, gates, chosen, single) == TrySingle(ChildWith(n, gates, chosen), gates, single)

(* Some gate or swap could not have started before, or n is the only node. *)
IsPromising(n, gates, size) ==
    \/ size = 0
    \/ \E g \in n.readyGates : DependsOnSomething(n, PlacesOf(n, gates[g]))
    \/ SwapsToStart(n, gates, size) # {}

(* The attempted children, one for each subset of the possible gates.      *)
Attempts(n, gates, size) ==
    LET ready == ReadyToStart(n, gates, size)
        single == {g \in ready : IsSingleCycle(n, gates[g])}
        possible == GateCalls(ready \ single) \o SwapCalls(SwapsToStart(n, gates, size))
        chosen == Subsets(possible)
    IN  IF ~IsPromising(n, gates, size) THEN <<>>
        ELSE [x \in DOMAIN chosen |-> Child(n, gates, chosen[x], GateCalls(single))]

(* expand, when it does not end the search.                                *)
ExpandAll(n, gates, size) ==
    LET x == Succeeded(Attempts(n, gates, size))
    IN  [x EXCEPT !.legal = @ /\ IsInBounds(n, gates)]

=============================================================================
