---------------------------- MODULE MCHeuristics ----------------------------
(* Configurations of the search that are not meant to be exact.            *)
EXTENDS Mapper, TLC

MCLine == {<<3, 0>>, <<0, 2>>, <<2, 1>>}
MCGateNames == {"u", "rz", "cx", "swap"}
MCLatency(name, target, control) ==
    CASE name = "rz" -> 0 [] name = "u" -> 1 [] name = "cx" -> 2 [] name = "swap" -> 2

U(t) == [name |-> "u", control |-> -1, target |-> t]
RZ(t) == [name |-> "rz", control |-> -1, target |-> t]
CX(c, t) == [name |-> "cx", control |-> c, target |-> t]

EnvironmentOf(ops) ==
    LET gs == GraphOf(ops, [g \in 1..Len(ops) |-> MCLatency(ops[g].name, -1, -1)])
        used == UNION {QubitsOf(ops[g]) : g \in 1..Len(ops)}
    IN  [gates |-> gs, firstGates |-> Roots(gs),
         numLogical |-> 1 + (CHOOSE q \in used : \A r \in used : r <= q)]

MCEnvironments == {EnvironmentOf(p) : p \in {
    <<CX(0, 1), CX(1, 2), U(2)>>,
    <<CX(0, 1), CX(1, 2), CX(2, 0)>>,
    <<U(0), CX(1, 2), CX(0, 1), RZ(1), CX(0, 2)>>,
    <<CX(0, 1), RZ(0), U(1), U(1)>>,
    <<U(2), CX(0, 2), U(0), U(2), CX(2, 0), U(1)>>,
    <<CX(0, 1), CX(0, 2), CX(0, 3)>>,
    <<CX(0, 1), CX(2, 3), CX(1, 2), CX(3, 0)>>,
    <<CX(0, 3), CX(1, 2), U(3), CX(0, 2), CX(3, 1)>> }}

(* The identity, and a permutation where all physical qubits are in use.   *)
MCLayouts(numLogical) ==
    {NoLayout} \cup (IF numLogical < NumPhysical THEN {}
                     ELSE {(0 :> 1 @@ 1 :> 0 @@ 2 :> 2 @@ 3 :> 3)})

Both == <<"HashFilter", "HashFilter2">>
Default == [cost |-> "CXFrontier", expander |-> "DefaultExpander", k |-> 0,
            maxSize |-> 0, targetSize |-> 0, filters |-> Both,
            greedyMapper |-> FALSE, searchCycles |-> 0, retainPopped |-> 0]
Greedy == [Default EXCEPT !.expander = "GreedyTopK", !.maxSize = 6, !.targetSize = 3,
                          !.retainPopped = 1]

(* DefaultExpander with filters and trimmed queues, also after search      *)
(* cycles; GreedyTopK, with layouts of its own or given ones; NoSwaps.     *)
MCConfigurations ==
    {[Default EXCEPT !.cost = c, !.filters = f, !.maxSize = 4, !.targetSize = 2,
                     !.searchCycles = s, !.retainPopped = 1] :
        c \in {"SimpleCost", "CXFull"}, f \in {<<"HashFilter2">>, Both}, s \in {0, 1}}
    \cup {[Default EXCEPT !.searchCycles = -1, !.retainPopped = r] : r \in {0, 2}}
    \cup {[Default EXCEPT !.filters = <<"HashFilter2", "HashFilter">>]}
    \cup {[Greedy EXCEPT !.k = k, !.greedyMapper = g] : k \in 1..3, g \in BOOLEAN}
    \cup {[Greedy EXCEPT !.k = 2, !.cost = "CXFull", !.filters = <<>>, !.maxSize = 0, !.targetSize = 0]}
    \cup {[Default EXCEPT !.expander = "NoSwaps", !.cost = "SimpleCost", !.filters = f] :
            f \in {<<>>, <<"HashFilter">>, Both}}

(* The proofs about the search take this for granted.                      *)
ASSUME Assumed == CompleteLayouts /\ NoCircuitSwaps /\ ClearedByNoSwaps

(* A star: physical qubit 0 is coupled to each of the others. The gate     *)
(* that is ready after the first one is on qubits that are free already.   *)
MCStar == {<<0, 1>>, <<0, 2>>, <<0, 3>>}
MCBehind == {EnvironmentOf(<<CX(0, 1), CX(0, 1), CX(2, 3)>>)}
MCBackwards(numLogical) == {(0 :> 3 @@ 1 :> 2 @@ 2 :> 1 @@ 3 :> 0)}
MCFiltered == {[Default EXCEPT !.cost = "SimpleCost", !.filters = <<"HashFilter">>]}

=============================================================================
