----------------------------- MODULE MCSearch -----------------------------
(* Circuits for the search, and the instances of its findings.             *)
EXTENDS Optimality, MCNodePath

(* A line of four physical qubits: 3, 0, 2, 1.                             *)
MCLine == {<<3, 0>>, <<0, 2>>, <<2, 1>>}

MCLineEnvironments == {EnvironmentOf(p) : p \in {
    <<U(2), U(1), CX(0, 1)>>,
    <<U(1), U(1), CX(0, 1)>>,
    <<CX(0, 1), CX(1, 2)>>,
    <<CX(1, 2), CX(0, 1), U(1)>>,
    <<CX(0, 2), RZ(0), CX(0, 1)>> }}

MCLineLayouts(numLogical) ==
    {[x \in Physical |-> IF layout[x+1] < numLogical THEN layout[x+1] ELSE Unmapped] :
        layout \in {<<0, 1, 3, 2>>, <<1, 0, 2, 3>>}}

(* Configurations that are meant to be exact: search cycles none, one and  *)
(* as many as the diameter, filters only without them.                     *)
Exact == [cost |-> "CXFrontier", expander |-> "DefaultExpander", k |-> 0,
          maxSize |-> 0, targetSize |-> 0, filters |-> <<>>, greedyMapper |-> FALSE,
          searchCycles |-> 0, retainPopped |-> 0]

MCExact ==
    {[Exact EXCEPT !.cost = c, !.searchCycles = s] :
        c \in {"SimpleCost", "CXFrontier", "CXFull"}, s \in {0, 1, -1}}
    \cup {[Exact EXCEPT !.cost = c, !.filters = <<"HashFilter">>, !.retainPopped = r] :
        c \in {"SimpleCost", "CXFull"}, r \in {0, 1}}

MCPlain == {[Exact EXCEPT !.cost = c] : c \in {"SimpleCost", "CXFrontier", "CXFull"}}
MCSimple == {[Exact EXCEPT !.cost = "SimpleCost"]}

(* Physical qubit 0 holds the qubit of a last gate, u 2, while logical     *)
(* qubit 0 would have to be swapped.                                       *)
MCMarkedLine == {<<0, 1>>, <<1, 2>>, <<2, 3>>}
MCMarked == {EnvironmentOf(<<U(2), U(1), CX(0, 1)>>)}
MCMarkedLayout(numLogical) == {(0 :> 2 @@ 1 :> 0 @@ 2 :> -1 @@ 3 :> 1)}

(* Latency_1: one cycle for every gate.                                    *)
MCOneCycle(name, target, control) == 1
MCTriangle == {EnvironmentOf(<<CX(0, 1), CX(1, 2), CX(0, 1)>>)}
MCTriangleLayout(numLogical) == {(0 :> 0 @@ 1 :> 1 @@ 2 :> 2)}
=============================================================================
