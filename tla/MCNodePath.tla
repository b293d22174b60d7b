----------------------------- MODULE MCNodePath -----------------------------
EXTENDS NodePath, TLC

(* A line of three physical qubits, one coupling given in each direction.  *)
MCCouplings == {<<0, 1>>, <<2, 1>>}
MCGateNames == {"u", "rz", "cx", "swap"}
MCLatency(name, target, control) ==
    CASE name = "rz" -> 0 [] name = "u" -> 1 [] name = "cx" -> 2 [] name = "swap" -> 2

U(t) == [name |-> "u", control |-> -1, target |-> t]
RZ(t) == [name |-> "rz", control |-> -1, target |-> t]
CX(c, t) == [name |-> "cx", control |-> c, target |-> t]

EnvironmentOf(ops) ==
    LET gs == GraphOf(ops, [g \in 1..Len(ops) |-> MCLatency(ops[g].name, -1, -1)])
        used == UNION {QubitsOf(ops[g]) : g \in 1..Len(ops)}
    IN  [gates |-> gs, firstGates |-> Roots(gs),
         numLogical |-> 1 + (CHOOSE q \in used : \A r \in used : r <= q)]

MCCircuits == {
    <<CX(0, 1), RZ(1), CX(1, 0)>>,
    <<U(0), U(1), CX(0, 1)>>,
    <<CX(0, 1), RZ(0), RZ(1), CX(0, 1)>>,
    <<RZ(0), CX(0, 2)>>,
    <<CX(0, 1), CX(1, 0), U(2)>>,
    <<CX(0, 1), CX(1, 2), CX(2, 0)>> }

MCEnvironments == {EnvironmentOf(p) : p \in MCCircuits}
MCLayouts(numLogical) ==
    {NoLayout, IF numLogical = 2 THEN (0 :> 1 @@ 1 :> 0 @@ 2 :> -1)
                                 ELSE (0 :> 1 @@ 1 :> 2 @@ 2 :> 0)}
=============================================================================
