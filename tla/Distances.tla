----------------------------- MODULE Distances -----------------------------
(***************************************************************************)
(* calcDistances: the distances between all pairs of physical qubits, from *)
(* the coupling map. One action is one iteration of the innermost loop.    *)
(* run starts it with the distance 1 for coupled qubits and the largest    *)
(* possible one, numPhysicalQubits - 1, for others. The entries of a qubit *)
(* and itself are neither changed nor read, and left out here.             *)
(***************************************************************************)
EXTENDS CouplingMap

CONSTANT CouplingMaps           \* the CouplingMaps considered

VARIABLES couplingMap,  \* argument coupling_map of run
          distances,    \* one entry per ordered pair
          x, y, z,      \* the loop variables
          done,         \* nothing has changed since the while loop was entered
          returned

NumQubits == couplingMap.numPhysicalQubits
Qubits == 0..NumQubits-1
Pairs == PairsOf(NumQubits)

Init ==
    /\ couplingMap \in CouplingMaps
    /\ distances = [p \in Pairs |-> IF Adjacent(couplingMap.edges, p[1], p[2])
                                    THEN 1 ELSE NumQubits - 1]
    /\ x = 0 /\ y = 0 /\ z = 0
    /\ done = TRUE
    /\ returned = FALSE

Update(d, a, b, value) == [d EXCEPT ![<<a, b>>] = value, ![<<b, a>>] = value]

FaultyIsShortcut(d, a, b, c) ==         \* only next to both
    /\ a # b /\ a # c /\ b # c
    /\ d[<<a, b>>] = 1 /\ d[<<b, c>>] = 1 /\ d[<<a, c>>] > 2

FaultyIsShortcutOrEqual(d, a, b, c) ==    \* not longer
    /\ a # b /\ a # c /\ b # c
    /\ d[<<a, b>>] + d[<<b, c>>] <= d[<<a, c>>]

(* Going from a to c by b is shorter than what is known.                   *)
IsShortcut(d, a, b, c) ==
    /\ a # b /\ a # c /\ b # c
    /\ d[<<a, b>>] + d[<<b, c>>] < d[<<a, c>>]

Via(d, a, b, c) == d[<<a, b>>] + d[<<b, c>>]

IsLastTriple == x = NumQubits - 1 /\ y = NumQubits - 1 /\ z = NumQubits - 1

NextTriple ==
    /\ z' = (z + 1) % NumQubits
    /\ y' = IF z = NumQubits - 1 THEN (y + 1) % NumQubits ELSE y
    /\ x' = IF z = NumQubits - 1 /\ y = NumQubits - 1 THEN (x + 1) % NumQubits ELSE x

Visit ==
    LET shortcut == IsShortcut(distances, x, y, z)
        stable == done /\ ~shortcut
    IN  /\ ~returned
        /\ distances' = IF shortcut THEN Update(distances, x, z, Via(distances, x, y, z))
                                    ELSE distances
        /\ NextTriple
        /\ returned' = (IsLastTriple /\ stable)
        /\ done' = (stable \/ IsLastTriple)     \* set again for the next sweep
        /\ UNCHANGED couplingMap

-----------------------------------------------------------------------------
(* The type of the variables; distances are at least 1, at most that of    *)
(* the longest path without a cycle, and the same in both directions.      *)
TypeOK ==
    /\ couplingMap \in CouplingMaps
    /\ distances \in [Pairs -> 1..NumQubits-1]
    /\ \A p \in Pairs : distances[<<p[2], p[1]>>] = distances[p]
    /\ x \in Qubits /\ y \in Qubits /\ z \in Qubits
    /\ done \in BOOLEAN /\ returned \in BOOLEAN

Hops == HopDistances(couplingMap.edges, NumQubits)

(* No distance is ever below the number of couplings on the shortest path. *)
NeverTooShort == LET hops == Hops IN \A p \in Pairs : distances[p] >= hops[p]

(* In the end distances are the numbers of couplings on the shortest paths *)
(* (for qubits that no path joins, numPhysicalQubits - 1), although the    *)
(* loops are nested in another order than Floyd and Warshall's.            *)
DistancesCorrect == returned => distances = Hops

=============================================================================
