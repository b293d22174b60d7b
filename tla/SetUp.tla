------------------------------- MODULE SetUp -------------------------------
(***************************************************************************)
(* What ToqmMapper::Impl::run does before its search, for every circuit    *)
(* and coupling map: build the dependence graph (DependencyGraph), refuse  *)
(* a circuit that is too large for the device, compute the distances       *)
(* (Distances), and choose the number of search cycles.                    *)
(***************************************************************************)
EXTENDS DependencyGraph, CouplingMap

CONSTANTS Runs,                 \* the calls of run considered
          CouplingMaps          \* the coupling maps in them

VARIABLES run,                  \* this call: gates, couplingMap, and what the
                                \* mapper has as initialSearchCycles
          stage,                \* "graph", "distances", "ready" or "refused"
          initialSearchCycles,  \* the local variable of this name
          couplingMap, distances, x, y, z, done, returned

Dist == INSTANCE Distances

ASSUME SetUpAssumption ==
    /\ Programs = {r.gates : r \in Runs}
    /\ CouplingMaps = {r.couplingMap : r \in Runs}
    /\ \A m \in CouplingMaps : IsCouplingMap(m)
    /\ \A r \in Runs : r.initialSearchCycles \in Int

distVars == <<couplingMap, distances, x, y, z, done, returned>>
setUpVars == <<run, stage, initialSearchCycles, vars, distVars>>

SetUpInit ==
    /\ run \in Runs
    /\ program = run.gates
    /\ Init
    /\ couplingMap = run.couplingMap
    /\ Dist!Init
    /\ initialSearchCycles = run.initialSearchCycles
    /\ stage = "graph"

BuildGraph ==
    /\ stage = "graph"
    /\ Next
    /\ UNCHANGED <<run, stage, initialSearchCycles, distVars>>

FaultyIsTooLarge(n, m) == n > m + 1

(* "Coupling map has ... qubits but circuit uses ... qubits."              *)
IsTooLarge(n, m) == n > m

CheckSize ==
    /\ stage = "graph"
    /\ phase = "done"
    /\ stage' = IF IsTooLarge(numQubits, couplingMap.numPhysicalQubits)
                THEN "refused" ELSE "distances"
    /\ UNCHANGED <<run, initialSearchCycles, vars, distVars>>

ComputeDistances ==
    /\ stage = "distances"
    /\ Dist!Visit
    /\ UNCHANGED <<run, stage, initialSearchCycles, vars>>

FaultyDiameter(d, n) == IF n = 1 THEN 0 ELSE d[<<0, n - 1>>]    \* as if in a line

(* The largest distance of a pair, each pair read at its smaller qubit.    *)
Diameter(d, n) ==
    LET pairs == {p \in PairsOf(n) : p[1] < p[2]}
    IN  IF pairs = {} THEN 0
        ELSE d[CHOOSE p \in pairs : \A o \in pairs : d[o] <= d[p]]

(* What is left to do before the root node is made.                        *)
ChooseSearchCycles ==
    /\ stage = "distances"
    /\ returned
    /\ initialSearchCycles' =
           IF run.initialSearchCycles < 0
           THEN Diameter(distances, couplingMap.numPhysicalQubits)
           ELSE run.initialSearchCycles
    /\ stage' = "ready"
    /\ UNCHANGED <<run, vars, distVars>>

SetUpNext == BuildGraph \/ CheckSize \/ ComputeDistances \/ ChooseSearchCycles

(* run is sequential code.                                                 *)
SetUpSpec == SetUpInit /\ [][SetUpNext]_setUpVars /\ WF_setUpVars(SetUpNext)

-----------------------------------------------------------------------------
(* The types of both parts.                                                *)
SetUpTypeOK ==
    /\ TypeOK
    /\ Dist!TypeOK
    /\ stage \in {"graph", "distances", "ready", "refused"}
    /\ initialSearchCycles \in Int

(* calcDistances never goes below the number of couplings between two      *)
(* qubits, and arrives at it, although its loops are nested in another     *)
(* order than Floyd and Warshall's.                                        *)
DistancesCorrect == Dist!NeverTooShort /\ Dist!DistancesCorrect

Device == INSTANCE Node WITH
              NumPhysical <- couplingMap.numPhysicalQubits,
              Couplings <- couplingMap.edges,
              GateNames <- DOMAIN OptimisticLatency,
              Latency <- LAMBDA name, target, control : OptimisticLatency[name]

(* What the search starts from is what it is assumed to start from         *)
(* (IsEnvironment of module Node): no circuit that needs more qubits than  *)
(* the device has, or with a gate on one qubit twice, gets that far, and   *)
(* no gate is lost.                                                        *)
HandsOverEnvironment ==
    stage = "ready" =>
        /\ Device!IsEnvironment(
               [gates |-> gates, firstGates |-> firstGates, numLogical |-> numQubits])
        /\ Len(gates) = Len(program)

(* The number of search cycles that run chooses itself is the diameter of  *)
(* the device: enough to bring any qubit to any place by swaps in a row.   *)
SearchCyclesReach ==
    stage = "ready" /\ run.initialSearchCycles < 0 =>
        \/ DOMAIN distances = {} /\ initialSearchCycles = 0
        \/ /\ \A p \in DOMAIN distances : Dist!Hops[p] <= initialSearchCycles
           /\ \E p \in DOMAIN distances : Dist!Hops[p] = initialSearchCycles

(* run comes to the start of its search, or throws: setCriticality waits   *)
(* for no two-qubit gate forever, and calcDistances shortens a distance in *)
(* every sweep but the last.                                               *)
SetUpTerminates == <>(stage \in {"ready", "refused"} \/ phase = "failed")

=============================================================================
