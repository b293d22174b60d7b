-------------------------------- MODULE Node --------------------------------
(***************************************************************************)
(* class Node: one state of the search, that is a partial schedule with    *)
(* the layout of the qubits at its current cycle, and the operations that  *)
(* expanders call on it: scheduleGate, swapQubits, busyCycles, prepChild.  *)
(*                                                                         *)
(* A node is a record with the fields of the class. The arrays qal, laq    *)
(* and last... have NumPhysical entries in use. A pointer to a             *)
(* ScheduledGate is the ScheduledGate itself (it is immutable during the   *)
(* search), and Null where the pointer is. The list of scheduled gates is  *)
(* a sequence, oldest first.                                               *)
(***************************************************************************)
EXTENDS GateGraph

CONSTANTS NumPhysical,          \* Environment::numPhysicalQubits
          Couplings,            \* Environment::couplings
          GateNames,            \* the gate types in use, "swap" among them
          Latency(_, _, _)      \* getLatency of a name, target and control

Physical == 0..NumPhysical-1
Unmapped == -1
Place == Physical \cup {Unmapped}       \* an entry of laq or of qal

(* The couplings join different qubits, latencies are never negative, and  *)
(* no swap has latency 0: "0-latency swaps are not supported"              *)
(* (Latency/Table.hpp:112), and the other Latency classes have none. (A    *)
(* table without an entry for swaps may give one all the same.)            *)
ASSUME NodeAssumption ==
    /\ NumPhysical \in Nat \ {0}
    /\ Couplings \subseteq Physical \X Physical
    /\ \A c \in Couplings : c[1] # c[2]
    /\ "swap" \in GateNames
    /\ \A name \in GateNames : \A t, c \in Place :
          /\ Latency(name, t, c) \in Nat
          /\ IsSwapName(name) => Latency(name, t, c) # 0

GeneratedSwap == 0              \* the gate of a swap from possibleSwaps
Null == [gate |-> -1, physicalControl |-> Unmapped, physicalTarget |-> Unmapped,
         cycle |-> 0, latency |-> 0]

(* A physical qubit's gates in the schedule.                               *)
QubitsOfEntry(e) == {e.physicalControl, e.physicalTarget} \ {Unmapped}
EndOf(e) == e.cycle + e.latency

(* What the fields of a node can hold.                                     *)
ScheduledGates ==
    [gate : Nat, physicalControl : Place, physicalTarget : Place,
     cycle : Nat, latency : Nat]

Nodes ==
    [root : BOOLEAN, cycle : Int,
     qal : [Physical -> Place], laq : [Physical -> Place],
     lastNonSwapGate : [Physical -> ScheduledGates \cup {Null}],
     lastGate : [Physical -> ScheduledGates \cup {Null}],
     lastNonZeroLatencyGate : [Physical -> ScheduledGates \cup {Null}],
     readyGates : SUBSET Nat, numUnscheduledGates : Int,
     scheduled : Seq(ScheduledGates)]

(* qal and laq are inverse to each other.                                  *)
IsLayout(qal, laq) ==
    \A x \in Physical :
        /\ qal[x] # Unmapped => laq[qal[x]] = x
        /\ laq[x] # Unmapped => qal[laq[x]] = x

(* Entry e of the schedule uses physical qubit p for some time.            *)
Occupies(e, p) == p \in QubitsOfEntry(e) /\ e.latency # 0

(* In a schedule, an entry that takes time starts only after the end of    *)
(* all earlier ones on its physical qubits.                                *)
HasNoOverlap(scheduled) ==
    \A i, j \in DOMAIN scheduled : \A p \in Physical :
        i < j /\ Occupies(scheduled[i], p) /\ Occupies(scheduled[j], p)
            => EndOf(scheduled[i]) <= scheduled[j].cycle

Coupled(p1, p2) == <<p1, p2>> \in Couplings \/ <<p2, p1>> \in Couplings

(* What buildDependencyGraph hands over (module DependencyGraph) when run  *)
(* does not throw: the GateNodes, the root gates and numLogicalQubits, of  *)
(* which there are no more than physical qubits.                           *)
GateNodes(numLogical) ==
    [name : GateNames, control : -1..numLogical-1, target : 0..numLogical-1,
     optimisticLatency : Nat, criticality : Nat,
     controlParent : Nat, targetParent : Nat, controlChild : Nat, targetChild : Nat,
     nextControlCNOT : Nat, nextTargetCNOT : Nat]

IsEnvironment(env) ==
    /\ env.numLogical \in 0..NumPhysical
    /\ env.gates \in Seq(GateNodes(env.numLogical))
    /\ \A g \in 1..Len(env.gates) :
          LET v == env.gates[g]
          IN  /\ v.control # v.target
              /\ ~IsTwoQubit(v) => v.controlParent = NoGate /\ v.controlChild = NoGate
              /\ IsNextCNOT(env.gates, g, v.target, v.nextTargetCNOT)
              /\ IsTwoQubit(v) => IsNextCNOT(env.gates, g, v.control, v.nextControlCNOT)
    /\ IsGraph(env.gates)
    /\ env.firstGates = Roots(env.gates)

-----------------------------------------------------------------------------
(* The root node of ToqmMapper::Impl::run. NoLayout stands for an empty    *)
(* init_qal; searchCycles is initialSearchCycles.                          *)

NoLayout == <<>>

(* An init_qal that names every logical qubit once and nothing else. run   *)
(* does not check for that.                                                *)
IsCompleteLayout(numLogical, layout) ==
    /\ layout \in [Physical -> -1..numLogical-1]
    /\ \A q \in 0..numLogical-1 : \E p \in Physical : layout[p] = q
    /\ \A p1, p2 \in Physical :
          layout[p1] = layout[p2] /\ layout[p1] # Unmapped => p1 = p2

IdentityLayout(numLogical) ==
    [x \in Physical |-> IF x < numLogical THEN x ELSE Unmapped]

(* laq when init_qal is copied entry by entry over the identity: a logical *)
(* qubit that init_qal does not name keeps its place.                      *)
LaqOf(initQal, numLogical) ==
    [q \in Physical |->
        LET at == {x \in Physical : initQal[x] = q}
        IN  IF at = {} THEN IdentityLayout(numLogical)[q]
            ELSE CHOOSE x \in at : \A y \in at : y <= x]

Root(env, initQal, searchCycles) ==
    [root |-> TRUE,                             \* parent = nullptr
     cycle |-> -1 - searchCycles,
     qal |-> IF initQal = NoLayout THEN IdentityLayout(env.numLogical) ELSE initQal,
     laq |-> IF initQal = NoLayout THEN IdentityLayout(env.numLogical)
             ELSE LaqOf(initQal, env.numLogical),
     lastNonSwapGate |-> [q \in Physical |-> Null],
     lastGate |-> [p \in Physical |-> Null],
     lastNonZeroLatencyGate |-> [p \in Physical |-> Null],
     readyGates |-> env.firstGates,
     numUnscheduledGates |-> Len(env.gates),
     scheduled |-> <<>>]

(* Layout modules clear the layout of the root before anything reads it,   *)
(* and place logical qubits q1 and q2 on p1 and p2 later.                   *)
NothingMapped == [x \in Physical |-> Unmapped]
Cleared(n) == [n EXCEPT !.qal = NothingMapped, !.laq = NothingMapped]

PlaceOn(n, q1, q2, p1, p2) ==
    [n EXCEPT !.laq = [@ EXCEPT ![q1] = p1, ![q2] = p2],
              !.qal = [@ EXCEPT ![p1] = q1, ![p2] = q2]]

(* Node::prepChild copies the parent and moves on to the next cycle.       *)
PrepChild(n) == [n EXCEPT !.root = FALSE, !.cycle = @ + 1]

-----------------------------------------------------------------------------
(* Operators named Faulty... are not used by the specification. Each is a  *)
(* mistake one could have made in the operator that follows it; the        *)
(* properties are known to notice it.                                      *)

FaultyBusyCycles(n, p) ==               \* looks at gates of latency 0, too
    LET cycles == EndOf(n.lastGate[p]) - n.cycle
    IN  IF n.lastGate[p] = Null \/ cycles < 0 THEN 0 ELSE cycles

(* The number of cycles until physical qubit p is available.               *)
BusyCycles(n, p) ==
    LET sg == n.lastNonZeroLatencyGate[p]
        cycles == EndOf(sg) - n.cycle
    IN  IF sg = Null \/ cycles < 0 THEN 0 ELSE cycles

(* The layout change of swapQubits and of a scheduled swap. Exchanging two *)
(* qubits that hold nothing is refused (swapQubits) or asserted not to     *)
(* happen (scheduleGate).                                                  *)
HoldsSomething(n, p1, p2) == n.qal[p1] # Unmapped \/ n.qal[p2] # Unmapped

SwapQal(qal, p1, p2) == [qal EXCEPT ![p1] = qal[p2], ![p2] = qal[p1]]

FaultySwapLaq(laq, qal, p1, p2) ==      \* an empty p1 is forgotten
    IF qal[p1] = Unmapped THEN laq
    ELSE IF qal[p2] = Unmapped THEN [laq EXCEPT ![qal[p1]] = p2]
    ELSE [laq EXCEPT ![qal[p1]] = laq[qal[p2]], ![qal[p2]] = laq[qal[p1]]]

SwapLaq(laq, qal, p1, p2) ==
    LET q1 == qal[p1]
        q2 == qal[p2]
    IN  CASE q1 # Unmapped /\ q2 # Unmapped ->
                 [laq EXCEPT ![q1] = laq[q2], ![q2] = laq[q1]]
          [] q1 # Unmapped /\ q2 = Unmapped -> [laq EXCEPT ![q1] = p2]
          [] q1 = Unmapped /\ q2 # Unmapped -> [laq EXCEPT ![q2] = p1]
          [] OTHER -> laq

SwapQubits(n, p1, p2) ==
    [n EXCEPT !.qal = SwapQal(n.qal, p1, p2),
              !.laq = SwapLaq(n.laq, n.qal, p1, p2)]

-----------------------------------------------------------------------------
(* The physical qubits on which scheduleGate places circuit gate v: those  *)
(* of its logical qubits, except that the qubits of a swap are taken to be *)
(* physical already, even when the swap is a gate of the circuit.          *)
PhysicalControl(n, v) ==
    IF v.control = -1 \/ IsSwapName(v.name) THEN v.control ELSE n.laq[v.control]
PhysicalTarget(n, v) ==
    IF IsSwapName(v.name) THEN v.target ELSE n.laq[v.target]

(* The assertions at the top of scheduleGate.                              *)
MayCallScheduleGate(n, v) ==
    IsTwoQubit(v) => /\ PhysicalControl(n, v) # Unmapped
                     /\ PhysicalTarget(n, v) # Unmapped
                     /\ Coupled(PhysicalControl(n, v), PhysicalTarget(n, v))

FaultyCanStart(n, name, pc, pt) ==      \* the control need not be idle
    (pt # Unmapped /\ Latency(name, pt, pc) # 0) => BusyCycles(n, pt) = 0

(* Does scheduleGate go through on physical qubits pc and pt, rather than  *)
(* return false? A gate of latency 0 never waits; a one-qubit gate on an   *)
(* unmapped qubit has no physical qubit to wait for.                       *)
CanStart(n, name, pc, pt) ==
    (pt = Unmapped \/ Latency(name, pt, pc) # 0) =>
        \A p \in {pc, pt} \ {Unmapped} : BusyCycles(n, p) = 0

FaultyScheduledGate(n, g, name, pc, pt) ==      \* latency stays -1
    [gate |-> g, physicalControl |-> pc, physicalTarget |-> pt, cycle |-> n.cycle,
     latency |-> IF pt = Unmapped THEN -1 ELSE Latency(name, pt, pc)]

(* The ScheduledGate of gate g that is to start now.                       *)
ScheduledGate(n, g, name, pc, pt) ==
    [gate |-> g, physicalControl |-> pc, physicalTarget |-> pt,
     cycle |-> n.cycle, latency |-> Latency(name, pt, pc)]

FaultyPushScheduled(n, sg) ==           \* a swap occupies only its target
    [n EXCEPT
        !.lastGate = [@ EXCEPT ![sg.physicalTarget] = sg],
        !.lastNonZeroLatencyGate = [@ EXCEPT ![sg.physicalTarget] = sg],
        !.scheduled = Append(@, sg)]

(* Record sg as the latest gate of the physical qubits it uses.            *)
PushScheduled(n, sg) ==
    [n EXCEPT
        !.lastGate = [p \in Physical |->
            IF p \in QubitsOfEntry(sg) THEN sg ELSE n.lastGate[p]],
        !.lastNonZeroLatencyGate = [p \in Physical |->
            IF p \in QubitsOfEntry(sg) /\ sg.latency # 0
            THEN sg ELSE n.lastNonZeroLatencyGate[p]],
        !.scheduled = Append(n.scheduled, sg)]

(* scheduleGate of a swap, generated (g = GeneratedSwap) or of the circuit *)
(* (which stays in readyGates and in numUnscheduledGates).                 *)
ScheduleSwap(n, g, name, pc, pt) ==
    SwapQubits(PushScheduled(n, ScheduledGate(n, g, name, pc, pt)), pc, pt)

(* The part of scheduleGate, for a circuit gate other than a swap, that    *)
(* comes before the loop over the gates it unblocks.                       *)
EntryOf(n, gates, g) ==
    LET v == gates[g]
    IN  ScheduledGate(n, g, v.name, PhysicalControl(n, v), PhysicalTarget(n, v))

ScheduleAlone(n, gates, g) ==
    LET sg == EntryOf(n, gates, g)
    IN  [PushScheduled(n, sg) EXCEPT
            !.lastNonSwapGate = [q \in Physical |->
                IF q \in QubitsOf(gates[g]) THEN sg ELSE n.lastNonSwapGate[q]],
            !.readyGates = n.readyGates \ {g},
            !.numUnscheduledGates = n.numUnscheduledGates - 1]

-----------------------------------------------------------------------------
FaultyIsUnblocked(n, gates, g, c) == TRUE       \* whatever its other parent

(* The gates that scheduling g unblocks. A two-qubit child c also needs    *)
(* its other parent to be the last gate scheduled on their common qubit.   *)
IsUnblocked(n, gates, g, c) ==
    LET v == gates[c]
        otherParent == IF v.controlParent = g THEN v.targetParent ELSE v.controlParent
        commonQubit == IF v.controlParent = g THEN v.target ELSE v.control
    IN  \/ ~IsTwoQubit(v)
        \/ otherParent = NoGate
        \/ n.lastNonSwapGate[commonQubit].gate = otherParent

FaultyUnblocked(n, gates, g) ==         \* a child on both qubits is forgotten
    LET cc == gates[g].controlChild
        tc == gates[g].targetChild
        Child(c) == IF c # NoGate /\ cc # tc /\ IsUnblocked(n, gates, g, c)
                    THEN <<c>> ELSE <<>>
    IN  Child(cc) \o Child(tc)

Unblocked(n, gates, g) ==
    LET cc == gates[g].controlChild
        tc == gates[g].targetChild
        Child(c) == IF c # NoGate /\ IsUnblocked(n, gates, g, c) THEN <<c>> ELSE <<>>
    IN  IF cc = tc THEN (IF cc = NoGate THEN <<>> ELSE <<cc>>)
        ELSE Child(cc) \o Child(tc)

FaultyIsPlaceable(n, v) ==              \* the coupling map is not looked at
    /\ ~IsSwapName(v.name)
    /\ IsTwoQubit(v) => n.laq[v.control] # Unmapped
    /\ n.laq[v.target] # Unmapped

(* May the loop call scheduleGate for the unblocked gate v?                *)
IsPlaceable(n, v) ==
    /\ ~IsSwapName(v.name)
    /\ IsTwoQubit(v) => n.laq[v.control] # Unmapped
    /\ n.laq[v.target] # Unmapped
    /\ IsTwoQubit(v) => Coupled(n.laq[v.control], n.laq[v.target])

(* A call of scheduleGate in progress: the node, and the unblocked gates   *)
(* that the loops of the call and of its recursive calls have still to     *)
(* visit, innermost first.                                                 *)
Call(n, pending) == [node |-> n, pending |-> pending]

(* The part of scheduleGate before the loop, for a gate that can start.    *)
BeginSchedule(n, gates, g) ==
    Call(ScheduleAlone(n, gates, g), Unblocked(n, gates, g))

(* One iteration of a loop over unblocked gates: the gate becomes ready,   *)
(* and is scheduled in the same cycle by a recursive call if it can start. *)
VisitUnblocked(n, gates, pending) ==
    LET c == Head(pending)
        v == gates[c]
        m == [n EXCEPT !.readyGates = @ \cup {c}]
    IN  IF IsPlaceable(m, v)
           /\ CanStart(m, v.name, PhysicalControl(m, v), PhysicalTarget(m, v))
        THEN Call(ScheduleAlone(m, gates, c), Unblocked(m, gates, c) \o Tail(pending))
        ELSE Call(m, Tail(pending))

(* The whole of scheduleGate for circuit gate g; every iteration visits    *)
(* another gate, so Len(gates) of them are enough.                         *)
ScheduleGate(n, gates, g) ==
    LET v == gates[g]
        pc == PhysicalControl(n, v)
        pt == PhysicalTarget(n, v)
        after[i \in 0..Len(gates)] ==
            IF i = 0 THEN BeginSchedule(n, gates, g)
            ELSE LET call == after[i-1]
                 IN  IF call.pending = <<>> THEN call
                     ELSE VisitUnblocked(call.node, gates, call.pending)
    IN  IF ~CanStart(n, v.name, pc, pt) THEN n
        ELSE IF IsSwapName(v.name) THEN ScheduleSwap(n, g, v.name, pc, pt)
        ELSE after[Len(gates)].node

=============================================================================
