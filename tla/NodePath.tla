------------------------------ MODULE NodePath ------------------------------
(***************************************************************************)
(* The life of one path through the search tree, from the root node to a   *)
(* leaf, under any expander and any layout module: the calls that          *)
(* DefaultExpander, GreedyTopK, NoSwaps and GreedyMapper make on a node    *)
(* and its children, in any order their assertions allow. What holds of    *)
(* every node here holds of every node of every search, because a search   *)
(* picks among these calls.                                                *)
(*                                                                         *)
(* A call of scheduleGate is split at its recursion: pending holds the     *)
(* unblocked gates its loops have still to visit, and while there are any  *)
(* nothing else happens.                                                   *)
(***************************************************************************)
EXTENDS Node, FiniteSets

CONSTANTS Environments,         \* environments built from the circuits
          InitialLayouts(_),    \* init_qal arguments for so many logical qubits
          MaxSearchCycles,      \* bound on initialSearchCycles
          MaxCycle              \* bound on the cycle of a node

ASSUME PathAssumption ==
    /\ \A e \in Environments :
          /\ IsEnvironment(e)
          /\ InitialLayouts(e.numLogical) \subseteq [Physical -> Place] \cup {NoLayout}
    /\ MaxSearchCycles \in Nat
    /\ MaxCycle \in Int

VARIABLES env,          \* what all nodes share: gates, firstGates, numLogical
          node,         \* the latest node of the path
          pending,      \* the unblocked gates scheduleGate has still to visit
          offered,      \* the parent's ready gates: an expander picks from them
          priced        \* getCost has been called for the node

vars == <<env, node, pending, offered, priced>>

gates == env.gates
Gates == 1..Len(gates)
Idle == pending = <<>>

CompleteLayouts ==
    \A e \in Environments : \A layout \in InitialLayouts(e.numLogical) :
        layout = NoLayout \/ IsCompleteLayout(e.numLogical, layout)

(* No gate of a circuit is taken for a swap.                               *)
NoCircuitSwaps ==
    \A e \in Environments : \A g \in 1..Len(e.gates) : ~IsSwapName(e.gates[g].name)

Init ==
    /\ env \in Environments
    /\ pending = <<>>
    /\ offered = {}
    /\ priced = FALSE
    /\ \E c \in 0..MaxSearchCycles :
          \/ \E layout \in InitialLayouts(env.numLogical) :
                node = Root(env, layout, c)
          \/ node = Cleared(Root(env, NoLayout, c))

(* An expander makes a child of the node and goes on with that.            *)
Expand ==
    /\ Idle
    /\ node.cycle < MaxCycle
    /\ node' = PrepChild(node)
    /\ offered' = node.readyGates
    /\ priced' = FALSE
    /\ UNCHANGED <<env, pending>>

(* Only a child that has no cost yet is modified by the expander.          *)
InExpander == Idle /\ ~node.root /\ ~priced

(* A child in the search cycles before cycle 0 is given another layout.    *)
SearchLayout(c) ==
    /\ InExpander
    /\ node.cycle < 0
    /\ HoldsSomething(node, c[2], c[1])
    /\ node' = SwapQubits(node, c[2], c[1])
    /\ UNCHANGED <<env, pending, offered, priced>>

(* A child from cycle 0 on is given gates and swaps to start in its cycle. *)
MayStart == InExpander /\ node.cycle >= 0

CallScheduleGate(g) ==
    /\ MayStart
    /\ g \in offered \cap node.readyGates
    /\ ~IsSwapName(gates[g].name)
    /\ MayCallScheduleGate(node, gates[g])
    /\ CanStart(node, gates[g].name, PhysicalControl(node, gates[g]),
                PhysicalTarget(node, gates[g]))
    /\ LET call == BeginSchedule(node, gates, g)
       IN  node' = call.node /\ pending' = call.pending
    /\ UNCHANGED <<env, offered, priced>>

VisitPending ==
    /\ ~Idle
    /\ LET call == VisitUnblocked(node, gates, pending)
       IN  node' = call.node /\ pending' = call.pending
    /\ UNCHANGED <<env, offered, priced>>

CallScheduleSwap(c) ==
    /\ MayStart
    /\ HoldsSomething(node, c[1], c[2])
    /\ CanStart(node, "swap", c[1], c[2])
    /\ node' = ScheduleSwap(node, GeneratedSwap, "swap", c[1], c[2])
    /\ UNCHANGED <<env, pending, offered, priced>>

(* A ready two-qubit gate of the circuit that is called swap: its qubits   *)
(* are taken for physical ones.                                            *)
CallScheduleCircuitSwap(g) ==
    LET v == gates[g]
    IN  /\ MayStart
        /\ g \in offered \cap node.readyGates
        /\ IsSwapName(v.name) /\ IsTwoQubit(v)
        /\ MayCallScheduleGate(node, v)
        /\ HoldsSomething(node, v.control, v.target)
        /\ CanStart(node, v.name, v.control, v.target)
        /\ node' = ScheduleSwap(node, g, v.name, v.control, v.target)
        /\ UNCHANGED <<env, pending, offered, priced>>

(* A layout module places the qubits of a two-qubit gate g that are not on *)
(* a physical qubit yet on free ones: one iteration of GreedyMapper's loop *)
(* over the ready gates, or a child made by NoSwaps (which also looks at   *)
(* the next two-qubit gate of a ready one-qubit gate). Which free qubits   *)
(* they prefer is left open. GreedyMapper runs when the cost of the node   *)
(* is computed, and NoSwaps schedules nothing on the children it makes.    *)
PlaceQubits(g) ==
    LET v == gates[g]
        Candidates(q) == IF node.laq[q] # Unmapped THEN {node.laq[q]}
                         ELSE {p \in Physical : node.qal[p] = Unmapped}
    IN  /\ Idle
        /\ IsTwoQubit(v)
        /\ \/ g \in node.readyGates
           \/ \E h \in node.readyGates :
                 ~IsTwoQubit(gates[h]) /\ gates[h].nextTargetCNOT = g
        /\ node.laq[v.control] = Unmapped \/ node.laq[v.target] = Unmapped
        /\ \E pc \in Candidates(v.control) : \E pt \in Candidates(v.target) :
              /\ pc # pt
              /\ node' = PlaceOn(node, v.control, v.target, pc, pt)
        /\ priced' = TRUE
        /\ UNCHANGED <<env, pending, offered>>

Next ==
    \/ Expand
    \/ \E c \in Couplings : SearchLayout(c) \/ CallScheduleSwap(c)
    \/ \E g \in Gates : \/ CallScheduleGate(g)
                        \/ CallScheduleCircuitSwap(g)
                        \/ PlaceQubits(g)
    \/ VisitPending

Spec == Init /\ [][Next]_vars

-----------------------------------------------------------------------------
(* The type of the variables.                                              *)
TypeOK ==
    /\ env \in Environments
    /\ node \in Nodes
    /\ node.readyGates \subseteq Gates
    /\ \A i \in DOMAIN node.scheduled : node.scheduled[i].gate \in 0..Len(gates)
    /\ pending \in Seq(Gates)
    /\ offered \subseteq Gates
    /\ priced \in BOOLEAN

(* qal and laq are inverse to each other as long as the root's are: no     *)
(* sequence of swaps, scheduled or not, of qubits that hold something or   *)
(* nothing, and of placements by a layout module loses or duplicates a     *)
(* qubit.                                                                  *)
LayoutConsistent == IsLayout(node.qal, node.laq)

Scheduled == {node.scheduled[i].gate : i \in DOMAIN node.scheduled}
Pending == {pending[i] : i \in DOMAIN pending}

(* The gates not scheduled yet, all of whose predecessors are.             *)
Frontier == FrontierOf(gates, Scheduled)

(* readyGates is exactly the frontier of the dependence graph, although it *)
(* is maintained from the children of the gate just scheduled and from     *)
(* what was last scheduled on the children's other qubits, in the middle   *)
(* of recursive calls. So no gate can be scheduled twice, or before one it *)
(* depends on, or be forgotten.                                            *)
ReadyIsFrontier ==
    /\ node.readyGates \cap Pending = {}
    /\ node.readyGates \cup Pending = Frontier

(* numUnscheduledGates counts the gates of the circuit that are not in the *)
(* schedule; with no ready gate left there are none (the assertion of      *)
(* DefaultQueue::pop).                                                     *)
CountIsExact ==
    /\ node.numUnscheduledGates = Cardinality(Gates \ Scheduled)
    /\ Idle /\ node.readyGates = {} => node.numUnscheduledGates = 0

(* No physical qubit is used by two gates at the same time, although the   *)
(* code only ever looks at the last gate on a qubit that takes time.       *)
NoOverlap == HasNoOverlap(node.scheduled)

(* A gate of the circuit starts only after the end of the gates it depends *)
(* on, wherever swaps have moved their common qubit in between; with       *)
(* latency 0 it may start together with them. Only gates that were on      *)
(* physical qubits when they were scheduled are considered.                *)
DependenciesInTime ==
    \A i, j \in DOMAIN node.scheduled :
        LET a == node.scheduled[i]
            b == node.scheduled[j]
        IN  /\ i < j
            /\ a.gate # GeneratedSwap /\ b.gate # GeneratedSwap
            /\ a.physicalTarget # Unmapped /\ b.physicalTarget # Unmapped
            /\ QubitsOf(gates[a.gate]) \cap QubitsOf(gates[b.gate]) # {}
            => IF b.latency = 0 THEN a.cycle <= b.cycle ELSE EndOf(a) <= b.cycle

(* Two-qubit gates and swaps are only scheduled on coupled qubits.         *)
OnCoupledQubits ==
    \A i \in DOMAIN node.scheduled :
        LET e == node.scheduled[i]
        IN  e.physicalControl # Unmapped => Coupled(e.physicalControl, e.physicalTarget)

=============================================================================
