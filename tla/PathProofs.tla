----------------------------- MODULE PathProofs -----------------------------
(***************************************************************************)
(* Theorems about every node of every search, and the result of every      *)
(* final one: they hold for any circuit, coupling graph, latencies and     *)
(* expander.                                                               *)
(***************************************************************************)
EXTENDS PathResult, ScheduleProofs

(* What all environments are.                                              *)
LEMMA EnvironmentFacts ==
    ASSUME NEW e \in Environments
    PROVE  IsEnvironment(e) /\ Len(e.gates) \in Nat
  <1>1. IsEnvironment(e)
    BY PathAssumption
  <1> QED BY <1>1 DEF IsEnvironment

-----------------------------------------------------------------------------

(* Type correctness.                                                       *)

(* scheduleGate is only in progress from cycle 0 on.                       *)
InCycle == pending # <<>> => node.cycle >= 0

(* The inductive invariant for type correctness.                           *)
TypeInv == TypeOK /\ InCycle

(* Initially all variables have their types.                               *)
LEMMA TypeInit == Init => TypeInv
  <1> SUFFICES ASSUME Init PROVE TypeInv
    OBVIOUS
  <1>1. env \in Environments /\ IsEnvironment(env) /\ Len(env.gates) \in Nat
    BY EnvironmentFacts DEF Init
  <1>2. PICK c \in 0..MaxSearchCycles :
           \/ \E layout \in InitialLayouts(env.numLogical) : node = Root(env, layout, c)
           \/ node = Cleared(Root(env, NoLayout, c))
    BY DEF Init
  <1>3. c \in Nat
    BY <1>2, PathAssumption
  <1>4. TypedNode(env, node)
    <2>1. CASE \E layout \in InitialLayouts(env.numLogical) : node = Root(env, layout, c)
      BY <1>1, <1>3, <2>1, PathAssumption, RootTyped
    <2>2. CASE node = Cleared(Root(env, NoLayout, c))
      <3> DEFINE r == Root(env, NoLayout, c)
      <3>1. TypedNode(env, r)
        BY <1>1, <1>3, PathAssumption, RootTyped
      <3>2. NothingMapped \in [Physical -> Place]
        BY DEF NothingMapped, Place
      <3> HIDE DEF r
      <3>3. TypedNode(env, [r EXCEPT !.qal = NothingMapped, !.laq = NothingMapped])
        BY <3>1, <3>2 DEF TypedNode, Nodes
      <3> QED BY <2>2, <3>3 DEF Cleared, r
    <2> QED BY <1>2, <2>1, <2>2
  <1>5. pending = <<>> /\ pending \in Seq(1..Len(env.gates)) /\ offered = {} /\ priced = FALSE
    BY DEF Init
  <1> QED BY <1>1, <1>4, <1>5 DEF TypeInv, TypeOK, InCycle, TypedNode, Gates, gates

(* Every step keeps the types: one case for each action.                   *)
LEMMA TypeStep == TypeInv /\ [Next]_vars => TypeInv'
  <1> SUFFICES ASSUME TypeInv, [Next]_vars
               PROVE  TypeInv'
    OBVIOUS
  <1> DEFINE N == 1..Len(env.gates)
  <1>1. /\ env \in Environments /\ IsEnvironment(env) /\ Len(env.gates) \in Nat
        /\ TypedNode(env, node) /\ node \in Nodes
        /\ pending \in Seq(N) /\ offered \subseteq N /\ priced \in BOOLEAN
        /\ pending # <<>> => node.cycle >= 0
    BY EnvironmentFacts DEF TypeInv, TypeOK, InCycle, TypedNode, Gates, gates
  <1>2. Gates = N /\ gates = env.gates
    BY DEF Gates, gates
  <1>3. SUFFICES /\ env' = env
                 /\ TypedNode(env, node')
                 /\ pending' \in Seq(N) /\ offered' \subseteq N /\ priced' \in BOOLEAN
                 /\ pending' # <<>> => node'.cycle >= 0
    BY <1>1 DEF TypeInv, TypeOK, InCycle, TypedNode, Gates, gates
  <1>4. CASE Expand
    <2>1. node' = PrepChild(node) /\ env' = env /\ pending' = pending
          /\ offered' = node.readyGates /\ priced' = FALSE /\ pending = <<>>
      BY <1>4 DEF Expand, Idle
    <2>2. TypedNode(env, PrepChild(node)) /\ node.readyGates \subseteq N
      BY <1>1, OthersTyped DEF TypedNode
    <2> QED BY <1>1, <2>1, <2>2
  <1>5. ASSUME NEW c \in Couplings, SearchLayout(c)
        PROVE  /\ env' = env /\ TypedNode(env, node') /\ pending' = pending
               /\ offered' = offered /\ priced' = priced /\ pending = <<>>
    <2>1. TypedNode(env, SwapQubits(node, c[2], c[1]))
      BY <1>1, CouplingFacts, OthersTyped
    <2> QED BY <1>5, <2>1 DEF SearchLayout, InExpander, Idle
  <1>6. ASSUME NEW c \in Couplings, CallScheduleSwap(c)
        PROVE  /\ env' = env /\ TypedNode(env, node') /\ pending' = pending
               /\ offered' = offered /\ priced' = priced /\ pending = <<>>
    <2>1. node.cycle >= 0
      BY <1>6 DEF CallScheduleSwap, MayStart
    <2>2. 0 \in 0..Len(env.gates) /\ "swap" \in GateNames
      BY <1>1, NodeAssumption
    <2>3. TypedNode(env, ScheduleSwap(node, 0, "swap", c[1], c[2]))
      BY <1>1, <2>1, <2>2, CouplingFacts, ScheduleSwapTyped
    <2> QED BY <1>6, <2>3 DEF CallScheduleSwap, MayStart, InExpander, Idle, GeneratedSwap
  <1>7. ASSUME NEW g \in N, CallScheduleGate(g)
        PROVE  /\ env' = env /\ TypedNode(env, node') /\ pending' \in Seq(N)
               /\ offered' = offered /\ priced' = priced /\ node'.cycle >= 0
    <2>1. node.cycle >= 0
      BY <1>7 DEF CallScheduleGate, MayStart
    <2>2. TypedNode(env, ScheduleAlone(node, env.gates, g))
          /\ ScheduleAlone(node, env.gates, g).cycle = node.cycle
      BY <1>1, <2>1, ScheduleAloneTyped
    <2>3. Unblocked(node, env.gates, g) \in Seq(N)
      BY <1>1, UnblockedType
    <2>4. node' = ScheduleAlone(node, env.gates, g)
          /\ pending' = Unblocked(node, env.gates, g)
      BY <1>7 DEF CallScheduleGate, BeginSchedule, Call, gates
    <2> QED BY <1>7, <2>1, <2>2, <2>3, <2>4 DEF CallScheduleGate
  <1>8. ASSUME NEW g \in N, CallScheduleCircuitSwap(g)
        PROVE  /\ env' = env /\ TypedNode(env, node') /\ pending' = pending
               /\ offered' = offered /\ priced' = priced /\ pending = <<>>
    <2> DEFINE v == env.gates[g]
    <2>1. node.cycle >= 0 /\ IsSwapName(v.name) /\ IsTwoQubit(v) /\ MayCallScheduleGate(node, v)
          /\ node' = ScheduleSwap(node, g, v.name, v.control, v.target)
          /\ CanStart(node, v.name, v.control, v.target)
          /\ HoldsSomething(node, v.control, v.target)
      BY <1>8 DEF CallScheduleCircuitSwap, MayStart, gates
    <2>2. v.name \in GateNames /\ v.target \in Physical
          /\ (IsTwoQubit(v) => v.control \in Physical)
      BY GateFields, <1>1
    <2>3. v.control \in Physical
      BY <2>1, <2>2
    <2>4. TypedNode(env, ScheduleSwap(node, g, v.name, v.control, v.target))
      <3>1. g \in 0..Len(env.gates)
        OBVIOUS
      <3> HIDE DEF v
      <3> QED BY <1>1, <2>1, <2>2, <2>3, <3>1, ScheduleSwapTyped
    <2> QED BY <1>8, <2>1, <2>4 DEF CallScheduleCircuitSwap, MayStart, InExpander, Idle
  <1>9. ASSUME NEW g \in N, PlaceQubits(g)
        PROVE  /\ env' = env /\ TypedNode(env, node') /\ pending' = pending
               /\ offered' = offered /\ priced' = TRUE /\ pending = <<>>
    <2> DEFINE v == env.gates[g]
    <2>1. PICK pc \in Physical, pt \in Physical :
              node' = PlaceOn(node, v.control, v.target, pc, pt)
      <3> DEFINE Candidates(q) == IF node.laq[q] # Unmapped THEN {node.laq[q]}
                                  ELSE {p \in Physical : node.qal[p] = Unmapped}
      <3>1. \E pc \in Candidates(v.control), pt \in Candidates(v.target) :
                node' = PlaceOn(node, v.control, v.target, pc, pt)
        BY <1>9 DEF PlaceQubits, gates
      <3>2. /\ IsTwoQubit(v) => v.control \in Physical
            /\ v.target \in Physical
        BY <1>1, GateFields
      <3>3. IsTwoQubit(v)
        BY <1>9 DEF PlaceQubits, gates
      <3>4. \A q \in Physical : Candidates(q) \subseteq Physical
        BY <1>1 DEF Nodes, Place, Unmapped
      <3> HIDE DEF Candidates, v
      <3> QED BY <3>1, <3>2, <3>3, <3>4
    <2>2. IsTwoQubit(v)
      BY <1>9 DEF PlaceQubits, gates
    <2>3. TypedNode(env, PlaceOn(node, v.control, v.target, pc, pt))
      BY <1>1, <2>2, OthersTyped
    <2> QED BY <1>9, <2>1, <2>3 DEF PlaceQubits, Idle
  <1>10. CASE VisitPending
    <2>1. pending # <<>> /\ node' = VisitUnblocked(node, env.gates, pending).node
          /\ pending' = VisitUnblocked(node, env.gates, pending).pending
          /\ env' = env /\ offered' = offered /\ priced' = priced
      BY <1>10 DEF VisitPending, Idle, gates
    <2>2. node.cycle >= 0
      BY <1>1, <2>1
    <2>3. /\ TypedNode(env, VisitUnblocked(node, env.gates, pending).node)
          /\ VisitUnblocked(node, env.gates, pending).node.cycle = node.cycle
          /\ VisitUnblocked(node, env.gates, pending).pending \in Seq(N)
      BY <1>1, <2>1, <2>2, VisitTyped
    <2> QED BY <1>1, <2>1, <2>2, <2>3
  <1>11. CASE UNCHANGED vars
    BY <1>1, <1>11 DEF vars
  <1> QED
    BY <1>1, <1>2, <1>4, <1>5, <1>6, <1>7, <1>8, <1>9, <1>10, <1>11 DEF Next

(* All variables keep their types, in every search of every circuit.       *)
THEOREM TypeCorrect == Spec => []TypeOK
  <1>1. TypeInv => TypeOK
    BY DEF TypeInv
  <1> QED BY TypeInit, TypeStep, <1>1, PTL DEF Spec

-----------------------------------------------------------------------------

(* The ways in which a step changes the node.                              *)

(* Every step changes the node in one of these ways.                       *)
LEMMA StepCases == TypeInv /\ [Next]_vars => LegalStep(env, node, node') /\ env' = env
  <1> SUFFICES ASSUME TypeInv, [Next]_vars
               PROVE  LegalStep(env, node, node') /\ env' = env
    OBVIOUS
  <1> DEFINE N == 1..Len(env.gates)
  <1>1. /\ env \in Environments /\ IsEnvironment(env) /\ Len(env.gates) \in Nat
        /\ node \in Nodes /\ pending \in Seq(N)
        /\ pending # <<>> => node.cycle >= 0
    BY EnvironmentFacts DEF TypeInv, TypeOK, InCycle, Gates, gates
  <1>2. Gates = N /\ gates = env.gates
    BY DEF Gates, gates
  <1>3. CASE Expand
    BY <1>3 DEF Expand, LegalStep
  <1>4. ASSUME NEW c \in Couplings, SearchLayout(c)
        PROVE  LegalStep(env, node, node') /\ env' = env
    <2>1. node' = SwapQubits(node, c[2], c[1]) /\ env' = env /\ node.cycle < 0
      BY <1>4 DEF SearchLayout
    <2>2. c[1] \in Physical /\ c[2] \in Physical
      BY CouplingFacts
    <2> QED BY <2>1, <2>2 DEF LegalStep
  <1>5. ASSUME NEW c \in Couplings, CallScheduleSwap(c)
        PROVE  LegalStep(env, node, node') /\ env' = env
    <2>0. Coupled(c[1], c[2])
      BY NodeAssumption DEF Coupled
    <2>1. LegalSwapStep(node, node', 0, "swap", c[1], c[2]) /\ env' = env
      BY <1>5, <2>0 DEF CallScheduleSwap, LegalSwapStep, SwapStep, MayStart, GeneratedSwap, IsSwapName
    <2>2. /\ 0 \in 0..Len(env.gates) /\ "swap" \in GateNames
          /\ c[1] \in Physical /\ c[2] \in Physical
      BY <1>1, NodeAssumption, CouplingFacts
    <2> QED BY <2>1, <2>2 DEF LegalStep
  <1>6. ASSUME NEW g \in N, CallScheduleGate(g)
        PROVE  LegalStep(env, node, node') /\ env' = env
    <2>1. LegalGateStep(env, node, node', g) /\ env' = env
      BY <1>6 DEF CallScheduleGate, MayCallScheduleGate, MayStart, BeginSchedule, Call,
                  gates, LegalGateStep, GateStep
    <2> QED BY <2>1 DEF LegalStep
  <1>7. ASSUME NEW g \in N, CallScheduleCircuitSwap(g)
        PROVE  LegalStep(env, node, node') /\ env' = env
    <2> DEFINE v == env.gates[g]
    <2>1. /\ IsTwoQubit(v) /\ env' = env /\ IsSwapName(v.name)
          /\ LegalSwapStep(node, node', g, v.name, v.control, v.target)
      <3>1. IsSwapName(v.name) /\ IsTwoQubit(v) /\ MayCallScheduleGate(node, v)
        BY <1>7 DEF CallScheduleCircuitSwap, gates
      <3>2. Coupled(v.control, v.target)
        <4> HIDE DEF v
        <4> QED BY <3>1 DEF MayCallScheduleGate, PhysicalControl, PhysicalTarget
      <3> QED BY <1>7, <3>1, <3>2 DEF CallScheduleCircuitSwap, LegalSwapStep, SwapStep, MayStart, gates
    <2>2. v.name \in GateNames /\ v.target \in Physical /\ v.control \in Physical
      BY <1>1, <2>1, GateFields
    <2>3. g \in 0..Len(env.gates)
      OBVIOUS
    <2>4. IsSwapName(env.gates[g].name)
      BY <2>1
    <2> HIDE DEF v
    <2> QED BY <2>1, <2>2, <2>3, <2>4 DEF LegalStep
  <1>8. ASSUME NEW g \in N, PlaceQubits(g)
        PROVE  LegalStep(env, node, node') /\ env' = env
    <2> DEFINE v == env.gates[g]
               Candidates(q) == IF node.laq[q] # Unmapped THEN {node.laq[q]}
                                ELSE {p \in Physical : node.qal[p] = Unmapped}
    <2>1. IsTwoQubit(v) /\ env' = env
      BY <1>8 DEF PlaceQubits, gates
    <2>2. v.control \in Physical /\ v.target \in Physical /\ v.control # v.target
      BY <1>1, <2>1, GateFields DEF IsEnvironment
    <2>6. v.control \in 0..env.numLogical-1 /\ v.target \in 0..env.numLogical-1
      BY <1>1, <2>1, LogicalQubits
    <2>3. PICK pc \in Candidates(v.control), pt \in Candidates(v.target) :
              pc # pt /\ node' = PlaceOn(node, v.control, v.target, pc, pt)
      BY <1>8 DEF PlaceQubits, gates
    <2> HIDE DEF v
    <2>4. \A q \in Physical : \A p \in Candidates(q) : p \in Physical /\ MayPlace(node, q, p)
      BY <1>1 DEF Nodes, Place, Unmapped, MayPlace
    <2> HIDE DEF Candidates
    <2>5. PlaceStep(node, node', v.control, v.target, pc, pt)
      BY <2>2, <2>3, <2>4 DEF PlaceStep
    <2> QED BY <2>1, <2>2, <2>3, <2>4, <2>5, <2>6 DEF LegalStep
  <1>9. CASE VisitPending
    <2> DEFINE c == Head(pending)
    <2>1. /\ pending # <<>> /\ env' = env
          /\ node' = VisitUnblocked(node, env.gates, pending).node
      BY <1>9 DEF VisitPending, Idle, gates
    <2>2. c \in N /\ node.cycle >= 0
      BY <1>1, <2>1
    <2>3. \/ /\ IsPlaceable(MakeReady(node, c), env.gates[c])
             /\ CanStart(MakeReady(node, c), env.gates[c].name,
                         PhysicalControl(MakeReady(node, c), env.gates[c]),
                         PhysicalTarget(MakeReady(node, c), env.gates[c]))
             /\ node' = ScheduleAlone(MakeReady(node, c), env.gates, c)
          \/ node' = MakeReady(node, c)
      BY <2>1, VisitCases
    <2>4. MakeReady(node, c).cycle = node.cycle
      BY <1>1, <2>2, MakeReadyFields
    <2> DEFINE m == MakeReady(node, c)
    <2>6. IsPlaceable(m, env.gates[c]) /\ IsTwoQubit(env.gates[c]) =>
              Coupled(PhysicalControl(m, env.gates[c]), PhysicalTarget(m, env.gates[c]))
      <3>1. IsTwoQubit(env.gates[c]) => env.gates[c].control # -1
        BY DEF IsTwoQubit
      <3> QED BY <3>1 DEF IsPlaceable, PhysicalControl, PhysicalTarget
    <2> HIDE DEF c
    <2>5. LegalGateStep(env, MakeReady(node, c), node', c) \/ node' = MakeReady(node, c)
      BY <2>2, <2>3, <2>4, <2>6 DEF LegalGateStep, GateStep
    <2> QED BY <2>1, <2>2, <2>5 DEF LegalStep
  <1>10. CASE UNCHANGED vars
    BY <1>10 DEF vars, LegalStep
  <1> QED BY <1>2, <1>3, <1>4, <1>5, <1>6, <1>7, <1>8, <1>9, <1>10 DEF Next

(* In particular in one of those that need no coupling.                    *)
LEMMA NodeSteps == TypeInv /\ [Next]_vars => NodeStep(env, node, node') /\ env' = env
  BY StepCases, LegalIsStep

-----------------------------------------------------------------------------

(* No physical qubit is used by two gates at once.                         *)

(* In every schedule that any search reaches, no physical qubit is used by *)
(* two gates at the same time, whatever the latencies, the swaps and the   *)
(* placements. Occupation, which relates the schedule to what the code     *)
(* remembers of it, is the inductive invariant.                            *)
THEOREM NoOverlapCorrect == Spec => []NoOverlap
  <1>1. Init => Occupation(node)
    <2> SUFFICES ASSUME Init PROVE Occupation(node)
      OBVIOUS
    <2>1. \A layout, c : Root(env, layout, c).scheduled = <<>>
      BY DEF Root
    <2>2. \A c : Cleared(Root(env, NoLayout, c)).scheduled = <<>>
      BY DEF Cleared, Root
    <2>3. node.scheduled = <<>>
      BY <2>1, <2>2 DEF Init
    <2> QED BY <2>3 DEF Occupation, HasNoOverlap, LastIsLatest
  <1>2. TypeInv /\ Occupation(node) /\ [Next]_vars => Occupation(node)'
    <2> SUFFICES ASSUME TypeInv, Occupation(node), [Next]_vars
                 PROVE  Occupation(node')
      BY DEF Occupation, HasNoOverlap, LastIsLatest
    <2>1. node \in Nodes /\ IsEnvironment(env)
      BY EnvironmentFacts DEF TypeInv, TypeOK
    <2>2. NodeStep(env, node, node')
      BY NodeSteps
    <2> QED BY <2>1, <2>2, StepOccupation
  <1>3. Occupation(node) => NoOverlap
    BY DEF Occupation, NoOverlap
  <1> QED BY TypeInit, TypeStep, <1>1, <1>2, <1>3, PTL DEF Spec

-----------------------------------------------------------------------------

(* Gates of two qubits and swaps are on coupled qubits.                    *)

(* Every two-qubit gate and every swap in a schedule is on coupled qubits, *)
(* those included that scheduleGate adds in its recursion.                 *)
THEOREM CoupledCorrect == Spec => []OnCoupledQubits
  <1>1. Init => OnCoupling(node.scheduled)
    <2> SUFFICES ASSUME Init PROVE OnCoupling(node.scheduled)
      OBVIOUS
    <2>1. \A layout, c : Root(env, layout, c).scheduled = <<>>
      BY DEF Root
    <2>2. \A c : Cleared(Root(env, NoLayout, c)).scheduled = <<>>
      BY DEF Cleared, Root
    <2>3. node.scheduled = <<>>
      BY <2>1, <2>2 DEF Init
    <2> QED BY <2>3 DEF OnCoupling
  <1>2. TypeInv /\ OnCoupling(node.scheduled) /\ [Next]_vars => OnCoupling(node.scheduled)'
    <2> SUFFICES ASSUME TypeInv, OnCoupling(node.scheduled), [Next]_vars
                 PROVE  OnCoupling(node'.scheduled)
      BY DEF OnCoupling
    <2>1. node \in Nodes /\ IsEnvironment(env)
      BY EnvironmentFacts DEF TypeInv, TypeOK
    <2>2. LegalStep(env, node, node')
      BY StepCases
    <2> QED BY <2>1, <2>2, StepOnCoupling
  <1>3. OnCoupling(node.scheduled) => OnCoupledQubits
    BY DEF OnCoupling, OnCoupledQubits
  <1> QED BY TypeInit, TypeStep, <1>1, <1>2, <1>3, PTL DEF Spec

-----------------------------------------------------------------------------

(* The layout.                                                             *)

(* If run is given complete initial layouts only, qal and laq stay inverse *)
(* to each other in every search. Without that hypothesis they may not be  *)
(* so even at the root: run clears only the beginning of the identity      *)
(* layout before it copies init_qal over it.                               *)
THEOREM LayoutCorrect ==
    ASSUME CompleteLayouts
    PROVE  Spec => []LayoutConsistent
  <1>1. Init => LayoutConsistent
    <2> SUFFICES ASSUME Init PROVE IsLayout(node.qal, node.laq)
      BY DEF LayoutConsistent
    <2>1. env \in Environments /\ env.numLogical \in 0..NumPhysical
      BY EnvironmentFacts DEF Init, IsEnvironment
    <2>2. ASSUME NEW c, NEW layout \in InitialLayouts(env.numLogical),
                 node = Root(env, layout, c)
          PROVE  IsLayout(node.qal, node.laq)
      <3>1. CASE layout = NoLayout
        <4>1. /\ node.qal = IdentityLayout(env.numLogical)
              /\ node.laq = IdentityLayout(env.numLogical)
          BY <2>2, <3>1 DEF Root
        <4> QED BY <2>1, <4>1, IdentityConsistent
      <3>2. CASE layout # NoLayout
        <4>1. node.qal = layout /\ node.laq = LaqOf(layout, env.numLogical)
          BY <2>2, <3>2 DEF Root
        <4>2. IsCompleteLayout(env.numLogical, layout)
          BY <2>1, <2>2, <3>2 DEF CompleteLayouts
        <4> QED BY <2>1, <4>1, <4>2, CompleteConsistent
      <3> QED BY <3>1, <3>2
    <2>3. ASSUME NEW c, node = Cleared(Root(env, NoLayout, c))
          PROVE  IsLayout(node.qal, node.laq)
      <3>1. node.qal = NothingMapped /\ node.laq = NothingMapped
        BY <2>3 DEF Cleared, Root
      <3> QED BY <3>1, NothingConsistent
    <2> QED BY <2>2, <2>3 DEF Init
  <1>2. TypeInv /\ LayoutConsistent /\ [Next]_vars => LayoutConsistent'
    <2> SUFFICES ASSUME TypeInv, LayoutConsistent, [Next]_vars
                 PROVE  IsLayout(node'.qal, node'.laq)
      BY DEF LayoutConsistent, IsLayout
    <2>1. /\ node \in Nodes /\ IsEnvironment(env)
          /\ IsLayout(node.qal, node.laq)
      BY EnvironmentFacts DEF TypeInv, TypeOK, LayoutConsistent
    <2>2. NodeStep(env, node, node')
      BY NodeSteps
    <2> QED BY <2>1, <2>2, StepLayout
  <1> QED BY TypeInit, TypeStep, <1>1, <1>2, PTL DEF Spec

-----------------------------------------------------------------------------

(* The ready gates.                                                        *)

(* The invariant holds at the root.                                        *)
LEMMA ProgressInit == Init => Progress(env, node, pending)
  <1> SUFFICES ASSUME Init PROVE Progress(env, node, pending)
    OBVIOUS
  <1>1. IsEnvironment(env) /\ pending = <<>>
    BY EnvironmentFacts DEF Init
  <1>2. ASSUME NEW c, NEW layout, node = Root(env, layout, c)
        PROVE  /\ node.scheduled = <<>> /\ node.lastNonSwapGate = [q \in Physical |-> Null]
               /\ node.readyGates = env.firstGates
               /\ node.numUnscheduledGates = Len(env.gates)
    BY <1>2 DEF Root
  <1>3. ASSUME NEW c, node = Cleared(Root(env, NoLayout, c))
        PROVE  /\ node.scheduled = <<>> /\ node.lastNonSwapGate = [q \in Physical |-> Null]
               /\ node.readyGates = env.firstGates
               /\ node.numUnscheduledGates = Len(env.gates)
    BY <1>3 DEF Cleared, Root
  <1>4. /\ node.scheduled = <<>> /\ node.lastNonSwapGate = [q \in Physical |-> Null]
        /\ node.readyGates = env.firstGates
        /\ node.numUnscheduledGates = Len(env.gates)
    BY <1>2, <1>3 DEF Init
  <1> QED BY <1>1, <1>4, RootProgress

(* Every step keeps it: one case for each action.                          *)
LEMMA ProgressStep ==
    ASSUME NoCircuitSwaps
    PROVE  TypeInv /\ Progress(env, node, pending) /\ [Next]_vars
              => Progress(env', node', pending')
  <1> SUFFICES ASSUME TypeInv, Progress(env, node, pending), [Next]_vars
               PROVE  Progress(env', node', pending')
    OBVIOUS
  <1> DEFINE N == 1..Len(env.gates)
  <1>1. /\ env \in Environments /\ IsEnvironment(env) /\ Len(env.gates) \in Nat
        /\ node \in Nodes /\ pending \in Seq(N)
        /\ pending # <<>> => node.cycle >= 0
    BY EnvironmentFacts DEF TypeInv, TypeOK, InCycle, Gates, gates
  <1>2. Gates = N /\ gates = env.gates
    BY DEF Gates, gates
  <1>3. CASE Expand
    <2>1. node' = PrepChild(node) /\ env' = env /\ pending' = pending
      BY <1>3 DEF Expand
    <2> QED BY <1>1, <2>1, PrepChildFields, ProgressDependsOn
  <1>4. ASSUME NEW c \in Couplings, SearchLayout(c)
        PROVE  Progress(env', node', pending')
    <2>1. node' = SwapQubits(node, c[2], c[1]) /\ env' = env /\ pending' = pending
      BY <1>4 DEF SearchLayout
    <2>2. c[1] \in Physical /\ c[2] \in Physical
      BY CouplingFacts
    <2>3. /\ node'.scheduled = node.scheduled
          /\ node'.lastNonSwapGate = node.lastNonSwapGate
          /\ node'.readyGates = node.readyGates
          /\ node'.numUnscheduledGates = node.numUnscheduledGates
      BY <1>1, <2>1, <2>2, SwapQubitsFields
    <2> QED BY <2>1, <2>3, ProgressDependsOn
  <1>5. ASSUME NEW c \in Couplings, CallScheduleSwap(c)
        PROVE  Progress(env', node', pending')
    <2> DEFINE sg == ScheduledGate(node, GeneratedSwap, "swap", c[1], c[2])
               r == PushScheduled(node, sg)
    <2>1. node' = SwapQubits(r, c[1], c[2]) /\ env' = env /\ pending' = pending
          /\ node.cycle >= 0
      BY <1>5 DEF CallScheduleSwap, MayStart, ScheduleSwap
    <2>2. c[1] \in Physical /\ c[2] \in Physical
      BY CouplingFacts
    <2>3. sg \in ScheduledGates /\ sg.gate = 0
      <3>1. /\ c[1] \in Place /\ c[2] \in Place
            /\ GeneratedSwap = 0 /\ GeneratedSwap \in Nat /\ "swap" \in GateNames
        BY <2>2, NodeAssumption DEF Place, GeneratedSwap
      <3> QED BY <1>1, <2>1, <3>1, ScheduledGateFields
    <2> HIDE DEF sg
    <2>4. /\ r \in Nodes /\ r.scheduled = Append(node.scheduled, sg)
          /\ r.lastNonSwapGate = node.lastNonSwapGate
          /\ r.readyGates = node.readyGates
          /\ r.numUnscheduledGates = node.numUnscheduledGates
      BY <1>1, <2>3, PushScheduledFields
    <2> HIDE DEF r
    <2>5. /\ node'.scheduled = Append(node.scheduled, sg)
          /\ node'.lastNonSwapGate = node.lastNonSwapGate
          /\ node'.readyGates = node.readyGates
          /\ node'.numUnscheduledGates = node.numUnscheduledGates
      BY <2>1, <2>2, <2>4, SwapQubitsFields
    <2> QED BY <1>1, <2>1, <2>3, <2>5, SwapProgress
  <1>6. ASSUME NEW g \in N, CallScheduleGate(g)
        PROVE  Progress(env', node', pending')
    <2>1. /\ g \in node.readyGates /\ node.cycle >= 0 /\ pending = <<>> /\ env' = env
          /\ node' = ScheduleAlone(node, env.gates, g)
          /\ pending' = Unblocked(node, env.gates, g)
      BY <1>6 DEF CallScheduleGate, MayStart, InExpander, Idle, BeginSchedule, Call, gates
    <2>2. Unblocked(node, env.gates, g) \o <<>> = Unblocked(node, env.gates, g)
      <3>1. Unblocked(node, env.gates, g) \in Seq(N)
        BY <1>1, UnblockedType
      <3> HIDE DEF N
      <3> QED BY <3>1
    <2>3. Progress(env, ScheduleAlone(node, env.gates, g),
                   Unblocked(node, env.gates, g) \o <<>>)
      BY <1>1, <2>1, GateProgress
    <2> QED BY <2>1, <2>2, <2>3
  <1>7. ASSUME NEW g \in N, CallScheduleCircuitSwap(g)
        PROVE  FALSE
    BY <1>1, <1>7 DEF CallScheduleCircuitSwap, NoCircuitSwaps, gates
  <1>8. ASSUME NEW g \in N, PlaceQubits(g)
        PROVE  Progress(env', node', pending')
    <2> DEFINE v == env.gates[g]
    <2>1. PICK pc, pt : node' = PlaceOn(node, v.control, v.target, pc, pt)
      BY <1>8 DEF PlaceQubits, gates
    <2>2. env' = env /\ pending' = pending
      BY <1>8 DEF PlaceQubits
    <2>3. \A q1, q2, p1, p2 :
             /\ PlaceOn(node, q1, q2, p1, p2).scheduled = node.scheduled
             /\ PlaceOn(node, q1, q2, p1, p2).lastNonSwapGate = node.lastNonSwapGate
             /\ PlaceOn(node, q1, q2, p1, p2).readyGates = node.readyGates
             /\ PlaceOn(node, q1, q2, p1, p2).numUnscheduledGates
                  = node.numUnscheduledGates
      BY <1>1 DEF PlaceOn, Nodes
    <2> HIDE DEF v
    <2> QED BY <2>1, <2>2, <2>3, ProgressDependsOn
  <1>9. CASE VisitPending
    <2> DEFINE c == Head(pending)
               m == MakeReady(node, c)
    <2>1. /\ pending # <<>> /\ env' = env
          /\ node' = VisitUnblocked(node, env.gates, pending).node
          /\ pending' = VisitUnblocked(node, env.gates, pending).pending
      BY <1>9 DEF VisitPending, Idle, gates
    <2>2. c \in N /\ c \in Nat /\ Tail(pending) \in Seq(N) /\ node.cycle >= 0
      BY <1>1, <2>1
    <2>3. Progress(env, m, Tail(pending))
      BY <1>1, <2>1, ReadyProgress
    <2>4. m \in Nodes /\ m.cycle >= 0 /\ c \in m.readyGates
      BY <1>1, <2>2, MakeReadyFields
    <2>5. \/ /\ node' = ScheduleAlone(m, env.gates, c)
             /\ pending' = Unblocked(m, env.gates, c) \o Tail(pending)
          \/ node' = m /\ pending' = Tail(pending)
      BY <2>1, VisitCases
    <2> HIDE DEF c, m
    <2>6. Progress(env, ScheduleAlone(m, env.gates, c),
                   Unblocked(m, env.gates, c) \o Tail(pending))
      BY <1>1, <2>2, <2>3, <2>4, GateProgress
    <2> QED BY <2>1, <2>3, <2>5, <2>6
  <1>10. CASE UNCHANGED vars
    BY <1>10 DEF vars
  <1> QED BY <1>2, <1>3, <1>4, <1>5, <1>6, <1>7, <1>8, <1>9, <1>10 DEF Next

(* readyGates, which scheduleGate maintains from the children of the gate  *)
(* it has just scheduled, is the frontier of the dependence graph, for     *)
(* every circuit without a gate called swap.                               *)
THEOREM ReadyCorrect ==
    ASSUME NoCircuitSwaps
    PROVE  Spec => []ReadyIsFrontier
  <1>1. TypeInv /\ Progress(env, node, pending) => ReadyIsFrontier
    <2> SUFFICES ASSUME TypeInv, Progress(env, node, pending)
                 PROVE  ReadyIsFrontier
      OBVIOUS
    <2> DEFINE N == 1..Len(env.gates)
               F == FrontierOf(env.gates, DoneOf(node))
    <2>1. node.readyGates \subseteq N /\ \A i \in DOMAIN pending : pending[i] \in N
      BY DEF TypeInv, TypeOK, Gates, gates
    <2>2. F \subseteq N
      BY DEF FrontierOf
    <2>3. /\ \A i \in DOMAIN pending : pending[i] \notin node.readyGates
          /\ \A c \in N : c \in F <=> c \in node.readyGates
                                        \/ \E i \in DOMAIN pending : pending[i] = c
      BY DEF Progress
    <2>4. Frontier = F
      BY DEF Frontier, Scheduled, DoneOf, gates
    <2> HIDE DEF N, F
    <2>5. node.readyGates \cap Pending = {}
      BY <2>3 DEF Pending
    <2>6. node.readyGates \cup Pending = F
      BY <2>1, <2>2, <2>3 DEF Pending
    <2> QED BY <2>4, <2>5, <2>6 DEF ReadyIsFrontier
  <1>2. TypeInv /\ Progress(env, node, pending) /\ [Next]_vars
           => Progress(env, node, pending)'
    BY ProgressStep
  <1> QED BY TypeInit, TypeStep, ProgressInit, <1>1, <1>2, PTL DEF Spec

(* numUnscheduledGates is the number of gates that are not in the schedule,*)
(* and there are ready gates as long as there are any.                     *)
THEOREM CountCorrect ==
    ASSUME NoCircuitSwaps
    PROVE  Spec => []CountIsExact
  <1>1. TypeInv /\ Progress(env, node, pending) => CountIsExact
    <2> SUFFICES ASSUME TypeInv, Progress(env, node, pending)
                 PROVE  CountIsExact
      OBVIOUS
    <2> DEFINE N == 1..Len(env.gates)
               D == DoneOf(node)
    <2>1. /\ node.numUnscheduledGates = Cardinality(N \ D)
          /\ \A c \in N : c \in FrontierOf(env.gates, D)
                <=> c \in node.readyGates \/ \E i \in DOMAIN pending : pending[i] = c
      BY DEF Progress
    <2>2. Scheduled = D /\ Gates = N
      BY DEF Scheduled, DoneOf, Gates, gates
    <2>3. ASSUME Idle, node.readyGates = {}
          PROVE  node.numUnscheduledGates = 0
      <3>1. DOMAIN pending = {}
        BY <2>3 DEF Idle
      <3>2. FrontierOf(env.gates, D) \subseteq N
        BY DEF FrontierOf
      <3>3. FrontierOf(env.gates, D) = {}
        BY <2>1, <2>3, <3>1, <3>2
      <3>4. IsEnvironment(env)
        BY EnvironmentFacts DEF TypeInv, TypeOK
      <3>5. N \ D = {}
        BY <3>3, <3>4, FrontierNotEmpty
      <3> QED BY <2>1, <3>5, FS_EmptySet
    <2> QED BY <2>1, <2>2, <2>3 DEF CountIsExact
  <1>2. TypeInv /\ Progress(env, node, pending) /\ [Next]_vars
           => Progress(env, node, pending)'
    BY ProgressStep
  <1> QED BY TypeInit, TypeStep, ProgressInit, <1>1, <1>2, PTL DEF Spec

-----------------------------------------------------------------------------

(* The time between gates that depend on each other.                       *)

(* The invariant holds at the root.                                        *)
LEMMA TimingInit == Init => Timing(env, node)
  <1> SUFFICES ASSUME Init PROVE Timing(env, node)
    OBVIOUS
  <1>1. \A layout, c : Root(env, layout, c).scheduled = <<>>
    BY DEF Root
  <1>2. \A c : Cleared(Root(env, NoLayout, c)).scheduled = <<>>
    BY DEF Cleared, Root
  <1>3. node.scheduled = <<>>
    BY <1>1, <1>2 DEF Init
  <1> QED BY <1>3 DEF Timing, NotLater, AllRemembered, AllInTime

(* Every step of a path keeps it.                                          *)
LEMMA TimingNext ==
    ASSUME NoCircuitSwaps
    PROVE  TypeInv /\ LayoutConsistent /\ Timing(env, node) /\ [Next]_vars
              => Timing(env', node')
  <1> SUFFICES ASSUME TypeInv, LayoutConsistent, Timing(env, node), [Next]_vars
               PROVE  Timing(env', node')
    OBVIOUS
  <1>1. /\ node \in Nodes /\ IsEnvironment(env) /\ IsLayout(node.qal, node.laq)
        /\ env \in Environments
    BY EnvironmentFacts DEF TypeInv, TypeOK, LayoutConsistent
  <1>2. LegalStep(env, node, node') /\ env' = env
    BY StepCases
  <1>3. \A g \in 1..Len(env.gates) : ~IsSwapName(env.gates[g].name)
    BY <1>1 DEF NoCircuitSwaps
  <1>4. Timing(env, node')
    BY <1>1, <1>2, <1>3, StepTiming
  <1> QED BY <1>2, <1>4

(* Every gate of the circuit starts only after the gates it depends on,    *)
(* wherever swaps have moved their common qubit in between, if run is      *)
(* given complete initial layouts and no gate of the circuit is a swap.    *)
THEOREM DependenciesCorrect ==
    ASSUME CompleteLayouts, NoCircuitSwaps
    PROVE  Spec => []DependenciesInTime
  <1>1. TypeInv /\ LayoutConsistent /\ Timing(env, node) /\ [Next]_vars
           => Timing(env, node)'
    BY TimingNext
  <1>2. TypeInv /\ Timing(env, node) => DependenciesInTime
    <2> SUFFICES ASSUME AllInTime(env, node.scheduled)
                 PROVE  DependenciesInTime
      BY DEF Timing
    <2> QED BY DEF AllInTime, OfCircuit, InTime, DependenciesInTime, gates
  <1>3. Spec => []LayoutConsistent
    BY LayoutCorrect
  <1> QED BY TypeInit, TypeStep, TimingInit, <1>1, <1>2, <1>3, PTL DEF Spec

-----------------------------------------------------------------------------

(* The order of the gates.                                                 *)

(* A step keeps the schedule in order.                                     *)
LEMMA OrderStep ==
    ASSUME NoCircuitSwaps
    PROVE  /\ TypeInv /\ Progress(env, node, pending) /\ KeepsOrder(env, node.scheduled)
           /\ [Next]_vars
           => KeepsOrder(env', node'.scheduled)
  <1> SUFFICES ASSUME TypeInv, Progress(env, node, pending),
                      KeepsOrder(env, node.scheduled), [Next]_vars
               PROVE  KeepsOrder(env', node'.scheduled)
    OBVIOUS
  <1>1. IsEnvironment(env) /\ node \in Nodes /\ HasNoSwapGates(env)
    BY EnvironmentFacts DEF TypeInv, TypeOK, NoCircuitSwaps, HasNoSwapGates
  <1>2. NodeStep(env, node, node') /\ env' = env
    BY NodeSteps
  <1>3. Progress(env, node', pending')
    BY <1>2, ProgressStep
  <1>4. CASE node'.scheduled = node.scheduled
    BY <1>2, <1>4
  <1>5. ASSUME NEW sg, Appends(env, node, node', sg)
        PROVE  KeepsOrder(env', node'.scheduled)
    <2>1. sg.gate # GeneratedSwap => sg.gate \in FrontierOf(env.gates, DoneOf(node))
      BY <1>1, <1>3, <1>5, AppendsFromFrontier
    <2> QED BY <1>1, <1>2, <1>5, <2>1, AppendInOrder
  <1>6. node'.scheduled = node.scheduled \/ \E sg : Appends(env, node, node', sg)
    BY <1>1, <1>2, StepAppends
  <1> QED BY <1>4, <1>5, <1>6

-----------------------------------------------------------------------------

(* The layouts that the search had before each entry of the schedule.      *)

(* The root has a history.                                                 *)
LEMMA RootRemembers ==
    ASSUME CompleteLayouts
    PROVE  Init => Remembers(env, node)
  <1> SUFFICES ASSUME Init PROVE Remembers(env, node)
    OBVIOUS
  <1>1. /\ env \in Environments /\ IsEnvironment(env)
        /\ env.numLogical \in 0..NumPhysical /\ NumPhysical \in Nat
    BY EnvironmentFacts, NodeAssumption DEF Init, IsEnvironment
  <1>2. node \in Nodes
    BY TypeInit DEF TypeInv, TypeOK
  <1>3. ASSUME NEW c, NEW layout \in InitialLayouts(env.numLogical),
               node = Root(env, layout, c)
        PROVE  node.scheduled = <<>> /\ IsOfCircuit(env, node.qal)
    <2>1. node.scheduled = <<>>
      BY <1>3 DEF Root
    <2>2. CASE layout = NoLayout
      <3>1. node.qal = IdentityLayout(env.numLogical)
        BY <1>3, <2>2 DEF Root
      <3>2. \A x \in Physical : x \in Nat
        BY <1>1 DEF Physical
      <3> QED BY <1>1, <2>1, <3>1, <3>2 DEF IdentityLayout, IsOfCircuit, Unmapped
    <2>3. CASE layout # NoLayout
      <3>1. node.qal = layout
        BY <1>3, <2>3 DEF Root
      <3>2. IsCompleteLayout(env.numLogical, layout)
        BY <1>1, <1>3, <2>3 DEF CompleteLayouts
      <3> QED BY <2>1, <3>1, <3>2 DEF IsCompleteLayout, IsOfCircuit
    <2> QED BY <2>2, <2>3
  <1>4. ASSUME NEW c, node = Cleared(Root(env, NoLayout, c))
        PROVE  node.scheduled = <<>> /\ IsOfCircuit(env, node.qal)
    <2>1. node.qal = NothingMapped /\ node.scheduled = <<>>
      BY <1>4 DEF Cleared, Root
    <2>2. -1 \in -1..env.numLogical-1
      BY <1>1
    <2> QED BY <2>1, <2>2 DEF NothingMapped, IsOfCircuit, Unmapped
  <1>5. node.scheduled = <<>> /\ IsOfCircuit(env, node.qal)
    BY <1>3, <1>4 DEF Init
  <1> QED BY <1>2, <1>5, EmptyRemembers

-----------------------------------------------------------------------------

(* The theorems.                                                           *)

(* The inductive invariant of a path for its result, and what it gives at  *)
(* the end.                                                                *)
ResultInv ==
    /\ TypeInv /\ LayoutConsistent
    /\ Progress(env, node, pending)
    /\ Timing(env, node)
    /\ KeepsOrder(env, node.scheduled)
    /\ Remembers(env, node)

(* It holds at the root,                                                   *)
LEMMA ResultInit ==
    ASSUME CompleteLayouts
    PROVE  Init /\ LayoutConsistent => ResultInv
  <1> SUFFICES ASSUME Init, LayoutConsistent PROVE ResultInv
    OBVIOUS
  <1>1. \A layout, c : Root(env, layout, c).scheduled = <<>>
    BY DEF Root
  <1>2. \A c : Cleared(Root(env, NoLayout, c)).scheduled = <<>>
    BY DEF Cleared, Root
  <1>3. node.scheduled = <<>>
    BY <1>1, <1>2 DEF Init
  <1>4. KeepsOrder(env, node.scheduled)
    BY <1>3 DEF KeepsOrder
  <1> QED BY <1>4, TypeInit, ProgressInit, TimingInit, RootRemembers DEF ResultInv

(* and every step keeps it.                                                *)
LEMMA ResultStep ==
    ASSUME NoCircuitSwaps
    PROVE  ResultInv /\ [Next]_vars /\ LayoutConsistent' => ResultInv'
  <1> SUFFICES ASSUME ResultInv, [Next]_vars, LayoutConsistent'
               PROVE  ResultInv'
    OBVIOUS
  <1>1. /\ TypeInv /\ LayoutConsistent /\ Progress(env, node, pending)
        /\ Timing(env, node) /\ KeepsOrder(env, node.scheduled) /\ Remembers(env, node)
    BY DEF ResultInv
  <1>2. TypeInv'
    BY <1>1, TypeStep
  <1>3. Progress(env', node', pending')
    BY <1>1, ProgressStep
  <1>4. Timing(env', node')
    BY <1>1, TimingNext
  <1>5. KeepsOrder(env', node'.scheduled)
    BY <1>1, OrderStep
  <1>6. Remembers(env', node')
    <2>1. /\ IsEnvironment(env) /\ node \in Nodes /\ HasNoSwapGates(env)
          /\ IsLayout(node.qal, node.laq)
      BY <1>1, EnvironmentFacts
         DEF TypeInv, TypeOK, NoCircuitSwaps, HasNoSwapGates, LayoutConsistent
    <2>2. LegalStep(env, node, node') /\ env' = env
      BY <1>1, StepCases
    <2> QED BY <1>1, <2>1, <2>2, StepRemembers
  <1>7. Progress(env, node, pending)' /\ Timing(env, node)'
        /\ KeepsOrder(env, node.scheduled)' /\ Remembers(env, node)'
    BY <1>3, <1>4, <1>5, <1>6
  <1> QED BY <1>2, <1>7 DEF ResultInv

(* In a final node it gives the three properties of the result.            *)
LEMMA ResultAtEnd ==
    ASSUME NoCircuitSwaps
    PROVE  ResultInv => ReplayIsFaithful /\ InferredLayoutIsComplete /\ OrderIsPreserved
  <1> SUFFICES ASSUME ResultInv, IsFinal
               PROVE  /\ IsFaithful(gates, PathResult) /\ IsComplete(gates, PathResult)
                      /\ IsInOrder(gates, PathResult)
    BY DEF ReplayIsFaithful, InferredLayoutIsComplete, OrderIsPreserved
  <1>1. /\ IsEnvironment(env) /\ node \in Nodes /\ HasNoSwapGates(env)
        /\ IsLayout(node.qal, node.laq) /\ Timing(env, node)
        /\ Remembers(env, node) /\ KeepsOrder(env, node.scheduled)
    BY EnvironmentFacts
       DEF ResultInv, TypeInv, TypeOK, NoCircuitSwaps, HasNoSwapGates, LayoutConsistent
  <1>2. PICK walk : /\ Walks(env, node, walk) /\ Known(env, node, walk)
                    /\ ResultOf(node, env.gates) = ResultOfWalk(node, walk)
    BY <1>1, KnownResult
  <1>3. \A g \in 1..Len(env.gates) : \E i \in DOMAIN node.scheduled :
            node.scheduled[i].gate = g
    <2>1. Progress(env, node, <<>>) /\ node.readyGates = {}
      BY DEF ResultInv, IsFinal, Idle
    <2> QED BY <1>1, <2>1, AllScheduled
  <1>4. PathResult = ResultOfWalk(node, walk) /\ gates = env.gates
    BY <1>2 DEF PathResult, gates
  <1>5. IsFaithful(env.gates, ResultOfWalk(node, walk))
    BY <1>1, <1>2, FaithfulResult
  <1>6. IsComplete(env.gates, ResultOfWalk(node, walk))
    BY <1>1, <1>2, <1>3, CompleteResult
  <1>7. IsInOrder(env.gates, ResultOfWalk(node, walk))
    BY <1>1, <1>2, <1>3, OrderedResult
  <1> QED BY <1>4, <1>5, <1>6, <1>7

(* The invariant holds of every path.                                      *)
LEMMA ResultInvariant ==
    ASSUME CompleteLayouts, NoCircuitSwaps
    PROVE  Spec => []ResultInv
  <1>1. Init /\ LayoutConsistent => ResultInv
    BY ResultInit
  <1>2. ResultInv /\ [Next]_vars /\ LayoutConsistent' => ResultInv'
    BY ResultStep
  <1>3. Spec => []LayoutConsistent
    BY LayoutCorrect
  <1> QED BY <1>1, <1>2, <1>3, PTL DEF Spec

(* The backward walk of run inverts every search: replayed from the layout *)
(* that the walk infers, every gate of the result finds its logical qubits *)
(* on its physical ones, although qubits were placed in between and gates  *)
(* of one qubit had no place when they were scheduled.                     *)
THEOREM ReplayCorrect ==
    ASSUME CompleteLayouts, NoCircuitSwaps
    PROVE  Spec => []ReplayIsFaithful
  <1>1. Spec => []ResultInv
    BY ResultInvariant
  <1>2. ResultInv => ReplayIsFaithful
    BY ResultAtEnd
  <1> QED BY <1>1, <1>2, PTL

(* The inferred layout has a place for each qubit the circuit uses: the    *)
(* walk never runs out of free physical qubits.                            *)
THEOREM LayoutComplete ==
    ASSUME CompleteLayouts, NoCircuitSwaps
    PROVE  Spec => []InferredLayoutIsComplete
  <1>1. Spec => []ResultInv
    BY ResultInvariant
  <1>2. ResultInv => InferredLayoutIsComplete
    BY ResultAtEnd
  <1> QED BY <1>1, <1>2, PTL

(* The result has every gate of the circuit once, and the gates on each    *)
(* qubit in their order.                                                   *)
THEOREM OrderCorrect ==
    ASSUME CompleteLayouts, NoCircuitSwaps
    PROVE  Spec => []OrderIsPreserved
  <1>1. Spec => []ResultInv
    BY ResultInvariant
  <1>2. ResultInv => OrderIsPreserved
    BY ResultAtEnd
  <1> QED BY <1>1, <1>2, PTL

=============================================================================
