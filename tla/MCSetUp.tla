------------------------------ MODULE MCSetUp ------------------------------
(* Many circuits on one device, and a few circuits on many devices.        *)
EXTENDS SetUp, FiniteSetsExt

MCLatency == [u |-> 1, cx |-> 2, swap |-> 3]

MCQubits == 0..2
OneQubitOps == {[name |-> "u", control |-> -1, target |-> t] : t \in MCQubits}
TwoQubitOps == {[name |-> "cx", control |-> c, target |-> t] : c, t \in MCQubits}
Ops == OneQubitOps \cup TwoQubitOps
ProperOps == {op \in Ops : op.control # op.target}
CX(c, t) == [name |-> "cx", control |-> c, target |-> t]

(* Every gate list of at most three gates over three qubits, and the lists *)
(* of four gates that begin with a two-qubit gate on qubits 0 and 1, with  *)
(* one-qubit gates of latency 1 and two-qubit gates of latency 2.          *)
Circuits ==
    {<<>>} \cup (UNION {[1..n -> Ops] : n \in 1..2})
    \cup [1..3 -> ProperOps]
    \cup {<<CX(0, 1)>> \o p : p \in [1..3 -> ProperOps]}

(* The devices of five qubits with four couplings, among them all trees,   *)
(* and a ring; one coupling for two neighbours, in the direction from the  *)
(* higher number; and smaller ones.                                        *)
Devices ==
    {[numPhysicalQubits |-> 5, edges |-> c] :
        c \in kSubset(4, {p \in PairsOf(5) : p[1] > p[2]})
              \cup {{<<2, 0>>, <<4, 2>>, <<4, 1>>, <<3, 1>>, <<3, 0>>}}}
Device3 == [numPhysicalQubits |-> 3, edges |-> {<<0, 1>>, <<2, 1>>}]
SmallDevices ==
    {[numPhysicalQubits |-> 2, edges |-> {<<0, 1>>}],
     [numPhysicalQubits |-> 1, edges |-> {}],
     Device3}

MCRuns ==
    [gates : Circuits, couplingMap : {Device3}, initialSearchCycles : {0}]
    \cup [gates : {<<CX(0, 1)>>}, couplingMap : Devices, initialSearchCycles : {-1}]
    \cup [gates : {<<>>, <<CX(0, 2)>>}, couplingMap : SmallDevices,
          initialSearchCycles : {-1}]

MCPrograms == {r.gates : r \in MCRuns}
MCCouplingMaps == {r.couplingMap : r \in MCRuns}
=============================================================================
