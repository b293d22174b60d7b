------------------------------ MODULE Latencies ------------------------------
(***************************************************************************)
(* class Table: a Latency that is built from a list of descriptions        *)
(* (buildTable) and answers getLatency.                                    *)
(*                                                                         *)
(* The list is an input: each step takes another description from it, and  *)
(* it may end at any state that is not rejected. numQubits, type, control, *)
(* target and latency are the fields of a description; -1 stands for no    *)
(* qubit, and the empty type for every gate.                               *)
(***************************************************************************)
EXTENDS Integers, FiniteSets

CONSTANTS Descriptions,     \* the LatencyDescriptions a list may contain
          MaxEntries        \* bound of the accepted descriptions of a list

VARIABLES latencies,            \* latencies of keys: type and all qubits
          optimisticLatencies,  \* best latencies of types and numbers of qubits
          rejected              \* buildTable has thrown

vars == <<latencies, optimisticLatencies, rejected>>

(* The fields of a LatencyDescription.                                     *)
ASSUME LatenciesAssumption ==
    /\ Descriptions \subseteq [type : STRING, numQubits : Nat, target : Int,
                               control : Int, latency : Int]
    /\ MaxEntries \in Nat

AnyGate == ""           \* the type of a description for all gates

Key(type, numQubits, target, control) == <<type, numQubits, target, control>>
KeyOf(e) == Key(e.type, e.numQubits, e.target, e.control)
OptimisticKeyOf(e) == <<e.type, e.numQubits>>

(* A map with one more entry, or another value for one.                    *)
With(map, key, value) ==
    [k \in DOMAIN map \cup {key} |-> IF k = key THEN value ELSE map[k]]

-----------------------------------------------------------------------------
(* parseLatencyTable, one row of the file at a time. A row has the five    *)
(* columns of its comment, with -1 for a dash in the last three.           *)

IsOptimistic(row) == row.control < 0 /\ row.target < 0

(* What the code asserts of a row.                                         *)
IsReadable(row) ==
    IF IsOptimistic(row) THEN row.numBits > 0 ELSE row.gateName # "-" /\ row.target # -1

(* The number of qubits in the row only counts if it names none.           *)
DescriptionOf(row) ==
    [type |-> IF row.gateName = "-" THEN AnyGate ELSE row.gateName,
     numQubits |-> IF IsOptimistic(row) THEN row.numBits ELSE IF row.control >= 0 THEN 2 ELSE 1,
     target |-> row.target, control |-> row.control, latency |-> row.latency]

-----------------------------------------------------------------------------
Init ==
    /\ latencies = [k \in {} |-> 0]
    /\ optimisticLatencies = [k \in {} |-> 0]
    /\ rejected = FALSE

-----------------------------------------------------------------------------
(* buildTable, one description at a time.                                  *)

(* One qubit is named and the other is not.                                *)
IsPartiallySpecified(e) ==
    e.numQubits >= 2 /\ (e.target = -1 \/ e.control = -1) /\ e.target # e.control

FaultyIsRefused(e) ==                       \* forgets to check the latency
    IsPartiallySpecified(e) \/ KeyOf(e) \in DOMAIN latencies

(* fail: a description that no table may contain, or a second one of a key.*)
IsRefused(e) ==
    \/ e.latency < 0
    \/ IsPartiallySpecified(e)
    \/ e.type \in {"swap", "SWAP"} /\ e.latency = 0
    \/ KeyOf(e) \in DOMAIN latencies

FaultyIsBetter(e) ==                        \* keeps the worst case
    OptimisticKeyOf(e) \notin DOMAIN optimisticLatencies
        \/ optimisticLatencies[OptimisticKeyOf(e)] < e.latency

(* The first latency of its type and number of qubits, or a better one.    *)
IsBetter(e) ==
    OptimisticKeyOf(e) \notin DOMAIN optimisticLatencies
        \/ optimisticLatencies[OptimisticKeyOf(e)] > e.latency

Refuse(e) ==
    /\ IsRefused(e)
    /\ rejected' = TRUE
    /\ UNCHANGED <<latencies, optimisticLatencies>>

Enter(e) ==
    /\ ~IsRefused(e)
    /\ Cardinality(DOMAIN latencies) < MaxEntries
    /\ latencies' = With(latencies, KeyOf(e), e.latency)
    /\ optimisticLatencies' =
           IF e.type # AnyGate /\ IsBetter(e)
           THEN With(optimisticLatencies, OptimisticKeyOf(e), e.latency)
           ELSE optimisticLatencies
    /\ UNCHANGED rejected

Next == ~rejected /\ \E e \in Descriptions : Refuse(e) \/ Enter(e)

Spec == Init /\ [][Next]_vars

-----------------------------------------------------------------------------
(* getLatency.                                                             *)

NoLatency == -1         \* where getLatency throws

(* The first of the keys that the table has an entry for.                  *)
FirstOf(keys) ==
    LET found == {i \in DOMAIN keys : keys[i] \in DOMAIN latencies}
    IN  IF found = {} THEN NoLatency
        ELSE latencies[keys[CHOOSE i \in found : \A j \in found : i <= j]]

(* The gate on these qubits, the gate, all gates of as many qubits.        *)
Matching(name, numQubits, target, control) ==
    FirstOf(<<Key(name, numQubits, target, control),
              Key(name, numQubits, -1, -1), Key(AnyGate, numQubits, -1, -1)>>)

FaultyGetLatency(name, numQubits, target, control) ==  \* no best case
    Matching(name, numQubits, target, control)

(* Without places for its qubits, a gate takes as long as in the best case.*)
GetLatency(name, numQubits, target, control) ==
    IF numQubits > 0 /\ target < 0 /\ control < 0
           /\ <<name, numQubits>> \in DOMAIN optimisticLatencies
    THEN optimisticLatencies[<<name, numQubits>>]
    ELSE Matching(name, numQubits, target, control)

-----------------------------------------------------------------------------
(* The types of both maps are those of getLatency: latencies are never     *)
(* negative, so NoLatency is none.                                         *)
TypeOK ==
    /\ latencies \in [DOMAIN latencies -> Nat]
    /\ DOMAIN latencies \subseteq STRING \X Nat \X Int \X Int
    /\ optimisticLatencies \in [DOMAIN optimisticLatencies -> Nat]
    /\ rejected \in BOOLEAN

(* Whatever the order of the entries, optimisticLatencies holds the least  *)
(* latency of all entries of a type with as many qubits, and nothing else  *)
(* ("record best-case latency for this gate", Table.hpp:127-138).          *)
OptimisticIsLeast ==
    /\ \A best \in DOMAIN optimisticLatencies : \E k \in DOMAIN latencies :
          k[1] # AnyGate /\ best = <<k[1], k[2]>> /\ optimisticLatencies[best] = latencies[k]
    /\ \A k \in DOMAIN latencies : k[1] # AnyGate =>
          /\ <<k[1], k[2]>> \in DOMAIN optimisticLatencies
          /\ optimisticLatencies[<<k[1], k[2]>>] <= latencies[k]

(* Each entry with qubits for some gate comes with an entry for that gate  *)
(* without qubits, as the comment of the class asks (Table.hpp:43-45).     *)
HasDefaults ==
    \A k \in DOMAIN latencies : k[1] # AnyGate => Key(k[1], k[2], -1, -1) \in DOMAIN latencies

(* In a table with default entries, what getLatency answers for a gate     *)
(* without places is no more than what it answers for any places ("so that *)
(* our a* search will still work okay", Table.hpp:149), which the lower    *)
(* bounds of the cost functions rely on.                                   *)
BestCaseIsBest ==
    HasDefaults =>
        \A e \in Descriptions, f \in Descriptions :
            e.type # AnyGate /\ e.numQubits > 0 =>
                GetLatency(e.type, e.numQubits, -1, -1)
                    <= GetLatency(e.type, e.numQubits, f.target, f.control)

=============================================================================
