--------------------------- MODULE LatenciesProofs ---------------------------
(***************************************************************************)
(* For every list of descriptions, however long: the best cases that Table *)
(* keeps are the least latencies of its entries, and getLatency is         *)
(* optimistic for gates whose qubits have no places yet.                   *)
(***************************************************************************)
EXTENDS Latencies, TLAPS

(* Nothing but the new key is changed in a map.                            *)
LEMMA WithProperties ==
    ASSUME NEW map, NEW key, NEW value
    PROVE  /\ DOMAIN With(map, key, value) = DOMAIN map \cup {key}
           /\ With(map, key, value)[key] = value
           /\ \A k \in DOMAIN map : k # key => With(map, key, value)[k] = map[k]
BY DEF With

(* A map into S stays one.                                                 *)
LEMMA WithType ==
    ASSUME NEW S, NEW map, map \in [DOMAIN map -> S], NEW key, NEW value \in S
    PROVE  With(map, key, value) \in [DOMAIN With(map, key, value) -> S]
BY DEF With

-----------------------------------------------------------------------------
(* The initial maps are empty.                                             *)
LEMMA InitType == Init => TypeOK
BY DEF Init, TypeOK

(* What buildTable has checked before it records an entry.                 *)
LEMMA AcceptedDescription ==
    ASSUME NEW e \in Descriptions, Enter(e)
    PROVE  /\ e.latency \in Nat
           /\ KeyOf(e) \in STRING \X Nat \X Int \X Int
           /\ KeyOf(e) \notin DOMAIN latencies
<1>1. ~IsRefused(e)
    BY Zenon DEF Enter
<1>2. ~(e.latency < 0) /\ KeyOf(e) \notin DOMAIN latencies
    BY <1>1, Zenon DEF IsRefused
<1>3. e.latency \in Nat
    BY <1>2, LatenciesAssumption
<1>4. KeyOf(e) \in STRING \X Nat \X Int \X Int
    BY LatenciesAssumption DEF KeyOf, Key
<1>5. QED
    BY <1>2, <1>3, <1>4

(* An entry has been checked not to be negative before it is recorded.     *)
LEMMA NextType == TypeOK /\ [Next]_vars => TypeOK'
<1> SUFFICES ASSUME TypeOK, [Next]_vars PROVE TypeOK'
    OBVIOUS
<1>1. CASE UNCHANGED vars
    BY <1>1 DEF TypeOK, vars
<1>2. ASSUME NEW e \in Descriptions, Refuse(e) PROVE TypeOK'
    BY <1>2 DEF TypeOK, Refuse
<1>3. ASSUME NEW e \in Descriptions, Enter(e) PROVE TypeOK'
    <2>1. /\ e.latency \in Nat
          /\ KeyOf(e) \in STRING \X Nat \X Int \X Int
        BY <1>3, AcceptedDescription
    <2>2. /\ latencies' = With(latencies, KeyOf(e), e.latency)
          /\ optimisticLatencies' \in {optimisticLatencies,
                 With(optimisticLatencies, OptimisticKeyOf(e), e.latency)}
          /\ rejected' = rejected
        BY <1>3 DEF Enter
    <2>3. /\ latencies \in [DOMAIN latencies -> Nat]
          /\ DOMAIN latencies \subseteq STRING \X Nat \X Int \X Int
          /\ optimisticLatencies \in [DOMAIN optimisticLatencies -> Nat]
          /\ rejected \in BOOLEAN
        BY DEF TypeOK
    <2>4. latencies' \in [DOMAIN latencies' -> Nat]
        BY <2>1, <2>2, <2>3, WithType
    <2>5. DOMAIN latencies' = DOMAIN latencies \cup {KeyOf(e)}
        BY <2>2 DEF With
    <2>6. With(optimisticLatencies, OptimisticKeyOf(e), e.latency)
              \in [DOMAIN With(optimisticLatencies, OptimisticKeyOf(e), e.latency) -> Nat]
        BY <2>1, <2>3, WithType
    <2>7. QED
        <3>1. optimisticLatencies' \in [DOMAIN optimisticLatencies' -> Nat]
            BY <2>2, <2>3, <2>6
        <3>2. DOMAIN latencies' \subseteq STRING \X Nat \X Int \X Int
            BY <2>1, <2>3, <2>5
        <3>3. QED
            BY <2>2, <2>3, <2>4, <3>1, <3>2 DEF TypeOK
<1>4. QED
    BY <1>1, <1>2, <1>3 DEF Next

(* A table never holds a negative latency, the value that stands for none. *)
THEOREM LatenciesTypeCorrect == Spec => []TypeOK
BY InitType, NextType, PTL DEF Spec

-----------------------------------------------------------------------------
(* What optimisticLatencies (O) is to latencies (L).                       *)
IsLeast(L, O) ==
    /\ \A best \in DOMAIN O : \E k \in DOMAIN L :
          k[1] # AnyGate /\ best = <<k[1], k[2]>> /\ O[best] = L[k]
    /\ \A k \in DOMAIN L : k[1] # AnyGate =>
          <<k[1], k[2]>> \in DOMAIN O /\ O[<<k[1], k[2]>>] <= L[k]

(* A new entry that is not the best of its type leaves a better one as the *)
(* best case; a better one replaces it, and is the least of them all.      *)
LEMMA NewEntry ==
    ASSUME NEW L, L \in [DOMAIN L -> Nat], NEW O, O \in [DOMAIN O -> Nat],
           IsLeast(L, O), NEW key, key \notin DOMAIN L, NEW new \in Nat,
           NEW M, M = With(L, key, new), NEW gate, gate = <<key[1], key[2]>>
    PROVE  /\ key[1] = AnyGate => IsLeast(M, O)
           /\ key[1] # AnyGate /\ gate \in DOMAIN O /\ O[gate] <= new => IsLeast(M, O)
           /\ key[1] # AnyGate /\ ~(gate \in DOMAIN O /\ O[gate] <= new)
                  => IsLeast(M, With(O, gate, new))
<1>1. /\ DOMAIN M = DOMAIN L \cup {key}
      /\ M[key] = new
      /\ \A k \in DOMAIN L : M[k] = L[k]
    BY DEF With
<1>2. ASSUME NEW best \in DOMAIN O
      PROVE  \E k \in DOMAIN M : k[1] # AnyGate /\ best = <<k[1], k[2]>> /\ O[best] = M[k]
    <2>1. PICK k \in DOMAIN L : k[1] # AnyGate /\ best = <<k[1], k[2]>> /\ O[best] = L[k]
        BY DEF IsLeast
    <2>2. k \in DOMAIN M /\ M[k] = L[k]
        BY <1>1
    <2>3. QED
        BY <2>1, <2>2
<1>3. CASE key[1] = AnyGate
    <2>1. ASSUME NEW best \in DOMAIN O
          PROVE  \E k \in DOMAIN M : k[1] # AnyGate /\ best = <<k[1], k[2]>> /\ O[best] = M[k]
        BY <1>2
    <2>2. \A k \in DOMAIN M : k[1] # AnyGate => k \in DOMAIN L /\ M[k] = L[k]
        BY <1>1, <1>3
    <2>3. QED
        BY <1>3, <2>1, <2>2 DEF IsLeast
<1>4. CASE key[1] # AnyGate /\ gate \in DOMAIN O /\ O[gate] <= new
    <2>1. ASSUME NEW best \in DOMAIN O
          PROVE  \E k \in DOMAIN M : k[1] # AnyGate /\ best = <<k[1], k[2]>> /\ O[best] = M[k]
        BY <1>2
    <2>2. ASSUME NEW k \in DOMAIN M, k[1] # AnyGate
          PROVE  <<k[1], k[2]>> \in DOMAIN O /\ O[<<k[1], k[2]>>] <= M[k]
        <3>1. CASE k = key
            BY <1>1, <1>4, <3>1
        <3>2. CASE k \in DOMAIN L
            BY <1>1, <2>2, <3>2 DEF IsLeast
        <3>3. QED
            BY <1>1, <3>1, <3>2
    <2>3. QED
        BY <1>4, <2>1, <2>2 DEF IsLeast
<1>5. CASE key[1] # AnyGate /\ ~(gate \in DOMAIN O /\ O[gate] <= new)
    <2> DEFINE P == With(O, gate, new)
    <2>1. /\ DOMAIN P = DOMAIN O \cup {gate}
          /\ P[gate] = new
          /\ \A g \in DOMAIN O : g # gate => P[g] = O[g]
        BY DEF With
    <2> HIDE DEF P
    <2>2. ASSUME NEW best \in DOMAIN P
          PROVE  \E k \in DOMAIN M : k[1] # AnyGate /\ best = <<k[1], k[2]>> /\ P[best] = M[k]
        <3>1. CASE best = gate
            BY <1>1, <1>5, <2>1, <3>1
        <3>2. CASE best # gate
            <4>1. best \in DOMAIN O /\ P[best] = O[best]
                BY <2>1, <3>2
            <4>2. QED
                BY <1>2, <4>1
        <3>3. QED
            BY <3>1, <3>2
    <2>3. ASSUME NEW k \in DOMAIN M, k[1] # AnyGate
          PROVE  <<k[1], k[2]>> \in DOMAIN P /\ P[<<k[1], k[2]>>] <= M[k]
        <3>1. CASE k = key
            BY <1>1, <2>1, <3>1
        <3>2. CASE k # key /\ <<k[1], k[2]>> # gate
            BY <1>1, <2>1, <2>3, <3>2 DEF IsLeast
        <3>3. CASE k # key /\ <<k[1], k[2]>> = gate
            <4>1. k \in DOMAIN L /\ M[k] = L[k] /\ L[k] \in Nat
                BY <1>1, <3>3
            <4>2. gate \in DOMAIN O /\ O[gate] <= L[k] /\ O[gate] \in Nat
                BY <2>3, <3>3, <4>1 DEF IsLeast
            <4>3. new <= L[k]
                <5>1. O[gate] \in Nat /\ ~(O[gate] <= new)
                    BY <1>5, <4>2
                <5>2. \A a, b, c \in Nat : a <= b /\ ~(a <= c) => c <= b
                    OBVIOUS
                <5>3. QED
                    BY <4>1, <4>2, <5>1, <5>2
            <4>4. QED
                BY <2>1, <3>3, <4>1, <4>3
        <3>4. QED
            BY <3>1, <3>2, <3>3
    <2>4. IsLeast(M, P)
        BY <2>2, <2>3 DEF IsLeast
    <2>5. QED
        BY <1>5, <2>4 DEF P
<1>6. QED
    BY <1>3, <1>4, <1>5

(* An accepted description enters a map that has no entry of its key.      *)
LEMMA NextOptimistic ==
    TypeOK /\ OptimisticIsLeast /\ [Next]_vars => OptimisticIsLeast'
<1> SUFFICES ASSUME TypeOK, OptimisticIsLeast, [Next]_vars
             PROVE  OptimisticIsLeast'
    OBVIOUS
<1>1. CASE UNCHANGED vars
    BY <1>1 DEF OptimisticIsLeast, vars
<1>2. ASSUME NEW e \in Descriptions, Refuse(e) PROVE OptimisticIsLeast'
    BY <1>2 DEF OptimisticIsLeast, Refuse
<1>3. ASSUME NEW e \in Descriptions, Enter(e) PROVE OptimisticIsLeast'
    <2> DEFINE key == KeyOf(e)
               gate == OptimisticKeyOf(e)
               new == e.latency
    <2>1. /\ latencies' = With(latencies, key, new)
          /\ e.type # AnyGate /\ IsBetter(e)
                 => optimisticLatencies' = With(optimisticLatencies, gate, new)
          /\ ~(e.type # AnyGate /\ IsBetter(e)) => optimisticLatencies' = optimisticLatencies
        BY <1>3 DEF Enter
    <2>2. new \in Nat /\ key \notin DOMAIN latencies
        BY <1>3, AcceptedDescription
    <2>3. key[1] = e.type /\ gate = <<key[1], key[2]>>
        BY DEF KeyOf, Key, OptimisticKeyOf
    <2>4. /\ latencies \in [DOMAIN latencies -> Nat]
          /\ optimisticLatencies \in [DOMAIN optimisticLatencies -> Nat]
        BY DEF TypeOK
    <2>5. IsBetter(e) <=> ~(gate \in DOMAIN optimisticLatencies
                                /\ optimisticLatencies[gate] <= new)
        BY <2>2, <2>4 DEF IsBetter
    <2>6. IsLeast(latencies, optimisticLatencies)
        BY DEF OptimisticIsLeast, IsLeast
    <2> HIDE DEF key, gate, new
    <2>7. /\ key[1] = AnyGate => IsLeast(latencies', optimisticLatencies)
          /\ key[1] # AnyGate /\ gate \in DOMAIN optimisticLatencies
                         /\ optimisticLatencies[gate] <= new
                 => IsLeast(latencies', optimisticLatencies)
          /\ key[1] # AnyGate /\ ~(gate \in DOMAIN optimisticLatencies
                                  /\ optimisticLatencies[gate] <= new)
                 => IsLeast(latencies', With(optimisticLatencies, gate, new))
        BY <2>1, <2>2, <2>3, <2>4, <2>6, NewEntry
    <2>8. IsLeast(latencies', optimisticLatencies')
        <3>1. CASE e.type # AnyGate /\ IsBetter(e)
            BY <2>1, <2>3, <2>5, <2>7, <3>1, Zenon
        <3>2. CASE ~(e.type # AnyGate /\ IsBetter(e))
            BY <2>1, <2>3, <2>5, <2>7, <3>2, Zenon
        <3>3. QED
            BY <3>1, <3>2, Zenon
    <2>9. QED
        BY <2>8 DEF OptimisticIsLeast, IsLeast
<1>4. QED
    BY <1>1, <1>2, <1>3 DEF Next

(* The best cases are right for every list of descriptions.                *)
THEOREM OptimisticCorrect == Spec => []OptimisticIsLeast
<1>1. Init => OptimisticIsLeast
    BY DEF Init, OptimisticIsLeast
<1>2. QED
    BY <1>1, LatenciesTypeCorrect, NextOptimistic, PTL DEF Spec

-----------------------------------------------------------------------------
(* The first key of three with an entry is the one that is looked up.      *)
LEMMA FirstOfThree ==
    ASSUME NEW a, NEW b, NEW c
    PROVE  FirstOf(<<a, b, c>>) =
               IF a \in DOMAIN latencies THEN latencies[a]
               ELSE IF b \in DOMAIN latencies THEN latencies[b]
               ELSE IF c \in DOMAIN latencies THEN latencies[c]
               ELSE NoLatency
<1> DEFINE keys == <<a, b, c>>
           found == {i \in DOMAIN keys : keys[i] \in DOMAIN latencies}
           First(i) == i \in found /\ \A j \in found : i <= j
<1>1. DOMAIN keys = 1..3 /\ keys[1] = a /\ keys[2] = b /\ keys[3] = c
    OBVIOUS
<1> HIDE DEF keys
<1>2. \A i \in found : i = 1 \/ i = 2 \/ i = 3
    BY <1>1
<1>3. \A i, j : First(i) /\ First(j) => i = j
    BY <1>2
<1>4. /\ a \in DOMAIN latencies => First(1)
      /\ a \notin DOMAIN latencies /\ b \in DOMAIN latencies => First(2)
      /\ a \notin DOMAIN latencies /\ b \notin DOMAIN latencies
             /\ c \in DOMAIN latencies => First(3)
      /\ a \notin DOMAIN latencies /\ b \notin DOMAIN latencies
             /\ c \notin DOMAIN latencies => found = {}
    BY <1>1, <1>2
<1>5. ASSUME NEW i, First(i)
      PROVE  FirstOf(keys) = latencies[keys[i]]
    <2>1. (CHOOSE k \in found : \A j \in found : k <= j) = i
        BY <1>3, <1>5
    <2>2. found # {}
        BY <1>5
    <2>3. FirstOf(keys) = latencies[keys[CHOOSE k \in found : \A j \in found : k <= j]]
        BY <2>2 DEF FirstOf
    <2>4. QED
        BY <2>1, <2>3, Zenon
<1>6. found = {} => FirstOf(keys) = NoLatency
    BY DEF FirstOf
<1>7. QED
    BY <1>1, <1>4, <1>5, <1>6 DEF keys

(* What getLatency answers for a gate without places, and for any other.   *)
LEMMA Answers ==
    ASSUME NEW name, NEW n \in Nat, n > 0, NEW t \in Int, NEW c \in Int
    PROVE  /\ GetLatency(name, n, -1, -1) =
                  IF <<name, n>> \in DOMAIN optimisticLatencies
                  THEN optimisticLatencies[<<name, n>>]
                  ELSE Matching(name, n, -1, -1)
           /\ \/ GetLatency(name, n, t, c) = GetLatency(name, n, -1, -1)
              \/ GetLatency(name, n, t, c) = Matching(name, n, t, c)
<1>1. GetLatency(name, n, -1, -1) =
          IF <<name, n>> \in DOMAIN optimisticLatencies
          THEN optimisticLatencies[<<name, n>>]
          ELSE Matching(name, n, -1, -1)
    BY DEF GetLatency
<1>2. CASE t < 0 /\ c < 0 /\ <<name, n>> \in DOMAIN optimisticLatencies
    BY <1>1, <1>2 DEF GetLatency
<1>3. CASE ~(t < 0 /\ c < 0 /\ <<name, n>> \in DOMAIN optimisticLatencies)
    BY <1>1, <1>3 DEF GetLatency
<1>4. QED
    BY <1>1, <1>2, <1>3

(* A gate with an entry has a best case, which is no more than any entry   *)
(* that getLatency finds; a gate without one has the same default latency  *)
(* with and without places.                                                *)
LEMMA BestAnswer ==
    ASSUME TypeOK, OptimisticIsLeast, HasDefaults,
           NEW name \in STRING, name # AnyGate, NEW n \in Nat, n > 0,
           NEW t \in Int, NEW c \in Int
    PROVE  GetLatency(name, n, -1, -1) <= GetLatency(name, n, t, c)
<1> DEFINE best == <<name, n>>
           default == Key(name, n, -1, -1)
           key == Key(name, n, t, c)
           any == Key(AnyGate, n, -1, -1)
           Unplaced == GetLatency(name, n, -1, -1)
           Placed == GetLatency(name, n, t, c)
           Fallback == Matching(name, n, -1, -1)
           Match == Matching(name, n, t, c)
<1>1. /\ \A k \in DOMAIN latencies : latencies[k] \in Nat
      /\ \A k \in DOMAIN optimisticLatencies : optimisticLatencies[k] \in Nat
    BY DEF TypeOK
<1>2. default[1] = name /\ default[2] = n /\ key[1] = name /\ key[2] = n
    BY DEF Key
<1>3. key \in DOMAIN latencies => default \in DOMAIN latencies
    BY <1>2 DEF HasDefaults
<1>4. default \in DOMAIN latencies =>
          /\ best \in DOMAIN optimisticLatencies
          /\ optimisticLatencies[best] <= latencies[default]
    BY <1>2 DEF OptimisticIsLeast
<1>5. key \in DOMAIN latencies =>
          /\ best \in DOMAIN optimisticLatencies
          /\ optimisticLatencies[best] <= latencies[key]
    BY <1>2 DEF OptimisticIsLeast
<1>6. best \in DOMAIN optimisticLatencies => default \in DOMAIN latencies
    <2> SUFFICES ASSUME best \in DOMAIN optimisticLatencies
                 PROVE  default \in DOMAIN latencies
        OBVIOUS
    <2>1. PICK k \in DOMAIN latencies : k[1] # AnyGate /\ best = <<k[1], k[2]>>
        BY DEF OptimisticIsLeast
    <2>2. k[1] = name /\ k[2] = n
        BY <2>1
    <2>3. QED
        BY <2>1, <2>2 DEF HasDefaults
<1>7. Match =
          IF key \in DOMAIN latencies THEN latencies[key]
          ELSE IF default \in DOMAIN latencies THEN latencies[default]
          ELSE IF any \in DOMAIN latencies THEN latencies[any]
          ELSE NoLatency
    BY FirstOfThree DEF Matching
<1>8. Fallback =
          IF default \in DOMAIN latencies THEN latencies[default]
          ELSE IF any \in DOMAIN latencies THEN latencies[any]
          ELSE NoLatency
    BY FirstOfThree DEF Matching
<1>9. /\ Unplaced =
             IF best \in DOMAIN optimisticLatencies THEN optimisticLatencies[best]
             ELSE Fallback
      /\ \/ Placed = Unplaced
         \/ Placed = Match
    BY Answers
<1>10. NoLatency \in Int
    BY DEF NoLatency
<1> HIDE DEF best, default, key, any, Unplaced, Placed, Fallback, Match
<1>11. ASSUME default \in DOMAIN latencies PROVE Unplaced <= Placed
    <2>1. Unplaced = optimisticLatencies[best]
        BY <1>4, <1>9, <1>11
    <2>2. optimisticLatencies[best] \in Nat /\ latencies[default] \in Nat
        BY <1>1, <1>4, <1>11
    <2>3. optimisticLatencies[best] <= Match
        BY <1>4, <1>5, <1>7, <1>11
    <2>4. QED
        BY <1>9, <2>1, <2>2, <2>3
<1>12. ASSUME default \notin DOMAIN latencies PROVE Unplaced <= Placed
    <2>1. Unplaced = Fallback
        BY <1>6, <1>9, <1>12
    <2>2. Match = Fallback
        BY <1>3, <1>7, <1>8, <1>12
    <2>3. Fallback \in Int
        BY <1>1, <1>8, <1>10, <1>12
    <2>4. QED
        BY <1>9, <2>1, <2>2, <2>3
<1>13. Unplaced <= Placed
    BY <1>11, <1>12
<1>14. QED
    BY <1>13 DEF Unplaced, Placed

(* The optimistic latencies are lower bounds for every table with default  *)
(* entries.                                                                *)
THEOREM BestCaseCorrect == Spec => []BestCaseIsBest
<1>1. TypeOK /\ OptimisticIsLeast => BestCaseIsBest
    <2> SUFFICES ASSUME TypeOK, OptimisticIsLeast, HasDefaults,
                        NEW e \in Descriptions, NEW f \in Descriptions,
                        e.type # AnyGate, e.numQubits > 0
                 PROVE  GetLatency(e.type, e.numQubits, -1, -1)
                            <= GetLatency(e.type, e.numQubits, f.target, f.control)
        BY DEF BestCaseIsBest
    <2>1. e.type \in STRING /\ e.numQubits \in Nat /\ f.target \in Int /\ f.control \in Int
        BY LatenciesAssumption
    <2>2. QED
        BY <2>1, BestAnswer
<1>2. QED
    BY <1>1, LatenciesTypeCorrect, OptimisticCorrect, PTL

=============================================================================
