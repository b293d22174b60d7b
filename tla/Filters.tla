------------------------------ MODULE Filters ------------------------------
(***************************************************************************)
(* classes HashFilter and HashFilter2: records of the nodes pushed so far, *)
(* with which a new node is compared that has the same layout.             *)
(*                                                                         *)
(* A filter's hash map is a function from keys to buckets, sequences of    *)
(* records. A record is an entry of the search (module Search); its node,  *)
(* its id, and stack, which tells its list of scheduled gates from other   *)
(* lists, are looked at here. Keys are what the hash functions combine:    *)
(* that different keys have the same hash is left out.                     *)
(***************************************************************************)
EXTENDS CXCost

FilterNames == {"HashFilter", "HashFilter2"}

KeyOf(filter, n) ==
    IF filter = "HashFilter" THEN <<n.laq, n.readyGates>> ELSE <<n.laq, n.cycle \div 8>>

NoRecords == [filter \in FilterNames |-> <<>>]

Bucket(map, key) == IF key \in DOMAIN map THEN map[key] ELSE <<>>
SetBucket(map, key, bucket) ==
    [k \in DOMAIN map \cup {key} |-> IF k = key THEN bucket ELSE map[k]]

(* The last record takes the place of the one that is removed.             *)
WithoutRecord(bucket, i) ==
    SubSeq([bucket EXCEPT ![i] = Last(bucket)], 1, Len(bucket) - 1)

(* Environment::deleteRecord: all filters forget entry e.                  *)
FaultyDeleteRecord(records, e) == records

DeleteRecord(records, e) ==
    [f \in FilterNames |->
        LET key == KeyOf(f, e.node)
            bucket == Bucket(records[f], key)
            at == {i \in DOMAIN bucket : bucket[i].id = e.id}
        IN  IF at = {} THEN records[f]
            ELSE SetBucket(records[f], key, WithoutRecord(bucket, Min(at)))]

(* One entry after the other.                                              *)
DeleteRecords(records, entries) ==
    LET after[i \in 0..Len(entries)] ==
            IF i = 0 THEN records ELSE DeleteRecord(after[i-1], entries[i])
    IN  after[Len(entries)]

-----------------------------------------------------------------------------
(* HashFilter: a new node is dropped if on no physical qubit the gates end *)
(* earlier than in a recorded node with the same layout and ready gates.   *)
(* Qubits that are free count as if their gates had ended at 0.            *)
EndAt(n, p) == IF BusyCycles(n, p) = 0 THEN 0 ELSE n.cycle + BusyCycles(n, p)

FaultyIsNoBetter(n, old) ==             \* drops the better ones
    /\ \A p \in Physical : EndAt(n, p) <= EndAt(old, p)
    /\ n.cycle = old.cycle \/ \E p \in Physical : EndAt(n, p) < EndAt(old, p)

IsNoBetter(n, old) ==
    /\ \A p \in Physical : EndAt(n, p) >= EndAt(old, p)
    /\ n.cycle = old.cycle \/ \E p \in Physical : EndAt(n, p) > EndAt(old, p)

-----------------------------------------------------------------------------
(* HashFilter2 compares how far two nodes have come along each logical     *)
(* qubit, to drop the new node or to mark the recorded one as dead.        *)

(* catchUp: how long the gates on logical qubit q after gate from take, up *)
(* to gate to, or until they take limit cycles.                            *)
CatchUp(gates, from, to, q, limit) ==
    LET walk[k \in 0..Len(gates)] ==
            IF k = 0 THEN [gate |-> from, cycles |-> 0]
            ELSE LET w == walk[k-1]
                     next == ChildOn(gates[w.gate], q)
                 IN  IF w.cycles >= limit \/ w.gate = to THEN w
                     ELSE [gate |-> next, cycles |-> w.cycles + gates[next].optimisticLatency]
    IN  walk[Len(gates)].cycles

(* What is known when new node n is compared with recorded node old:       *)
(* willFilter, willMarkDead, canMarkDead, and that no assertion failed.    *)
Verdict(drop, mark, can, holds) ==
    [drop |-> drop, mark |-> mark, can |-> can, holds |-> holds]

(* How far node n has come on logical qubit q, which it has at place.      *)
ProgressOn(n, q, place) ==
    LET busy == IF place = Unmapped THEN 0 ELSE BusyCycles(n, place)
    IN  [cycle |-> n.cycle, busy |-> busy, end |-> n.cycle + busy,
         gate |-> n.lastNonSwapGate[q].gate]

(* With the same gates on the qubit.                                       *)
IsSlower(a, b) == a.busy > 1 /\ a.end > b.end

(* With more gates in a than in b, which b needs so many cycles to catch   *)
(* up with.                                                                *)
IsReady(a, b) == a.busy <= 1 \/ a.busy <= b.busy \/ a.cycle - b.cycle >= SwapCost
StaysAhead(a, b, more) == more + a.end > b.end \/ more >= SwapCost
IsOvertaken(a, b, more) == more <= SwapCost /\ more + b.end <= a.end

CompareWithLess(new, old, v, more) ==
    IF v.drop /\ IsReady(new, old) THEN Verdict(FALSE, v.mark, TRUE, v.holds)
    ELSE Verdict(v.drop /\ ~StaysAhead(new, old, more),
                 v.mark /\ ~IsOvertaken(new, old, more),
                 v.can \/ StaysAhead(new, old, more), v.holds)

CompareWithMore(new, old, v, more) ==
    IF v.mark /\ IsReady(old, new) THEN Verdict(v.drop, FALSE, v.can, v.holds)
    ELSE Verdict(v.drop /\ ~IsOvertaken(old, new, more),
                 v.mark /\ ~StaysAhead(old, new, more),
                 v.can \/ IsOvertaken(old, new, more), v.holds)

(* One logical qubit: the verdict after it, from the verdict before.       *)
CompareQubit(new, old, gates, v, q) ==
    LET none == Null.gate
        Behind(a, b) == gates[a.gate].criticality > gates[b.gate].criticality
    IN  CASE new.gate = old.gate ->
                Verdict(v.drop /\ ~IsSlower(old, new), v.mark /\ ~IsSlower(new, old),
                        v.can \/ IsSlower(old, new), v.holds)
          [] new.gate # none /\ old.gate = none ->
                Verdict(FALSE, v.mark /\ ~IsSlower(new, old), TRUE, v.holds)
          [] new.gate = none /\ old.gate # none ->
                Verdict(v.drop /\ ~IsSlower(old, new), FALSE, v.can, v.holds)
          [] OTHER ->
                IF Behind(old, new)
                THEN CompareWithLess(new, old, v,
                        CatchUp(gates, old.gate, new.gate, q, SwapCost + 1))
                ELSE IF Behind(new, old)
                THEN CompareWithMore(new, old, v,
                        CatchUp(gates, new.gate, old.gate, q, SwapCost + 1))
                ELSE Verdict(v.drop, v.mark, v.can, FALSE)

(* All qubits, as long as something can come of it. Nodes with the same    *)
(* list of scheduled gates are not compared.                               *)
Compare(new, old, gates) ==
    LET n == new.node
        o == old.node
        first == Verdict(o.cycle <= n.cycle /\ new.stack # old.stack,
                         n.cycle <= o.cycle /\ new.stack # old.stack, FALSE, TRUE)
    IN  FoldLeft(LAMBDA v, q :
                    IF ~v.holds \/ ~(v.drop \/ v.mark) THEN v
                    ELSE CompareQubit(ProgressOn(n, q, n.laq[q]), ProgressOn(o, q, n.laq[q]),
                                      gates, v, q),
                 first, [i \in 1..NumPhysical |-> i-1])

-----------------------------------------------------------------------------
(* What a filter, or all of them, make of entry e: the map or maps         *)
(* afterwards, the nodes that are dead, whether e is dropped, and that no  *)
(* assertion failed.                                                       *)
Filtered(map, dead, drop, holds) ==
    [map |-> map, dead |-> dead, drop |-> drop, holds |-> holds]

(* A walk through a bucket.                                                *)
Walk(bucket, dead, drop, holds) ==
    [bucket |-> bucket, dead |-> dead, drop |-> drop, holds |-> holds]

(* The rest of filter(): a node that is not dropped is recorded.           *)
Recorded(map, key, e, w) ==
    Filtered(SetBucket(map, key, IF w.drop THEN w.bucket ELSE Append(w.bucket, e)),
             w.dead, w.drop, w.holds)

FilterByEnds(map, dead, e) ==
    LET key == KeyOf("HashFilter", e.node)
        bucket == Bucket(map, key)
    IN  Recorded(map, key, e,
                 Walk(bucket, dead,
                      \E i \in DOMAIN bucket : IsNoBetter(e.node, bucket[i].node), TRUE))

(* HashFilter2 goes through the bucket from the last record on, until the  *)
(* node is dropped.                                                        *)
FaultyMarks(v) == v.mark                \* equals mark each other

Marks(v) == v.mark /\ v.can /\ ~v.drop

Judge(w, i, v) ==
    IF Marks(v)
    THEN Walk(WithoutRecord(w.bucket, i), w.dead \cup {w.bucket[i].id}, v.drop, v.holds)
    ELSE Walk(w.bucket, w.dead, v.drop, v.holds)

(* One record of the bucket; those of dead nodes are passed over.          *)
Visit(w, i, e, gates) ==
    IF w.drop \/ ~w.holds \/ w.bucket[i].id \in w.dead THEN w
    ELSE Judge(w, i, Compare(e, w.bucket[i], gates))

FilterByProgress(map, dead, e, gates) ==
    LET key == KeyOf("HashFilter2", e.node)
        bucket == Bucket(map, key)
        length == Len(bucket)
        walk[k \in 0..length] ==
            IF k = 0 THEN Walk(bucket, dead, FALSE, TRUE)
            ELSE Visit(walk[k-1], length - k + 1, e, gates)
    IN  Recorded(map, key, e, walk[length])

(* Environment::filter: one filter after the other, until one drops the    *)
(* node; then the filters before it forget it.                             *)
Ask(filter, s, e, gates) ==
    IF filter = "HashFilter" THEN FilterByEnds(s.map[filter], s.dead, e)
    ELSE FilterByProgress(s.map[filter], s.dead, e, gates)

After(filter, s, r) ==
    Filtered([s.map EXCEPT ![filter] = r.map], r.dead, r.drop, s.holds /\ r.holds)

Forgotten(s, e) == IF s.drop THEN [s EXCEPT !.map = DeleteRecord(@, e)] ELSE s

AskNext(filter, s, e, gates) ==
    IF s.drop THEN s ELSE After(filter, s, Ask(filter, s, e, gates))

FilterEntry(records, dead, filters, e, gates) ==
    LET after[i \in 0..Len(filters)] ==
            IF i = 0 THEN Filtered(records, dead, FALSE, TRUE)
            ELSE AskNext(filters[i], after[i-1], e, gates)
    IN  Forgotten(after[Len(filters)], e)

=============================================================================
