------------------------------ MODULE OpenQasm ------------------------------
(***************************************************************************)
(* OPENQASM programs, and what they mean: which gates and measurements     *)
(* they apply to which bits, in which order. A program is a sequence of    *)
(* statements; the parser and the printer of module Qasm are about the     *)
(* same statements, as text.                                               *)
(*                                                                         *)
(*   [kind |-> "OPENQASM", version |-> v]  [kind |-> "include", file |-> f] *)
(*   [kind |-> "gate", definition |-> d]   [kind |-> "opaque", definition |-> d] *)
(*   [kind |-> "qreg", name |-> r, size |-> n]  and the same with "creg"    *)
(*   [kind |-> "measure", qubit |-> b, bit |-> b]                           *)
(*   [kind |-> "call", name |-> g, qubits |-> <<b, ...>>]                   *)
(*                                                                         *)
(* where a bit b is [register |-> r, index |-> i].                         *)
(***************************************************************************)
EXTENDS Integers, SequencesExt

OfKind(program, kind) == SelectSeq(program, LAMBDA s : s.kind = kind)

Sizes(registers) == FoldLeft(LAMBDA n, r : n + r.size, 0, registers)

(* The number of a bit when all registers of its kind are joined.          *)
FlatIndex(program, kind, b) ==
    LET registers == OfKind(program, kind)
        i == CHOOSE j \in DOMAIN registers : registers[j].name = b.register
    IN  Sizes(SubSeq(registers, 1, i - 1)) + b.index

(* The gates and measurements of a program, on numbered bits.              *)
Operations(program) ==
    LET flat(s) ==
            IF s.kind = "measure"
            THEN [name |-> "measure",
                  qubits |-> <<FlatIndex(program, "qreg", s.qubit)>>,
                  bit |-> FlatIndex(program, "creg", s.bit)]
            ELSE [name |-> s.name,
                  qubits |-> [i \in DOMAIN s.qubits |-> FlatIndex(program, "qreg", s.qubits[i])],
                  bit |-> -1]
        s == SelectSeq(program, LAMBDA t : t.kind \in {"call", "measure"})
    IN  [i \in DOMAIN s |-> flat(s[i])]

(* The same operations when qubit p holds, to begin with, the logical      *)
(* qubit place[p], and every swap moves two of them.                       *)
Logical(operations, place) ==
    LET step(s, o) ==
            IF o.name = "swap"
            THEN LET p == o.qubits[1]
                     q == o.qubits[2]
                 IN  [s EXCEPT !.place = [@ EXCEPT ![p] = s.place[q], ![q] = s.place[p]]]
            ELSE [s EXCEPT !.done = Append(@,
                    [o EXCEPT !.qubits = [i \in DOMAIN @ |-> s.place[@[i]]]])]
    IN  FoldLeft(step, [place |-> place, done |-> <<>>], operations).done

(* Two lists of operations do the same if they do the same to every qubit  *)
(* and to every bit.                                                       *)
OnQubit(operations, q) == SelectSeq(operations, LAMBDA o : Contains(o.qubits, q))
OnBit(operations, c) == SelectSeq(operations, LAMBDA o : o.bit = c)

AreEquivalent(a, b) ==
    /\ \A o \in ToSet(a) \cup ToSet(b) :
          /\ \A q \in ToSet(o.qubits) : OnQubit(a, q) = OnQubit(b, q)
          /\ o.bit # -1 => OnBit(a, o.bit) = OnBit(b, o.bit)

(* Every bit of a program is one of a register that the program declares   *)
(* before.                                                                 *)
IsDeclared(program, i, kind, b) ==
    \E j \in 1..i-1 : /\ program[j].kind = kind
                      /\ program[j].name = b.register
                      /\ b.index \in 0..program[j].size-1

IsWellFormed(program) ==
    \A i \in DOMAIN program :
        LET s == program[i]
        IN  /\ s.kind = "call" => \A b \in ToSet(s.qubits) : IsDeclared(program, i, "qreg", b)
            /\ s.kind = "measure" => /\ IsDeclared(program, i, "qreg", s.qubit)
                                     /\ IsDeclared(program, i, "creg", s.bit)

=============================================================================
