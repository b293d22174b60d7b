----------------------------- MODULE MCLatencies -----------------------------
(* The rows of a file, and descriptions of all forms, valid or not, as     *)
(* another program can give them, for two two-qubit gates and a one-qubit  *)
(* gate, and for all of them.                                              *)
EXTENDS Latencies

Rows == [numBits : 0..2, gateName : {"-", "cx", "u"}, target : {-1, 0}, control : {-1, 1},
         latency : {-1, 1}]

MCDescription(numQubits, types, targets, controls) ==
    [type : types, numQubits : {numQubits}, target : targets, control : controls,
     latency : -1..2]

MCDescriptions ==
    MCDescription(2, {"", "cx", "swap"}, {-1, 0}, {-1, 1})
        \cup MCDescription(2, {"cx"}, {1}, {0})
        \cup MCDescription(1, {"", "u"}, {-1, 0}, {-1})
        \cup {DescriptionOf(row) : row \in {r \in Rows : IsReadable(r)}}
=============================================================================
