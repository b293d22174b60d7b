--------------------------- MODULE MCCommandLine ---------------------------
(* Many command lines for one program, and many programs for a few command *)
(* lines, on a device of three qubits in a line.                           *)
EXTENDS CommandLine

MCLatency(name, target, control) ==
    CASE name = "rz(t)" -> 0 [] name = "cx" -> 2 [] name = "swap" -> 3 [] OTHER -> 1
MCGateNames == {"rz(t)", "u", "cx", "barrier", "swap"}
MCCouplings == {<<0, 1>>, <<1, 2>>}
MCDeviceFile == <<3, 2, 0, 1, 1, 2>>

-----------------------------------------------------------------------------
(* The schedules of a circuit one gate after the other, with at most one   *)
(* swap, from every layout.                                                *)

Layouts == {f \in [Physical -> Physical] : \A x, y \in Physical : x # y => f[x] # f[y]}

InverseOf(f) == [q \in Physical |-> CHOOSE x \in Physical : f[x] = q]

Swapped(f, c) == SwapQal(f, c[1], c[2])

GateEntry(gates, g, f) ==
    LET laq == InverseOf(f)
        v == gates[g]
        control == IF v.control = Unmapped THEN Unmapped ELSE laq[v.control]
    IN  [gate |-> g, physicalControl |-> control, physicalTarget |-> laq[v.target], cycle |-> 0,
         latency |-> MCLatency(v.name, laq[v.target], control)]

SwapEntry(c) == [gate |-> GeneratedSwap, physicalControl |-> c[1], physicalTarget |-> c[2],
                 cycle |-> 0, latency |-> 3]

OneByOne(schedule) ==
    FoldLeft(LAMBDA s, e : Append(s, [e EXCEPT !.cycle = IF s = <<>> THEN 0 ELSE EndOf(Last(s))]),
             <<>>, schedule)

ResultFrom(schedule, f, last) ==
    [scheduledGates |-> OneByOne(schedule), inferredQal |-> f, inferredLaq |-> InverseOf(f),
     laq |-> InverseOf(last)]

MCResults(gates) ==
    LET gate(g, f) == GateEntry(gates, g, f)
        part(first, last, f) == [i \in 1..last - first + 1 |-> gate(first + i - 1, f)]
        n == Len(gates)
    IN  {ResultFrom(part(1, n, f), f, f) : f \in Layouts}
        \cup {ResultFrom(part(1, i, f) \o <<SwapEntry(c)>> \o part(i + 1, n, Swapped(f, c)),
                         f, Swapped(f, c)) :
                f \in Layouts, i \in 0..n, c \in MCCouplings}

-----------------------------------------------------------------------------
(* The text of a program, in several layouts: legible ones, and two whose  *)
(* comments join tokens or are in definitions.                             *)

Comment == <<"/", "/", "note", ";", NewLine>>
Plain == [space |-> <<" ">>, end |-> <<";">>, comma |-> <<",">>, index |-> <<>>,
          gap |-> <<NewLine>>, apply |-> <<" ">>, inside |-> <<>>]
Commented ==
    [Plain EXCEPT !.space = <<" ">> \o Comment, !.apply = <<" ">> \o Comment,
                  !.end = Comment \o <<" ", ";">>, !.comma = <<",">> \o Comment \o <<" ">>,
                  !.index = Comment \o <<" ">> \o Comment,
                  !.gap = Comment \o Comment \o <<";">>]
CommentedBefore ==
    [Plain EXCEPT !.space = Comment \o <<"\t">>, !.apply = Comment \o <<"\t">>,
                  !.end = Comment \o <<";">>, !.comma = <<" ">> \o Comment,
                  !.index = Comment, !.gap = <<NewLine>> \o Comment]
Sparse ==
    [Plain EXCEPT !.space = <<NewLine, "\t">>, !.apply = <<NewLine, "\t">>,
                  !.end = <<" ", ";">>, !.comma = <<" ">>, !.gap = <<>>]
Joining == [Plain EXCEPT !.apply = Comment]
Inside == [Plain EXCEPT !.inside = Comment]
Legible == {Plain, Commented, CommentedBefore, Sparse}

Spelling == [name \in {"rz(t)"} |-> <<"rz", "(", "t", ")">>]
Spell(name) == IF name \in DOMAIN Spelling THEN Spelling[name] ELSE <<name>>

(* The registers named r have one qubit, and are written without brackets. *)
BitText(b, y) ==
    IF b.register = "r" THEN <<"r">>
    ELSE <<b.register, "[">> \o y.index \o <<ToString(b.index), "]">>
RegisterText(s, y) ==
    IF s.name = "r" THEN <<"r">> ELSE <<s.name, "[">> \o y.index \o <<ToString(s.size), "]">>

BitsText(bits, y) ==
    FoldLeft(LAMBDA s, b : s \o (IF s = <<>> THEN <<>> ELSE y.comma) \o BitText(b, y), <<>>, bits)

(* In a definition there may be comments after a brace and after a comma.  *)
DefinitionText(d, y) ==
    FoldLeft(LAMBDA t, c : Append(t, c) \o (IF c \in {"{", ","} THEN y.inside ELSE <<>>), <<>>, d)

StatementText(s, y) ==
    CASE s.kind = "OPENQASM" -> <<"OPENQASM">> \o y.space \o <<s.version>> \o y.end
      [] s.kind = "include" -> <<"include", " ", Quote, "lib", ";", Quote>> \o y.end
      [] s.kind \in {"gate", "opaque"} -> <<s.kind, " ">> \o DefinitionText(s.definition, y)
      [] s.kind \in {"qreg", "creg"} -> <<s.kind>> \o y.space \o RegisterText(s, y) \o y.end
      [] s.kind = "measure" -> <<"measure">> \o y.space \o BitText(s.qubit, y) \o <<" ">>
             \o <<"->">> \o y.space \o BitText(s.bit, y) \o y.end
      [] s.kind = "if" -> <<"if">> \o y.index \o <<"(", "c", "=", "=", "0", ")", " ", "u">>
             \o y.apply \o BitText(s.qubit, y) \o y.end
      [] s.kind = "call" -> Spell(s.name) \o y.apply \o BitsText(s.qubits, y) \o y.end

TextOf(program, y) ==
    FoldLeft(LAMBDA t, s : t \o StatementText(s, y) \o y.gap, <<>>, program)

-----------------------------------------------------------------------------
(* Programs on the qubits q[0], q[1] and r, with the bits c[0], c[1], d[0].*)

Version == [kind |-> "OPENQASM", version |-> "2.0"]
Header ==
    <<Version,
      [kind |-> "include", file |-> "\"lib;\""],
      [kind |-> "gate", definition |-> <<"half", " ", "a", "{", "u", " ", "a", ";", "}">>],
      [kind |-> "opaque", definition |-> <<"o", " ", "a", ",", "b", ";">>]>>
Registers ==
    <<[kind |-> "qreg", name |-> "q", size |-> 2], [kind |-> "creg", name |-> "c", size |-> 2],
      [kind |-> "qreg", name |-> "r", size |-> 1], [kind |-> "creg", name |-> "d", size |-> 1]>>

Q0 == Bit("q", 0)
Q1 == Bit("q", 1)
R == Bit("r", 0)
Apply(name, qubits) == [kind |-> "call", name |-> name, qubits |-> qubits]
Measure(q, b) == [kind |-> "measure", qubit |-> q, bit |-> b]

GateCalls ==
    {Apply("cx", <<Q0, Q1>>), Apply("cx", <<Q1, R>>), Apply("cx", <<R, Q0>>)}
    \cup {Apply("u", <<Q1>>), Apply("rz(t)", <<R>>)}
Measures ==
    {<<>>, <<Measure(Q1, Bit("c", 0))>>,
     <<Measure(R, Bit("d", 0)), Measure(Q0, Bit("c", 1))>>,
     <<Measure(R, Bit("c", 1)), Measure(Q0, Bit("c", 1)), Measure(Q1, Bit("d", 0))>>}

TwoGates == {Registers \o <<a, b>> \o m : a, b \in GateCalls, m \in Measures}
Others ==
    {(* measured before the end *)
     Registers \o <<Apply("cx", <<Q0, R>>), Measure(Q0, Bit("c", 0)), Apply("cx", <<R, Q1>>)>>,
     Registers \o <<Apply("cx", <<R, Q0>>), Measure(R, Bit("c", 0)), Apply("cx", <<R, Q1>>)>>,
     (* no measurement *)
     Registers \o <<Apply("cx", <<Q0, R>>), Apply("u", <<Q1>>), Apply("cx", <<R, Q1>>)>>,
     Registers \o <<Apply("cx", <<Q0, R>>), Apply("cx", <<R, Q1>>)>>,
     (* no use of a measured qubit *)
     Registers \o <<Apply("u", <<Q1>>), Measure(R, Bit("c", 0))>>,
     (* nothing, a gate without qubits, on one qubit twice, or three *)
     <<>>, Registers \o <<Apply("barrier", <<>>)>>, Registers \o <<Apply("cx", <<R, R>>)>>,
     Registers \o <<Apply("barrier", <<R, Q0, Q1>>)>>,
     (* too many qubits, no such qubit, no such register *)
     <<[kind |-> "qreg", name |-> "q", size |-> 4], Apply("u", <<Bit("q", 3)>>)>>,
     <<[kind |-> "qreg", name |-> "q", size |-> 1], Apply("u", <<Q1>>)>>,
     <<Apply("u", <<R>>)>>,
     Registers \o <<[kind |-> "if", qubit |-> Q1]>>, <<Version, Version>>}

Programs == {Header \o p : p \in TwoGates} \cup {<<Version>> \o p : p \in Others} \cup Others

-----------------------------------------------------------------------------
(* Command lines. Each option is a sequence with its arguments.            *)

Usual == <<<<"-default">>, <<"program">>, <<"device">>>>
OptionList ==
    {<<"-default">>, <<"-expander", "NoSwaps">>, <<"-expander", "GreedyTopK", "5">>,
     <<"-cost", "SimpleCost">>, <<"-latency", "Table", "table">>,
     <<"-queue", "TrimSlowNodes", "7", "3">>, <<"-filter", "HashFilter2">>,
     <<"-nodemod", "GreedyMapper">>, <<"-retain", "9">>, <<"-pureSwaps", "2">>,
     <<"-pureSwapDiameter">>, <<"-v">>}
OptionLists ==
    {<<<<"program">>, <<"device">>>> \o o :
        o \in UNION {[1..n -> OptionList] : n \in 0..2}
             \cup [1..3 -> {o \in OptionList : o[1] \in {"-default", "-expander", "-cost"}}]}

Faults ==
    {<<<<"-laq", "0,1,2">>>> \o Usual, <<<<"-qal", "0,1,2">>>> \o Usual,
     Usual \o <<<<"more">>>>, <<<<"-default">>>>, <<<<"-default">>, <<"program">>>>,
     <<<<"-default">>, <<"missing">>, <<"device">>>>,
     Usual \o <<<<"-queue", "Default">>>>, Usual \o <<<<"-queue", "TrimSlowNodes", "7">>>>,
     Usual \o <<<<"-retain">>>>}

IsOpen(options, kind) ==
    ~\E i \in DOMAIN options : \/ options[i] = <<"-default">>
                               \/ options[i][1] \in DOMAIN KindOf /\ KindOf[options[i][1]] = kind

Answered == [expander |-> <<"GreedyTopK", "4">>, cost |-> <<"CXFull">>,
             latency |-> <<"Latency_1">>, queue |-> <<"TrimSlowNodes", "6", "2">>]
AnswersFor == [expander |-> <<1, 4>>, cost |-> <<1>>, latency |-> <<2>>, queue |-> <<1, 6, 2>>]

AnswersTo(options) ==
    FoldLeft(LAMBDA s, kind : IF IsOpen(options, kind) THEN s \o AnswersFor[kind] ELSE s,
             <<>>, Single)

(* What the user says about filters and node modifiers.                    *)
MoreAnswers == {<<>>, <<-1, -1>>, <<1, 1, 0, 0>>, <<0, 2, 0>>}

OneProgram == Header \o Registers \o <<Apply("cx", <<Q0, R>>), Apply("cx", <<R, Q1>>),
                                       Measure(Q0, Bit("c", 0))>>

Invoke(options, replies, program, style) ==
    [options |-> options, arguments |-> FoldLeft(LAMBDA s, o : s \o o, <<>>, options),
     answers |-> replies, answered |-> Answered, program |-> program,
     text |-> TextOf(program, style)]

(* Texts that the parser does not accept.                                  *)
BrokenTexts ==
    {TextOf(Registers, Plain) \o t :
        t \in {<<"rz", "(", ";">>, <<"u", " ", "q", "[", "1">>, <<"gate", " ", "g", "{">>,
               <<"opaque", " ", "o">>, <<"include", " ", "lib", ";">>, <<"qreg", ";">>,
               <<"measure", " ", "q", "-", ">", "r", ";">>}}

MCInvocations ==
    {Invoke(o, AnswersTo(o) \o a, OneProgram, Plain) : o \in OptionLists, a \in MoreAnswers}
    \cup {Invoke(o, <<>>, OneProgram, Plain) : o \in Faults}
    \cup {Invoke(<<<<"program">>, <<"device">>>>, a, OneProgram, Plain) : a \in {<<>>, <<1>>, <<3>>}}
    \cup {Invoke(Usual, <<>>, p, y) : p \in Programs, y \in Legible}
    \cup {Invoke(Usual, <<>>, p, y) : p \in Others \cup {OneProgram}, y \in {Joining, Inside}}
    \cup {[Invoke(Usual, <<>>, <<>>, Plain) EXCEPT !.text = t] : t \in BrokenTexts}

(* A definition with a comment, that divides.                              *)
MCDefinition ==
    {Invoke(Usual, <<>>,
          <<Version, [kind |-> "gate", definition |-> d]>> \o Registers \o <<Apply("u", <<Q1>>)>>,
          Inside) :
        d \in {<<"half", "(", "t", ")", " ", "a", "{", "rz", "(", "t", "/", "2", ")", " ", "a",
                 ";", "}">>}}
=============================================================================
