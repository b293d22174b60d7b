-------------------------------- MODULE Qasm --------------------------------
(***************************************************************************)
(* class QasmObject: fromQasm2 reads an OPENQASM file statement after      *)
(* statement, and toQasm2 prints a program for the device from what it has *)
(* read and the result of run.                                             *)
(*                                                                         *)
(* The file is a text as in module Tokens. A token is a sequence of its    *)
(* symbols. Warnings are left out.                                         *)
(***************************************************************************)
EXTENDS Tokens, OpenQasm, Result

VARIABLES text,                 \* the characters of the file
          reader,               \* what the last call of getToken has left
          object,               \* the QasmObject
          phase                 \* what the program is doing

qasmVars == <<text, reader, object, phase>>

EmptyObject ==
    [version |-> "", includes |-> <<>>, customGates |-> <<>>, opaqueGates |-> <<>>,
     qregs |-> <<>>, cregs |-> <<>>, measures |-> <<>>, gates |-> <<>>]

AtStart == [token |-> NoToken, position |-> 1, sawSemicolon |-> FALSE, failed |-> FALSE]

(* A call of getToken after another one, which did not fail.               *)
AfterCall(r) == IF r.failed THEN r ELSE GetToken(text, r.position, r.sawSemicolon)

(* The next n calls.                                                       *)
Calls(n) ==
    LET call(s, i) == Append(s, AfterCall(Last(s)))
    IN  Tail(FoldLeft(call, <<reader>>, [i \in 1..n |-> i]))

IsEnd(r) == ~r.failed /\ r.token = Semicolon
IsToken(r) == ~r.failed /\ r.token # NoToken

-----------------------------------------------------------------------------
(* A token for a register or for a bit of one: its name is what comes      *)
(* before the bracket, if there is one, and its number what comes after.   *)

Numbers == 0..9                 \* the numbers in the files considered

(* atoi, which skips blanks and gives 0 for what is no number.             *)
AToI(symbols) ==
    LET s == SelectSeq(symbols, LAMBDA c : c \notin {" ", NewLine, "\t"})
        n == {i \in Numbers : s # <<>> /\ ToString(i) = Head(s)}
    IN  IF n = {} THEN 0 ELSE CHOOSE i \in n : TRUE

Word(symbols) == FoldLeft(LAMBDA s, c : s \o c, "", symbols)

Bracket(token) == SelectInSeq(token, LAMBDA c : c = "[")
NameBefore(token) ==
    Word(IF Bracket(token) = 0 THEN token ELSE SubSeq(token, 1, Bracket(token) - 1))
NumberAfter(token, default) ==
    IF Bracket(token) = 0 THEN default ELSE AToI(SubSeq(token, Bracket(token) + 1, Len(token)))

RegisterOf(token) == [name |-> NameBefore(token), size |-> NumberAfter(token, 1)]

(* An unknown register ends the program.                                   *)
IsKnown(registers, token) == \E i \in DOMAIN registers : registers[i].name = NameBefore(token)

(* getQregOffset and getCregOffset: the size of all registers before.      *)
Offset(registers, token) ==
    LET i == SelectInSeq(registers, LAMBDA r : r.name = NameBefore(token))
    IN  Sizes(SubSeq(registers, 1, i - 1))

Flat(registers, token) == Offset(registers, token) + NumberAfter(token, 0)

-----------------------------------------------------------------------------
(* fromQasm2: one action per kind of statement, whose first token has been *)
(* read when it begins.                                                    *)

Reads(keyword) == phase = "reading" /\ ~reader.failed /\ reader.token = <<keyword>>

(* The last call of the statement was r, and the first one of the next     *)
(* statement is made; the object is now o, if what the code asserts is     *)
(* legal.                                                                  *)
Finish(r, legal, o) ==
    /\ reader' = AfterCall(r)
    /\ object' = IF legal THEN o ELSE object
    /\ phase' = IF legal THEN "reading" ELSE "crashed"
    /\ UNCHANGED text

ReadVersion ==
    /\ Reads("OPENQASM")
    /\ \E c \in {Calls(2)} :
          Finish(c[2], object.version = "" /\ IsToken(c[1]) /\ IsEnd(c[2]),
                 [object EXCEPT !.version = Word(c[1].token)])

ReadInclude ==
    /\ Reads("include")
    /\ \E c \in {Calls(2)} :
          Finish(c[2], IsToken(c[1]) /\ Head(c[1].token) = Quote /\ IsEnd(c[2]),
                 [object EXCEPT !.includes = Append(@, Word(c[1].token))])

(* "FATAL ERROR: if-statements not supported."                             *)
RefuseIf ==
    /\ Reads("if")
    /\ phase' = "exited"
    /\ UNCHANGED <<text, reader, object>>

(* The other two functions do not know of a semicolon seen before.         *)
Rest(r) == [r EXCEPT !.sawSemicolon = reader.sawSemicolon]

ReadDefinition ==
    /\ Reads("gate")
    /\ \E r \in {Rest(GetCustomGate(text, reader.position))} :
          Finish(r, ~r.failed, [object EXCEPT !.customGates = Append(@, r.token)])

ReadOpaque ==
    /\ Reads("opaque")
    /\ \E r \in {Rest(GetRestOfStatement(text, reader.position))} :
          Finish(r, ~r.failed, [object EXCEPT !.opaqueGates = Append(@, r.token)])

ReadQreg ==
    /\ Reads("qreg")
    /\ \E c \in {Calls(2)} :
          Finish(c[2], IsToken(c[1]) /\ IsEnd(c[2]),
                 [object EXCEPT !.qregs = Append(@, RegisterOf(c[1].token))])

ReadCreg ==
    /\ Reads("creg")
    /\ \E c \in {Calls(2)} :
          Finish(c[2], IsToken(c[1]) /\ IsEnd(c[2]),
                 [object EXCEPT !.cregs = Append(@, RegisterOf(c[1].token))])

IsMeasure(c) ==
    /\ IsToken(c[1]) /\ c[2].token = <<"->">> /\ IsToken(c[3]) /\ IsEnd(c[4])
    /\ IsKnown(object.qregs, c[1].token) /\ IsKnown(object.cregs, c[3].token)

ReadMeasure ==
    /\ Reads("measure")
    /\ \E c \in {Calls(4)} :
          Finish(c[4], IsMeasure(c),
                 [object EXCEPT !.measures =
                     Append(@, <<Flat(object.qregs, c[1].token), Flat(object.cregs, c[3].token)>>)])

SkipSemicolon == Reads(";") /\ Finish(reader, TRUE, object)

Keywords == {"OPENQASM", "if", "gate", "opaque", "include", "qreg", "creg", "measure", ";"}

(* Of the three tokens after the name of a gate, those before the          *)
(* semicolon. There may be two.                                            *)
OperandsIn(c) ==
    IF IsEnd(c[1]) THEN <<>> ELSE IF IsEnd(c[2]) THEN <<c[1].token>>
    ELSE <<c[1].token, c[2].token>>

GateOf(name, operands) ==
    [name |-> Word(name),
     control |-> IF Len(operands) = 2 THEN Flat(object.qregs, operands[1]) ELSE Unmapped,
     target |-> IF operands = <<>> THEN Unmapped ELSE Flat(object.qregs, Last(operands))]

(* Any other token is the name of a gate. Of a whole register it applies   *)
(* to the first qubit.                                                     *)
ReadGate ==
    /\ phase = "reading" /\ IsToken(reader) /\ reader.token \notin {<<k>> : k \in Keywords}
    /\ \E c \in {Calls(3)} :
          LET operands == OperandsIn(c)
              last == c[Len(operands) + 1]
              legal == /\ IsEnd(last) /\ NoToken \notin ToSet(operands)
                       /\ \A t \in ToSet(operands) : IsKnown(object.qregs, t)
          IN  Finish(last, legal,
                     [object EXCEPT !.gates = Append(@, GateOf(reader.token, operands))])

FailToRead == phase = "reading" /\ reader.failed /\ Finish(reader, FALSE, object)

EndOfFile ==
    /\ phase = "reading"
    /\ ~reader.failed /\ reader.token = NoToken
    /\ phase' = "mapping"
    /\ UNCHANGED <<text, reader, object>>

Parse == \/ ReadVersion \/ ReadInclude \/ RefuseIf \/ ReadDefinition \/ ReadOpaque
         \/ ReadQreg \/ ReadCreg \/ ReadMeasure \/ SkipSemicolon \/ ReadGate
         \/ FailToRead \/ EndOfFile

(* QasmObject::numQubits                                                   *)
NumQubits == Sizes(object.qregs)

-----------------------------------------------------------------------------
(* toQasm2 prints the initial layout as two comments, and a program.       *)

Bit(register, i) == [register |-> register, index |-> i]

(* printNode: a gate or a swap, on the physical qubits it is scheduled on. *)
PrintedGate(e) ==
    [kind |-> "call", name |-> NameOf(object.gates, e),
     qubits |-> IF e.physicalControl < 0 THEN <<Bit("q", e.physicalTarget)>>
                ELSE <<Bit("q", e.physicalControl), Bit("q", e.physicalTarget)>>]

FaultyPrintedMeasure(r, m) ==          \* where the qubit was at the start
    [kind |-> "measure", qubit |-> Bit("q", r.inferredLaq[m[1]]), bit |-> Bit("c", m[2])]

(* All measurements come last, where the qubits are then.                  *)
PrintedMeasure(r, m) ==
    [kind |-> "measure", qubit |-> Bit("q", r.laq[m[1]]), bit |-> Bit("c", m[2])]

FaultyPrintedRegisters ==              \* a bit for every measurement
    <<[kind |-> "qreg", name |-> "q", size |-> NumPhysical],
      [kind |-> "creg", name |-> "c", size |-> Len(object.measures)]>>

PrintedRegisters ==
    <<[kind |-> "qreg", name |-> "q", size |-> NumPhysical],
      [kind |-> "creg", name |-> "c", size |-> NumPhysical]>>

(* Of a file without a version nothing is printed from there on: the null  *)
(* pointer leaves the stream in a bad state.                               *)
Printed(r) ==
    IF object.version = "" THEN <<>>
    ELSE <<[kind |-> "OPENQASM", version |-> object.version]>>
         \o [i \in DOMAIN object.includes |->
                [kind |-> "include", file |-> object.includes[i]]]
         \o [i \in DOMAIN object.customGates |->
                [kind |-> "gate", definition |-> object.customGates[i]]]
         \o [i \in DOMAIN object.opaqueGates |->
                [kind |-> "opaque", definition |-> object.opaqueGates[i]]]
         \o PrintedRegisters
         \o [i \in DOMAIN r.scheduledGates |-> PrintedGate(r.scheduledGates[i])]
         \o [i \in DOMAIN object.measures |-> PrintedMeasure(r, object.measures[i])]

=============================================================================
