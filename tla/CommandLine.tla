----------------------------- MODULE CommandLine -----------------------------
(***************************************************************************)
(* The program mapper: main.cpp reads its arguments, asks for the choices  *)
(* that they leave open, reads the files, calls run, and prints what it    *)
(* returns. Of run only its promise is taken here (module Mapping), which  *)
(* the search implements (ImplementsMapping of module Mapper).             *)
(*                                                                         *)
(* Arguments are strings, in the spelling of the help texts, although main *)
(* ignores case. Synonyms of an option and the messages are left out.      *)
(***************************************************************************)
EXTENDS Qasm

CONSTANTS Invocations,          \* the calls of the program considered
          DeviceFile,           \* the numbers in the coupling map file
          Results(_)            \* the results of run considered, per circuit

VARIABLES invocation,           \* the arguments, what the user answers, the files
          iter,                 \* the next argument
          settings,             \* what is chosen so far
          answers,              \* what is left of standard input
          asking,               \* the list that the program asks for, if it does
          selected,             \* what was selected of it
          outcome,              \* of run
          output                \* the printed comments and program

commandVars == <<qasmVars, invocation, iter, settings, answers, asking, selected,
                outcome, output>>

Promise == INSTANCE Mapping WITH
               circuit <- [gates |-> object.gates, numLogical |-> NumQubits],
               swapsAllowed <- settings.expander # <<"NoSwaps">>

(* parseCouplingMap: the number of qubits, that of the couplings, and the  *)
(* couplings.                                                              *)
CouplingMapOf(numbers) ==
    [numPhysicalQubits |-> numbers[1],
     edges |-> {<<numbers[2 * i + 1], numbers[2 * i + 2]>> : i \in 1..numbers[2]}]

ASSUME DeviceAssumption ==
    CouplingMapOf(DeviceFile) = [numPhysicalQubits |-> NumPhysical, edges |-> Couplings]

-----------------------------------------------------------------------------
(* The choices. A choice is a sequence: its name and its parameters.       *)

Names ==
    [expander |-> <<"DefaultExpander", "GreedyTopK", "NoSwaps">>,
     cost |-> <<"CXFrontier", "CXFull", "SimpleCost">>,
     latency |-> <<"Latency_1_2_6", "Latency_1_3", "Latency_1", "Table">>,
     queue |-> <<"DefaultQueue", "TrimSlowNodes">>,
     filters |-> <<"HashFilter", "HashFilter2">>,
     nodeMods |-> <<"GreedyMapper">>]

NumParameters(name) ==
    CASE name \in {"GreedyTopK", "Table"} -> 1 [] name = "TrimSlowNodes" -> 2 [] OTHER -> 0

Open == <<>>                    \* a choice that is not made yet
Single == <<"expander", "cost", "latency", "queue">>   \* in the order of the questions
KindOf == ("-expander" :> "expander") @@ ("-cost" :> "cost") @@ ("-latency" :> "latency")
          @@ ("-queue" :> "queue") @@ ("-filter" :> "filters") @@ ("-nodemod" :> "nodeMods")

NoSettings ==
    [expander |-> Open, cost |-> Open, latency |-> Open, queue |-> Open,
     filters |-> <<>>, nodeMods |-> <<>>, retainPopped |-> "0", initialSearchCycles |-> "0",
     verbose |-> FALSE, files |-> <<>>]

(* For filters and node modifiers, every choice counts; else the last one. *)
Chosen(kind, choice) ==
    [settings EXCEPT ![kind] = IF kind \in ToSet(Single) THEN choice ELSE Append(@, choice)]

Init ==
    /\ invocation \in Invocations
    /\ text = <<>>
    /\ reader = AtStart
    /\ object = EmptyObject
    /\ phase = "options"
    /\ iter = 1
    /\ settings = NoSettings
    /\ answers = invocation.answers
    /\ asking = "filters"
    /\ selected = {}
    /\ outcome = Searching
    /\ output = <<>>

-----------------------------------------------------------------------------
(* The loop over the arguments.                                            *)

Arguments == invocation.arguments
Is(option) == phase = "options" /\ iter <= Len(Arguments) /\ Arguments[iter] = option

(* The n arguments after the next one are used up; without them, the       *)
(* program follows a null pointer.                                         *)
Take(n, legal, s) ==
    /\ LET fits == iter + n <= Len(Arguments) /\ legal
       IN  /\ phase' = IF fits THEN "options" ELSE "crashed"
           /\ settings' = IF fits THEN s ELSE settings
    /\ iter' = iter + n + 1
    /\ UNCHANGED <<text, reader, object, invocation, answers, asking, selected, outcome, output>>

Argument(i) == IF iter + i <= Len(Arguments) THEN Arguments[iter + i] ELSE ""

FaultyWithDefaults ==                  \* the defaults replace what was chosen
    [settings EXCEPT !.expander = <<Head(Names.expander)>>, !.cost = <<Head(Names.cost)>>,
                     !.latency = <<Head(Names.latency)>>, !.queue = <<Head(Names.queue)>>]

WithDefaults ==
    [kind \in DOMAIN settings |->
        IF kind \in ToSet(Single) /\ settings[kind] = Open THEN <<Head(Names[kind])>>
        ELSE settings[kind]]

TakeDefaults == Is("-default") /\ Take(0, TRUE, WithDefaults)

TakeChoice ==
    \E option \in DOMAIN KindOf :
        LET kind == KindOf[option]
            name == Argument(1)
            n == NumParameters(name)
            parameters == [i \in 1..n |-> Argument(1 + i)]
        IN  /\ Is(option)
            /\ Take(1 + n, Contains(Names[kind], name), Chosen(kind, <<name>> \o parameters))

TakeRetain ==
    Is("-retain") /\ Take(1, TRUE, [settings EXCEPT !.retainPopped = Argument(1)])

TakeSearchCycles ==
    \/ /\ Is("-pureSwapDiameter")
       /\ Take(0, TRUE, [settings EXCEPT !.initialSearchCycles = "-1"])
    \/ /\ Is("-pureSwaps")
       /\ Take(1, TRUE, [settings EXCEPT !.initialSearchCycles = Argument(1)])

TakeVerbose == Is("-v") /\ Take(0, TRUE, [settings EXCEPT !.verbose = TRUE])

(* The loop over a given layout never gets past its first number: it       *)
(* writes that number again and again, beyond the end of the vector. The   *)
(* layouts considered have a number.                                       *)
TakeLayout == \E option \in {"-qal", "-laq"} : Is(option) /\ Take(1, FALSE, settings)

Options == DOMAIN KindOf \cup
           {"-default", "-retain", "-pureSwapDiameter", "-pureSwaps", "-v", "-qal", "-laq"}

(* Anything else is a file: the program, then the coupling map.            *)
TakeFile ==
    /\ phase = "options" /\ iter <= Len(Arguments) /\ Arguments[iter] \notin Options
    /\ Take(0, Len(settings.files) < 2, [settings EXCEPT !.files = Append(@, Arguments[iter])])

EndOfOptions ==
    /\ phase = "options"
    /\ iter > Len(Arguments)
    /\ phase' = IF \E i \in DOMAIN Single : settings[Single[i]] = Open
                THEN "questions" ELSE "opening"
    /\ UNCHANGED <<text, reader, object, invocation, iter, settings, answers, asking,
                   selected, outcome, output>>

-----------------------------------------------------------------------------
(* The questions. Once one is asked, filters and node modifiers are too.   *)

Uninitialized == "?"            \* a number that could not be read

(* The next number of standard input; choice is -1 when there is none.     *)
Answer == IF answers = <<>> THEN -1 ELSE Head(answers)
Parameter(i) == IF i < Len(answers) THEN ToString(answers[i + 1]) ELSE Uninitialized

(* The answer selects a choice, whose parameters are the next answers.     *)
Select(kind) ==
    LET name == Names[kind][Answer + 1]
        n == NumParameters(name)
    IN  /\ settings' = Chosen(kind, <<name>> \o [i \in 1..n |-> Parameter(i)])
        /\ answers' = SubSeq(answers, n + 2, Len(answers))

Skip == /\ answers' = (IF answers = <<>> THEN <<>> ELSE Tail(answers))
        /\ UNCHANGED settings

UnchangedByQuestions == UNCHANGED <<text, reader, object, invocation, iter, outcome, output>>

Offered(kind) == Answer \in 0..Len(Names[kind])-1
OpenKinds == {i \in DOMAIN Single : settings[Single[i]] = Open}

AskChoice ==
    /\ phase = "questions" /\ OpenKinds # {}
    /\ LET kind == Single[Min(OpenKinds)]
       IN  IF Offered(kind) THEN Select(kind) /\ phase' = phase
           ELSE Skip /\ phase' = "crashed"
    /\ UNCHANGED <<asking, selected>>
    /\ UnchangedByQuestions

(* Of a list, each can be selected once, besides those in the arguments;   *)
(* no number of the list ends it.                                          *)
AskForMore ==
    /\ phase = "questions" /\ OpenKinds = {}
    /\ LET name == Names[asking][Answer + 1]
           isNew == Offered(asking) /\ name \notin selected
           all == Cardinality(selected) + 1 = Len(Names[asking])
       IN  /\ IF isNew THEN Select(asking) ELSE Skip
           /\ IF ~Offered(asking) \/ (isNew /\ all)
              THEN /\ selected' = {}
                   /\ asking' = "nodeMods"
                   /\ phase' = IF asking = "filters" THEN phase ELSE "opening"
              ELSE /\ selected' = IF isNew THEN selected \cup {name} ELSE selected
                   /\ UNCHANGED <<asking, phase>>
    /\ UnchangedByQuestions

-----------------------------------------------------------------------------
(* The files, and run.                                                     *)

(* A file that does not exist is read like an empty one. The first token   *)
(* is read.                                                                *)
File(i) == IF i <= Len(settings.files) THEN settings.files[i] ELSE ""

OpenProgram ==
    /\ phase = "opening"
    /\ text' = IF File(1) = "program" THEN invocation.text ELSE <<>>
    /\ reader' = GetToken(text', 1, FALSE)
    /\ phase' = "reading"
    /\ UNCHANGED <<object, invocation, iter, settings, answers, asking, selected,
                   outcome, output>>

ParseProgram ==
    /\ Parse
    /\ UNCHANGED <<invocation, iter, settings, answers, asking, selected, outcome, output>>

Terminate(how) ==
    /\ phase' \in how
    /\ UNCHANGED <<text, reader, object, invocation, iter, settings, answers, asking, selected,
                   outcome, output>>

(* Without a coupling map file, the number of couplings is uninitialized.  *)
HasDevice == File(2) = "device"
MissDevice == phase = "mapping" /\ ~HasDevice /\ Terminate({"crashed", "thrown"})

NumUsed == Max({0} \cup UNION {{object.gates[g].control + 1, object.gates[g].target + 1} :
                                  g \in DOMAIN object.gates})

(* run throws before it searches: a gate has no qubits or one twice, or    *)
(* there are too many qubits.                                              *)
IsRefused ==
    \/ \E g \in DOMAIN object.gates : object.gates[g].control = object.gates[g].target
    \/ NumUsed > Min({NumQubits, NumPhysical})

(* run throws, which it may also do when it finds no mapping.              *)
ThrowFromRun == phase = "mapping" /\ HasDevice /\ Terminate({"thrown"})

Map ==
    /\ phase = "mapping" /\ HasDevice /\ ~IsRefused
    /\ phase' = "printing"
    /\ UNCHANGED <<text, reader, object, invocation, iter, settings, answers, asking, selected,
                   output>>
    /\ \E r \in Results(object.gates) : outcome' = Success(r)
    /\ Promise!Succeed

(* toQasm2: the initial layout as comments, and the program.               *)
PrintProgram ==
    /\ phase = "printing"
    /\ output' = [qal |-> outcome.result.inferredQal, program |-> Printed(outcome.result)]
    /\ phase' = "ended"
    /\ UNCHANGED <<text, reader, object, invocation, iter, settings, answers, asking, selected,
                   outcome>>

TakeArgument == \/ TakeDefaults \/ TakeChoice \/ TakeRetain \/ TakeSearchCycles
                \/ TakeVerbose \/ TakeLayout \/ TakeFile \/ EndOfOptions

HasEnded == phase \in {"ended", "thrown", "exited", "crashed"}
Terminated == HasEnded /\ UNCHANGED commandVars

Next == \/ TakeArgument \/ AskChoice \/ AskForMore \/ OpenProgram \/ ParseProgram
        \/ MissDevice \/ ThrowFromRun \/ Map \/ PrintProgram \/ Terminated

Spec == Init /\ [][Next]_commandVars

-----------------------------------------------------------------------------
HasRead == phase \in {"mapping", "printing", "ended"}

(* Which choice the user has made: the last one of its kind among the      *)
(* arguments, wherever "-default" stands; else the default, if asked for;  *)
(* else the answer. invocation.options lists the options, each with its    *)
(* arguments.                                                              *)
Choice(kind) ==
    LET options == invocation.options
        of == SelectSeq(options, LAMBDA o : o[1] \in DOMAIN KindOf /\ KindOf[o[1]] = kind)
    IN  IF of # <<>> THEN Tail(Last(of))
        ELSE IF Contains(options, <<"-default">>) THEN <<Head(Names[kind])>>
        ELSE invocation.answered[kind]

ChoicesAreRespected ==
    HasRead => \A kind \in ToSet(Single) : settings[kind] = Choice(kind)

(* Where the reader loses something. A comment takes the end of its line   *)
(* with it, so that without another separator the tokens before and after  *)
(* it become one, "u//note" and "q[1]" for example "uq[1]"; inside of      *)
(* brackets they are one anyway. In a definition a slash is never kept,    *)
(* and what follows two of them is taken for text.                         *)
Breaks == Separators \cup {";", "[", "(", "{", "}"}
Comments(t) == {i \in 1..Len(t)-1 : t[i] = "/" /\ t[i+1] = "/"}
EndOfLine(t, i) == Min({j \in i..Len(t) : t[j] = NewLine} \cup {Len(t)})

CommentsStandApart(t) ==
    \A i \in Comments(t) :
        \/ i = 1 \/ t[i-1] \in Breaks
        \/ EndOfLine(t, i) = Len(t) \/ t[EndOfLine(t, i) + 1] \in Breaks

DefinitionsHaveNoSlash(t) ==
    LET endOf == ("gate" :> "}") @@ ("opaque" :> ";")
        slashes == {j \in DOMAIN t : t[j] = "/"}
    IN  \A i \in {j \in DOMAIN t : t[j] \in DOMAIN endOf} :
            \A j \in slashes : i < j => \E k \in i..j : t[k] = endOf[t[i]]

IsLegible(t) == CommentsStandApart(t) /\ DefinitionsHaveNoSlash(t)

(* What the program makes of the file is what its statements say, however  *)
(* they are laid out, if the file is legible.                              *)
ReadsProgram ==
    HasRead /\ File(1) = "program" /\ IsLegible(text) =>
        LET p == invocation.program
            of(kind) == OfKind(p, kind)
            all(kind, F(_)) == [i \in DOMAIN of(kind) |-> F(of(kind)[i])]
            measure(s) == <<FlatIndex(p, "qreg", s.qubit), FlatIndex(p, "creg", s.bit)>>
            gate(s) ==
                LET q == [i \in DOMAIN s.qubits |-> FlatIndex(p, "qreg", s.qubits[i])]
                IN  [name |-> s.name, target |-> IF q = <<>> THEN Unmapped ELSE Last(q),
                     control |-> IF Len(q) = 2 THEN q[1] ELSE Unmapped]
        IN  /\ [object EXCEPT !.version = ""] =
                   [version |-> "",
                    includes |-> all("include", LAMBDA s : s.file),
                    customGates |-> all("gate", LAMBDA s : s.definition),
                    opaqueGates |-> all("opaque", LAMBDA s : s.definition),
                    qregs |-> all("qreg", LAMBDA s : [name |-> s.name, size |-> s.size]),
                    cregs |-> all("creg", LAMBDA s : [name |-> s.name, size |-> s.size]),
                    measures |-> all("measure", measure),
                    gates |-> all("call", gate)]
            /\ of("OPENQASM") # <<>> => object.version = of("OPENQASM")[1].version

(* The measurements of a program come after the gates on their qubits, and *)
(* measure qubits that have a place.                                       *)
MeasuresLast(p) ==
    LET o == Operations(p)
    IN  \A i \in DOMAIN o : o[i].name = "measure" =>
          /\ \E j \in DOMAIN o : Len(o[j].qubits) = 2 /\ Contains(o[j].qubits, o[i].qubits[1])
          /\ \A j \in i+1..Len(o) : Contains(o[j].qubits, o[i].qubits[1]) =>
                                        o[j].name = "measure"

HasPrinted == phase = "ended" /\ File(1) = "program" /\ output.program # <<>>

(* The printed program does to the qubits, started where the comment says, *)
(* what the original does, if that is legible.                             *)
OutputIsEquivalent ==
    HasPrinted /\ MeasuresLast(invocation.program) /\ IsLegible(text) =>
        AreEquivalent(Operations(invocation.program),
                      Logical(Operations(output.program), output.qal))

(* It only uses bits that it declares.                                     *)
OutputIsWellFormed ==
    HasPrinted /\ MeasuresLast(invocation.program)
               /\ Sizes(OfKind(invocation.program, "creg")) <= NumPhysical =>
        IsWellFormed(output.program)

(* "returns entire gate definition (except the 'gate' keyword) as a        *)
(* string." (QasmObject.cpp:182) Comments are no part of it.               *)
DefinitionsAreEntire ==
    HasRead /\ File(1) = "program" =>
        \A i \in DOMAIN object.customGates :
            object.customGates[i] = OfKind(invocation.program, "gate")[i].definition

=============================================================================
