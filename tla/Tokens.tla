------------------------------- MODULE Tokens -------------------------------
(***************************************************************************)
(* The three functions by which QasmObject.cpp reads a file: getToken,     *)
(* getCustomGate and getRestOfStatement. Each reads character after        *)
(* character into a buffer, until it has something to return.              *)
(*                                                                         *)
(* A text is a sequence of strings: a special character is one by itself,  *)
(* and so is any run of other characters, which the functions only copy.   *)
(* Carriage returns, which getToken ignores, and the limits of the buffers *)
(* are left out.                                                           *)
(***************************************************************************)
EXTENDS Integers, SequencesExt

NoToken == <<>>                 \* a null pointer: the end of the file
Semicolon == <<";">>
Quote == "\""
NewLine == "\n"
Separators == {" ", NewLine, "\t", ","}
Opening(c) == CASE c = ")" -> "(" [] c = "]" -> "["

(* The local variables of a call: the buffer, the bracket and the comment  *)
(* it is in, and how it has ended, if it has.                              *)
Begin == [buffer |-> NoToken, inside |-> "", comment |-> FALSE, end |-> "not yet",
          semicolon |-> FALSE, position |-> 0]

Keep(s, c) == [s EXCEPT !.buffer = Append(@, c)]
Stop(s) == [s EXCEPT !.end = "token"]
Fail(s) == [s EXCEPT !.end = "assertion"]

(* A comment ends with its line. The new line is dropped too: it does not  *)
(* end the token before the comment.                                       *)
SkipComment(s, c) == [s EXCEPT !.comment = c # NewLine]

IsSecondSlash(s, c) == c = "/" /\ s.buffer # <<>> /\ Last(s.buffer) = "/"
BeginComment(s) == [s EXCEPT !.buffer = Front(@), !.comment = TRUE]

(* A separator ends the token that it follows, but not inside of brackets. *)
FaultySeparate(s, c) == IF s.inside = "" THEN Stop(s) ELSE Keep(s, c)
Separate(s, c) ==
    IF s.inside # "" THEN Keep(s, c) ELSE IF s.buffer = <<>> THEN s ELSE Stop(s)

(* A semicolon is a token, and ends another one; then the next call        *)
(* returns it.                                                             *)
EndStatement(s) ==
    IF s.inside # "" THEN Fail(s)
    ELSE IF s.buffer = <<>> THEN Stop(Keep(s, ";"))
    ELSE Stop([s EXCEPT !.semicolon = TRUE])

(* What getToken does with the next character.                             *)
NextOfToken(s, c) ==
    IF s.comment THEN SkipComment(s, c)
    ELSE IF s.inside = Quote THEN IF c = Quote THEN Stop(Keep(s, c)) ELSE Keep(s, c)
    ELSE CASE c = Quote -> IF s.buffer = <<>> THEN [Keep(s, c) EXCEPT !.inside = c] ELSE Fail(s)
           [] c = "/" -> IF IsSecondSlash(s, c) THEN BeginComment(s) ELSE Keep(s, c)
           [] c = ";" -> EndStatement(s)
           [] c \in Separators -> Separate(s, c)
           [] c \in {"(", "["} ->
                  IF s.inside = "" THEN [Keep(s, c) EXCEPT !.inside = c] ELSE Fail(s)
           [] c \in {")", "]"} ->
                  IF s.inside = Opening(c) THEN [Keep(s, c) EXCEPT !.inside = ""] ELSE Fail(s)
           [] OTHER -> Keep(s, c)

(* getCustomGate and getRestOfStatement forget a slash that begins no      *)
(* comment, so that the next one begins none either.                       *)
NextOfRest(s, c) ==
    IF s.comment THEN SkipComment(s, c)
    ELSE IF c = "/" THEN IF IsSecondSlash(s, c) THEN BeginComment(s) ELSE s
    ELSE Keep(s, c)

NextOfDefinition(s, c) ==
    CASE ~s.comment /\ c = "{" ->
           IF s.inside = "" THEN [Keep(s, c) EXCEPT !.inside = c] ELSE Fail(s)
      [] ~s.comment /\ c = "}" -> IF s.inside = "{" THEN Stop(Keep(s, c)) ELSE Fail(s)
      [] OTHER -> NextOfRest(s, c)

NextOfStatement(s, c) ==
    IF ~s.comment /\ c = ";" THEN Stop(Keep(s, c)) ELSE NextOfRest(s, c)

(* Which of the three functions a call is one of.                          *)
NextOf(function, s, c) ==
    CASE function = "getToken" -> NextOfToken(s, c)
      [] function = "getCustomGate" -> NextOfDefinition(s, c)
      [] function = "getRestOfStatement" -> NextOfStatement(s, c)

(* The call in state s that reads from this position on, until it ends or  *)
(* the file does, and has then come to another position.                   *)
RECURSIVE Read(_, _, _, _)
Read(function, s, text, position) ==
    IF s.end # "not yet" \/ position > Len(text) THEN [s EXCEPT !.position = position]
    ELSE Read(function, NextOf(function, s, text[position]), text, position + 1)

-----------------------------------------------------------------------------
(* What the calls return, where they have come to, and if they have seen a *)
(* semicolon that they did not return, or failed.                          *)

Return(s) ==
    [token |-> s.buffer, position |-> s.position, sawSemicolon |-> s.semicolon,
     failed |-> s.end = "assertion"]

GetToken(text, position, sawSemicolon) ==
    IF sawSemicolon
    THEN [token |-> Semicolon, position |-> position, sawSemicolon |-> FALSE, failed |-> FALSE]
    ELSE Return(Read("getToken", Begin, text, position))

(* These two fail at the end of the file.                                  *)
MustEnd(s) == IF s.end = "token" THEN s ELSE Fail(s)
GetCustomGate(text, position) ==
    Return(MustEnd(Read("getCustomGate", Begin, text, position)))
GetRestOfStatement(text, position) ==
    Return(MustEnd(Read("getRestOfStatement", Begin, text, position)))

=============================================================================
