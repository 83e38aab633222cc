------------------------------- MODULE Detect -------------------------------
(***************************************************************************)
(* parse-detect-ambiguous.c: what the tokens ahead can be the beginning of *)
(* is found by four functions that ask the look-ahead one question after   *)
(* another, "is the next token of this kind?", and that call one of them   *)
(* for every operand between parentheses.                                  *)
(*                                                                         *)
(* The functions are modelled as graphs of questions.  A frame is one      *)
(* activation: the function, the question it has reached (pc) and its      *)
(* local variables.  A question leads to one of two effects: another       *)
(* question, a call, or a return.  A syntax_structure, a word of flags in  *)
(* the code, is the set of the flags.                                      *)
(***************************************************************************)
EXTENDS Integers, Sequences

A == "ARGUMENT"
D == "DEFINE"
E == "EXPRESSION"
F == "FUNCTION"
P == "PARAMETER"

NewArray == "NEW_ARRAY"
NewObject == "NEW_OBJECT"

Structures == {A, D, E, F, P}
NewStructures == {NewArray, NewObject}

(* An L_TYPE token carries which type it is; only void matters anywhere.    *)
TypeTokens == {"TYPE", "VOID"}
Matches(token, kind) == token = kind \/ (kind = "TYPE" /\ token \in TypeTokens)

-----------------------------------------------------------------------------
(* Effects of an answered question.                                         *)

Go(frame, pc) == [do |-> "go", frame |-> [frame EXCEPT !.pc = pc]]
Give(structure) == [do |-> "give", structure |-> structure]
Call(frame, restriction) ==
  [do |-> "call", frame |-> [frame EXCEPT !.pc = "comma"], restriction |-> restriction]

Enter(fn, restriction) ==
  [fn |-> fn, pc |-> "type", restriction |-> restriction,
   wasEmpty |-> FALSE, hasArray |-> FALSE]

Empty(frame, wasEmpty) == [frame EXCEPT !.wasEmpty = wasEmpty]

AllowIfOnly(allow, restriction, allowed) ==
  IF restriction = allowed THEN allow ELSE {}

(* allow_if: a flag that stands only where another is still possible.       *)
AllowIf(allow, restriction, allowed) ==
  IF restriction \cap allowed # {} THEN allow ELSE {}

-----------------------------------------------------------------------------
(* detect_ambiguous_expression_ambiguous.                                   *)

NestedOperand(r) ==
  AllowIf({P}, r, {A}) \cup AllowIf({E, F}, r, {E}) \cup
  AllowIf({A, P}, r, {F}) \cup AllowIf({P}, r, {P})

Nested(f) ==
  LET r == f.restriction
      noExpression == [f EXCEPT !.hasArray = TRUE, !.restriction = r \ {E}]
  IN CASE f.pc = "type"    -> <<"TYPE", Go(f, "open"), Go(f, "ident")>>
       [] f.pc = "ident"   -> <<"IDENTIFIER", Go(f, "open"), Give(r \cap {E})>>
       [] f.pc = "open"    -> <<"OPEN_PAREN", Go(f, "empty"), Go(f, "bracket")>>
       [] f.pc = "empty"   -> <<"CLOSE_PAREN", Go(Empty(f, TRUE), "open"), Call(f, NestedOperand(r))>>
       [] f.pc = "comma"   -> <<"COMMA", Call(f, NestedOperand(r)), Go(f, "close")>>
       [] f.pc = "close"   -> <<"CLOSE_PAREN", Go(Empty(f, FALSE), "open"), Give(r \cap {E})>>
       [] f.pc = "bracket" -> <<"OPEN_BRACKET", Go(f, "array"), Go(f, "name")>>
       [] f.pc = "array"   -> <<"CLOSE_BRACKET", Go(noExpression, "name"), Give(r \cap {E})>>
       [] f.pc = "name"    -> <<"IDENTIFIER", Go(f, "named"), Go(f, "body")>>
       [] f.pc = "named"   -> <<"OPEN_PAREN", Give(r \cap {F}), Give(r \cap {A})>>
       [] f.pc = "body"    -> <<"OPEN_BRACE", Give(IF f.wasEmpty /\ ~f.hasArray THEN r \cap {F} ELSE {}),
                                Give(r \cap {E, P})>>

(* What an operand that can only be one thing decides for the whole.        *)
NestedOperandIs(f, operand) ==
  LET r == f.restriction
  IN CASE operand = {} -> Give({})
       [] operand = {A} -> Give(r \cap {F})
       [] operand \in {{E}, {F}} -> Give(r \cap {E})
       [] operand = {P} -> Go([f EXCEPT !.restriction = r \cap {A, F, P}], "comma")
       [] OTHER -> Go(f, "comma")

-----------------------------------------------------------------------------
(* _detect_ambiguous_statement.                                             *)

StatementOperand(r) ==
  AllowIf({P}, r, {D}) \cup AllowIf({E, F}, r, {E}) \cup AllowIf({A, P}, r, {F})

Statement(f) ==
  LET r == f.restriction
      noExpression == [f EXCEPT !.restriction = r \ {E}]
  IN CASE f.pc = "type"      -> <<"TYPE", Go(f, "open"), Go(f, "ident")>>
       [] f.pc = "ident"     -> <<"IDENTIFIER", Go(f, "open"), Give({E})>>
       [] f.pc = "open"      -> <<"OPEN_PAREN", Go(f, "empty"), Go(f, "bracket")>>
       [] f.pc = "empty"     -> <<"CLOSE_PAREN", Go(f, "open"), Call(f, StatementOperand(r))>>
       [] f.pc = "comma"     -> <<"COMMA", Call(f, StatementOperand(r)), Go(f, "close")>>
       [] f.pc = "close"     -> <<"CLOSE_PAREN", Go(f, "open"), Give(r \cap {E})>>
       [] f.pc = "bracket"   -> <<"OPEN_BRACKET", Go(f, "array"), Go(f, "name")>>
       [] f.pc = "array"     -> <<"CLOSE_BRACKET", Go(noExpression, "name"), Give(r \cap {E})>>
       [] f.pc = "name"      -> <<"IDENTIFIER", Go(f, "assign"), Give(r \cap {E})>>
       [] f.pc = "assign"    -> <<"ASSIGN", Give({D}), Go(f, "another")>>
       [] f.pc = "another"   -> <<"COMMA", Give({D}), Go(f, "semicolon")>>
       [] f.pc = "semicolon" -> <<"SEMICOLON", Give({D}), Go(f, "named")>>
       [] f.pc = "named"     -> <<"OPEN_PAREN", Give({F}), Give({})>>

StatementOperandIs(f, operand) ==
  LET r == f.restriction
  IN CASE operand = {} -> Give({})
       [] operand = {A} -> Give(r \cap {F})
       [] operand \in {{E}, {F}} -> Give(r \cap {E})
       [] operand = {P} -> Go([f EXCEPT !.restriction = r \cap {D, F}], "comma")
       [] OTHER -> Go(f, "comma")

-----------------------------------------------------------------------------
(* _detect_ambiguous_expression.                                            *)

Expression(f) ==
  CASE f.pc = "type"    -> <<"TYPE", Give({F}), Go(f, "ident")>>
    [] f.pc = "ident"   -> <<"IDENTIFIER", Go(f, "open"), Give({E})>>
    [] f.pc = "open"    -> <<"OPEN_PAREN", Go(f, "empty"), Go(f, "bracket")>>
    [] f.pc = "empty"   -> <<"CLOSE_PAREN", Go(Empty(f, TRUE), "open"), Call(f, {A, E, F, P})>>
    [] f.pc = "comma"   -> <<"COMMA", Call(f, {A, E, F, P}), Go(f, "close")>>
    [] f.pc = "close"   -> <<"CLOSE_PAREN", Go(Empty(f, FALSE), "open"), Give({E})>>
    [] f.pc = "bracket" -> <<"OPEN_BRACKET", Go(f, "array"), Go(f, "name")>>
    [] f.pc = "array"   -> <<"CLOSE_BRACKET", Give({F}), Give({E})>>
    [] f.pc = "name"    -> <<"IDENTIFIER", Give({F}), Go(f, "body")>>
    [] f.pc = "body"    -> <<"OPEN_BRACE", Give(IF f.wasEmpty THEN {F} ELSE {}), Give({E})>>

ExpressionOperandIs(f, operand) ==
  CASE operand = {} -> Give({})
    [] operand \in {{A}, {P}} -> Give({F})
    [] operand \in {{E}, {F}} -> Give({E})
    [] OTHER -> Go(f, "comma")

-----------------------------------------------------------------------------
(* _detect_ambiguous_new.                                                   *)

New(f) ==
  CASE f.pc = "type"  -> <<"TYPE", Give({NewArray}), Go(f, "ident")>>
    [] f.pc = "ident" -> <<"IDENTIFIER", Go(f, "open"), Give({})>>
    [] f.pc = "open"  -> <<"OPEN_PAREN", Go(f, "empty"), Go(f, "index")>>
    [] f.pc = "empty" -> <<"CLOSE_PAREN", Go(f, "again"), Call(f, {E, F, P})>>
    [] f.pc = "comma" -> <<"COMMA", Call(f, {E, F, P}), Go(f, "close")>>
    [] f.pc = "close" -> <<"CLOSE_PAREN", Go(f, "again"), Give({NewObject})>>
    [] f.pc = "again" -> <<"OPEN_PAREN", Give({NewArray}), Go(f, "index")>>
    [] f.pc = "index" -> <<"OPEN_BRACKET", Give({NewArray}), Give({NewObject})>>

NewOperandIs(f, operand) ==
  CASE operand = {} -> Give({})
    [] operand = {P} -> Give({NewArray})
    [] operand \in {{E}, {F}} -> Give({NewObject})
    [] OTHER -> Go(f, "comma")

-----------------------------------------------------------------------------
(* The activation on top of the stack asks, is answered, and is told what   *)
(* the call it made returned.                                               *)

EntryPoints == {"statement", "expression", "new"}

EnterDetect(fn) == Enter(fn, IF fn = "statement" THEN {D, E, F} ELSE {})

Questions(f) ==
  CASE f.fn = "nested" -> Nested(f)
    [] f.fn = "statement" -> Statement(f)
    [] f.fn = "expression" -> Expression(f)
    [] f.fn = "new" -> New(f)

Asks(f) == Questions(f)[1]
AnsweredUntilClosed(f, hit) ==
  IF f.pc = "close" /\ ~hit THEN Go(f, "comma") ELSE Questions(f)[IF hit THEN 2 ELSE 3]
Answered(f, hit) == Questions(f)[IF hit THEN 2 ELSE 3]

OperandIs(f, operand) ==
  CASE f.fn = "nested" -> NestedOperandIs(f, operand)
    [] f.fn = "statement" -> StatementOperandIs(f, operand)
    [] f.fn = "expression" -> ExpressionOperandIs(f, operand)
    [] f.fn = "new" -> NewOperandIs(f, operand)

(* The call stack after an effect, its top last, and the value that a        *)
(* return leaves for the caller: at most one.                                *)
FramesAfter(frames, effect) ==
  LET callers == SubSeq(frames, 1, Len(frames) - 1)
  IN CASE effect.do = "go" -> Append(callers, effect.frame)
       [] effect.do = "call" -> callers \o <<effect.frame, Enter("nested", effect.restriction)>>
       [] effect.do = "give" -> callers

ValueAfter(effect) == IF effect.do = "give" THEN <<effect.structure>> ELSE <<>>

=============================================================================
