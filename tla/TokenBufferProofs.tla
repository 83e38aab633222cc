-------------------------- MODULE TokenBufferProofs --------------------------
(***************************************************************************)
(* Proofs about TokenBuffer, for sources, stacks and look-aheads of every   *)
(* length and any kinds of token.  The invariant says that the stack, from   *)
(* its top, and then the array of the look-ahead are the end of what was     *)
(* scanned (OrderInv), that the parser holds at most the token before that   *)
(* (HeldInv), and where in it the look-ahead stands (LookInv).  A detection   *)
(* ends only with a result for its caller: FrameInv types its activations.    *)
(***************************************************************************)
EXTENDS TokenBuffer, TLAPS, WellFoundedInduction

-----------------------------------------------------------------------------
(* Induction on the natural numbers, in the form the provers can use: the    *)
(* least element of a set.  What a recursive function returns is proved by    *)
(* taking the least of the arguments that it would be false of.              *)

LEMMA LeastElement ==
  ASSUME NEW S \in SUBSET Nat, S # {}
  PROVE  \E n \in S : \A m \in S : n <= m
<1> DEFINE R == {ss \in Nat \X Nat : ss[1] < ss[2]}
<1>1. IsWellFoundedOn(R, Nat)
  BY NatLessThanWellFounded DEF OpToRel
<1>2. PICK n \in S : \A m \in S : <<m, n>> \notin R
  BY <1>1, WFMin
<1>3. ASSUME NEW m \in S
      PROVE  n <= m
  <2>1. m \in Nat /\ n \in Nat /\ <<m, n>> \in Nat \X Nat
    OBVIOUS
  <2>2. ~(m < n)
    BY <1>2, <2>1
  <2> QED
    BY <2>1, <2>2
<1> QED
  BY <1>3

(* What is false of some number is false of a least one.                      *)
LEMMA NoLeastNoElement ==
  ASSUME NEW S \in SUBSET Nat,
         ASSUME NEW n \in S
         PROVE  \E m \in S : m < n
  PROVE  S = {}
<1>1. SUFFICES ASSUME S # {}
               PROVE  FALSE
  OBVIOUS
<1>2. PICK n \in S : \A m \in S : n <= m
  BY <1>1, LeastElement
<1>3. PICK m \in S : m < n
  OBVIOUS
<1> QED
  BY <1>2, <1>3

-----------------------------------------------------------------------------
(* The activations of a detection.                                           *)

Words ==
  {"TYPE", "IDENTIFIER", "OPEN_PAREN", "CLOSE_PAREN", "COMMA", "OPEN_BRACKET", "CLOSE_BRACKET",
   "OPEN_BRACE", "ASSIGN", "SEMICOLON"}

(* The questions of each function.                                           *)
NestedPoints ==
  {"type", "ident", "open", "empty", "comma", "close", "bracket", "array", "name",
   "named", "body"}
StatementPoints ==
  {"type", "ident", "open", "empty", "comma", "close", "bracket", "array", "name",
   "assign", "another", "semicolon", "named"}
ExpressionPoints ==
  {"type", "ident", "open", "empty", "comma", "close", "bracket", "array", "name",
   "body"}
NewPoints ==
  {"type", "ident", "open", "empty", "comma", "close", "again", "index"}
Points == NestedPoints \cup StatementPoints \cup ExpressionPoints \cup NewPoints

GoodPoint(fn, pc) ==
  \/ fn = "nested" /\ pc \in NestedPoints
  \/ fn = "statement" /\ pc \in StatementPoints
  \/ fn = "expression" /\ pc \in ExpressionPoints
  \/ fn = "new" /\ pc \in NewPoints

Frames ==
  [fn : {"nested", "statement", "expression", "new"}, pc : Points,
   restriction : SUBSET Structures, wasEmpty : BOOLEAN, hasArray : BOOLEAN]

GoodFrame(f) == f \in Frames /\ GoodPoint(f.fn, f.pc)

GoodEffect(e) ==
  \/ e.do = "go" /\ GoodFrame(e.frame)
  \/ e.do = "call" /\ GoodFrame(e.frame) /\ e.restriction \in SUBSET Structures
  \/ e.do = "give"

LEMMA GoIsGood ==
  ASSUME NEW g \in Frames, NEW pc, GoodPoint(g.fn, pc)
  PROVE  GoodEffect(Go(g, pc))
<1>1. pc \in Points
  BY DEF GoodPoint, Points
<1>2. [g EXCEPT !.pc = pc] \in Frames /\ [g EXCEPT !.pc = pc].fn = g.fn /\ [g EXCEPT !.pc = pc].pc = pc
  BY <1>1 DEF Frames
<1> QED
  BY <1>2 DEF GoodEffect, GoodFrame, Go

LEMMA CallIsGood ==
  ASSUME NEW g \in Frames, GoodPoint(g.fn, "comma"), NEW r \in SUBSET Structures
  PROVE  GoodEffect(Call(g, r))
<1>1. "comma" \in Points
  BY DEF Points, NestedPoints
<1>2. [g EXCEPT !.pc = "comma"] \in Frames /\ [g EXCEPT !.pc = "comma"].fn = g.fn
      /\ [g EXCEPT !.pc = "comma"].pc = "comma"
  BY <1>1 DEF Frames
<1> QED
  BY <1>2 DEF GoodEffect, GoodFrame, Call

LEMMA GiveIsGood ==
  ASSUME NEW s
  PROVE  GoodEffect(Give(s))
BY DEF GoodEffect, Give

LEMMA Variants ==
  ASSUME NEW f \in Frames, NEW b \in BOOLEAN, NEW r \in SUBSET Structures
  PROVE  /\ Empty(f, b) \in Frames /\ Empty(f, b).fn = f.fn
         /\ [f EXCEPT !.restriction = r] \in Frames /\ [f EXCEPT !.restriction = r].fn = f.fn
         /\ [f EXCEPT !.hasArray = TRUE, !.restriction = r] \in Frames
         /\ [f EXCEPT !.hasArray = TRUE, !.restriction = r].fn = f.fn
BY DEF Empty, Frames

LEMMA NestedAsks ==
  ASSUME NEW f, GoodFrame(f), f.fn = "nested"
  PROVE  Nested(f)[1] \in Words /\ GoodEffect(Nested(f)[2]) /\ GoodEffect(Nested(f)[3])
<1>1. f \in Frames /\ f.pc \in NestedPoints /\ f.restriction \in SUBSET Structures
  BY DEF GoodFrame, GoodPoint, Frames
<1>2. \A pc \in NestedPoints : GoodPoint("nested", pc) /\ GoodEffect(Go(f, pc))
  BY <1>1, GoIsGood DEF GoodPoint
<1>3. ASSUME NEW b \in BOOLEAN
      PROVE  GoodEffect(Go(Empty(f, b), "open"))
  <2>1. Empty(f, b) \in Frames /\ Empty(f, b).fn = "nested" /\ GoodPoint("nested", "open")
    BY <1>1, <1>2, Variants DEF NestedPoints
  <2> QED
    BY ONLY <2>1, GoIsGood
<1>4. GoodEffect(Go([f EXCEPT !.hasArray = TRUE, !.restriction = f.restriction \ {E}], "name"))
  <2>1. f.restriction \ {E} \in SUBSET Structures
    BY <1>1
  <2> DEFINE g == [f EXCEPT !.hasArray = TRUE, !.restriction = f.restriction \ {E}]
  <2>2. g \in Frames /\ g.fn = "nested" /\ GoodPoint("nested", "name")
    BY <1>1, <1>2, <2>1, Variants DEF NestedPoints
  <2> HIDE DEF g
  <2>3. GoodEffect(Go(g, "name"))
    BY ONLY <2>2, GoIsGood
  <2> QED
    BY <2>3 DEF g
<1>5. GoodEffect(Call(f, NestedOperand(f.restriction)))
  <2>1. NestedOperand(f.restriction) \in SUBSET Structures
    BY DEF NestedOperand, AllowIf, Structures
  <2> QED
    BY <1>1, <1>2, <2>1, CallIsGood DEF NestedPoints
<1>6. CASE f.pc = "type"
  BY <1>2, <1>3, <1>4, <1>5, <1>6, GiveIsGood DEF Nested, NestedPoints, Words
<1>7. CASE f.pc = "ident"
  BY <1>2, <1>3, <1>4, <1>5, <1>7, GiveIsGood DEF Nested, NestedPoints, Words
<1>8. CASE f.pc = "open"
  BY <1>2, <1>3, <1>4, <1>5, <1>8, GiveIsGood DEF Nested, NestedPoints, Words
<1>9. CASE f.pc = "empty"
  BY <1>2, <1>3, <1>4, <1>5, <1>9, GiveIsGood DEF Nested, NestedPoints, Words
<1>10. CASE f.pc = "comma"
  BY <1>2, <1>3, <1>4, <1>5, <1>10, GiveIsGood DEF Nested, NestedPoints, Words
<1>11. CASE f.pc = "close"
  BY <1>2, <1>3, <1>4, <1>5, <1>11, GiveIsGood DEF Nested, NestedPoints, Words
<1>12. CASE f.pc = "bracket"
  BY <1>2, <1>3, <1>4, <1>5, <1>12, GiveIsGood DEF Nested, NestedPoints, Words
<1>13. CASE f.pc = "array"
  BY <1>2, <1>3, <1>4, <1>5, <1>13, GiveIsGood DEF Nested, NestedPoints, Words
<1>14. CASE f.pc = "name"
  BY <1>2, <1>3, <1>4, <1>5, <1>14, GiveIsGood DEF Nested, NestedPoints, Words
<1>15. CASE f.pc = "named"
  BY <1>2, <1>3, <1>4, <1>5, <1>15, GiveIsGood DEF Nested, NestedPoints, Words
<1>16. CASE f.pc = "body"
  BY <1>2, <1>3, <1>4, <1>5, <1>16, GiveIsGood DEF Nested, NestedPoints, Words
<1> QED
  BY <1>1, <1>6, <1>7, <1>8, <1>9, <1>10, <1>11, <1>12, <1>13, <1>14, <1>15, <1>16 DEF NestedPoints

LEMMA StatementAsks ==
  ASSUME NEW f, GoodFrame(f), f.fn = "statement"
  PROVE  Statement(f)[1] \in Words /\ GoodEffect(Statement(f)[2]) /\ GoodEffect(Statement(f)[3])
<1>1. f \in Frames /\ f.pc \in StatementPoints /\ f.restriction \in SUBSET Structures
  BY DEF GoodFrame, GoodPoint, Frames
<1>2. \A pc \in StatementPoints : GoodPoint("statement", pc) /\ GoodEffect(Go(f, pc))
  BY <1>1, GoIsGood DEF GoodPoint
<1>3. GoodEffect(Go([f EXCEPT !.restriction = f.restriction \ {E}], "name"))
  <2>1. f.restriction \ {E} \in SUBSET Structures
    BY <1>1
  <2> DEFINE g == [f EXCEPT !.restriction = f.restriction \ {E}]
  <2>2. g \in Frames /\ g.fn = "statement" /\ GoodPoint("statement", "name")
    BY <1>1, <1>2, <2>1, Variants DEF StatementPoints
  <2> HIDE DEF g
  <2>3. GoodEffect(Go(g, "name"))
    BY ONLY <2>2, GoIsGood
  <2> QED
    BY <2>3 DEF g
<1>5. GoodEffect(Call(f, StatementOperand(f.restriction)))
  <2>1. StatementOperand(f.restriction) \in SUBSET Structures
    BY DEF StatementOperand, AllowIf, Structures
  <2> QED
    BY <1>1, <1>2, <2>1, CallIsGood DEF StatementPoints
<1>6. CASE f.pc = "type"
  BY <1>2, <1>3, <1>5, <1>6, GiveIsGood DEF Statement, StatementPoints, Words
<1>7. CASE f.pc = "ident"
  BY <1>2, <1>3, <1>5, <1>7, GiveIsGood DEF Statement, StatementPoints, Words
<1>8. CASE f.pc = "open"
  BY <1>2, <1>3, <1>5, <1>8, GiveIsGood DEF Statement, StatementPoints, Words
<1>9. CASE f.pc = "empty"
  BY <1>2, <1>3, <1>5, <1>9, GiveIsGood DEF Statement, StatementPoints, Words
<1>10. CASE f.pc = "comma"
  BY <1>2, <1>3, <1>5, <1>10, GiveIsGood DEF Statement, StatementPoints, Words
<1>11. CASE f.pc = "close"
  BY <1>2, <1>3, <1>5, <1>11, GiveIsGood DEF Statement, StatementPoints, Words
<1>12. CASE f.pc = "bracket"
  BY <1>2, <1>3, <1>5, <1>12, GiveIsGood DEF Statement, StatementPoints, Words
<1>13. CASE f.pc = "array"
  BY <1>2, <1>3, <1>5, <1>13, GiveIsGood DEF Statement, StatementPoints, Words
<1>14. CASE f.pc = "name"
  BY <1>2, <1>3, <1>5, <1>14, GiveIsGood DEF Statement, StatementPoints, Words
<1>15. CASE f.pc = "assign"
  BY <1>2, <1>3, <1>5, <1>15, GiveIsGood DEF Statement, StatementPoints, Words
<1>16. CASE f.pc = "another"
  BY <1>2, <1>3, <1>5, <1>16, GiveIsGood DEF Statement, StatementPoints, Words
<1>17. CASE f.pc = "semicolon"
  BY <1>2, <1>3, <1>5, <1>17, GiveIsGood DEF Statement, StatementPoints, Words
<1>18. CASE f.pc = "named"
  BY <1>2, <1>3, <1>5, <1>18, GiveIsGood DEF Statement, StatementPoints, Words
<1> QED
  BY <1>1, <1>6, <1>7, <1>8, <1>9, <1>10, <1>11, <1>12, <1>13, <1>14, <1>15, <1>16, <1>17, <1>18 DEF StatementPoints

LEMMA ExpressionAsks ==
  ASSUME NEW f, GoodFrame(f), f.fn = "expression"
  PROVE  Expression(f)[1] \in Words /\ GoodEffect(Expression(f)[2]) /\ GoodEffect(Expression(f)[3])
<1>1. f \in Frames /\ f.pc \in ExpressionPoints /\ f.restriction \in SUBSET Structures
  BY DEF GoodFrame, GoodPoint, Frames
<1>2. \A pc \in ExpressionPoints : GoodPoint("expression", pc) /\ GoodEffect(Go(f, pc))
  BY <1>1, GoIsGood DEF GoodPoint
<1>3. ASSUME NEW b \in BOOLEAN
      PROVE  GoodEffect(Go(Empty(f, b), "open"))
  <2>1. Empty(f, b) \in Frames /\ Empty(f, b).fn = "expression" /\ GoodPoint("expression", "open")
    BY <1>1, <1>2, Variants DEF ExpressionPoints
  <2> QED
    BY ONLY <2>1, GoIsGood
<1>5. GoodEffect(Call(f, {A, E, F, P}))
  <2>1. {A, E, F, P} \in SUBSET Structures
    BY DEF Structures
  <2> QED
    BY <1>1, <1>2, <2>1, CallIsGood DEF ExpressionPoints
<1>6. CASE f.pc = "type"
  BY <1>2, <1>3, <1>5, <1>6, GiveIsGood DEF Expression, ExpressionPoints, Words
<1>7. CASE f.pc = "ident"
  BY <1>2, <1>3, <1>5, <1>7, GiveIsGood DEF Expression, ExpressionPoints, Words
<1>8. CASE f.pc = "open"
  BY <1>2, <1>3, <1>5, <1>8, GiveIsGood DEF Expression, ExpressionPoints, Words
<1>9. CASE f.pc = "empty"
  BY <1>2, <1>3, <1>5, <1>9, GiveIsGood DEF Expression, ExpressionPoints, Words
<1>10. CASE f.pc = "comma"
  BY <1>2, <1>3, <1>5, <1>10, GiveIsGood DEF Expression, ExpressionPoints, Words
<1>11. CASE f.pc = "close"
  BY <1>2, <1>3, <1>5, <1>11, GiveIsGood DEF Expression, ExpressionPoints, Words
<1>12. CASE f.pc = "bracket"
  BY <1>2, <1>3, <1>5, <1>12, GiveIsGood DEF Expression, ExpressionPoints, Words
<1>13. CASE f.pc = "array"
  BY <1>2, <1>3, <1>5, <1>13, GiveIsGood DEF Expression, ExpressionPoints, Words
<1>14. CASE f.pc = "name"
  BY <1>2, <1>3, <1>5, <1>14, GiveIsGood DEF Expression, ExpressionPoints, Words
<1>15. CASE f.pc = "body"
  BY <1>2, <1>3, <1>5, <1>15, GiveIsGood DEF Expression, ExpressionPoints, Words
<1> QED
  BY <1>1, <1>6, <1>7, <1>8, <1>9, <1>10, <1>11, <1>12, <1>13, <1>14, <1>15 DEF ExpressionPoints

LEMMA NewAsks ==
  ASSUME NEW f, GoodFrame(f), f.fn = "new"
  PROVE  New(f)[1] \in Words /\ GoodEffect(New(f)[2]) /\ GoodEffect(New(f)[3])
<1>1. f \in Frames /\ f.pc \in NewPoints /\ f.restriction \in SUBSET Structures
  BY DEF GoodFrame, GoodPoint, Frames
<1>2. \A pc \in NewPoints : GoodPoint("new", pc) /\ GoodEffect(Go(f, pc))
  BY <1>1, GoIsGood DEF GoodPoint
<1>5. GoodEffect(Call(f, {E, F, P}))
  <2>1. {E, F, P} \in SUBSET Structures
    BY DEF Structures
  <2> QED
    BY <1>1, <1>2, <2>1, CallIsGood DEF NewPoints
<1>6. CASE f.pc = "type"
  BY <1>2, <1>5, <1>6, GiveIsGood DEF New, NewPoints, Words
<1>7. CASE f.pc = "ident"
  BY <1>2, <1>5, <1>7, GiveIsGood DEF New, NewPoints, Words
<1>8. CASE f.pc = "open"
  BY <1>2, <1>5, <1>8, GiveIsGood DEF New, NewPoints, Words
<1>9. CASE f.pc = "empty"
  BY <1>2, <1>5, <1>9, GiveIsGood DEF New, NewPoints, Words
<1>10. CASE f.pc = "comma"
  BY <1>2, <1>5, <1>10, GiveIsGood DEF New, NewPoints, Words
<1>11. CASE f.pc = "close"
  BY <1>2, <1>5, <1>11, GiveIsGood DEF New, NewPoints, Words
<1>12. CASE f.pc = "again"
  BY <1>2, <1>5, <1>12, GiveIsGood DEF New, NewPoints, Words
<1>13. CASE f.pc = "index"
  BY <1>2, <1>5, <1>13, GiveIsGood DEF New, NewPoints, Words
<1> QED
  BY <1>1, <1>6, <1>7, <1>8, <1>9, <1>10, <1>11, <1>12, <1>13 DEF NewPoints

(* What the answer of an operand leads to.                                   *)
LEMMA RestrictedIsGood ==
  ASSUME NEW f, GoodFrame(f), GoodPoint(f.fn, "comma"), NEW r, r \subseteq f.restriction
  PROVE  GoodEffect(Go([f EXCEPT !.restriction = r], "comma"))
<1> DEFINE g == [f EXCEPT !.restriction = r]
<1>1. f \in Frames /\ r \in SUBSET Structures
  BY DEF GoodFrame, Frames
<1>2. g \in Frames /\ GoodPoint(g.fn, "comma")
  BY <1>1, Variants
<1> HIDE DEF g
<1>3. GoodEffect(Go(g, "comma"))
  BY ONLY <1>2, GoIsGood
<1> QED
  BY <1>3 DEF g

LEMMA OperandIsGood ==
  ASSUME NEW f, GoodFrame(f), NEW operand
  PROVE  GoodEffect(OperandIs(f, operand))
<1>1. f \in Frames /\ GoodPoint(f.fn, "comma")
      /\ f.fn \in {"nested", "statement", "expression", "new"}
  BY DEF GoodFrame, GoodPoint, Frames, NestedPoints, StatementPoints, ExpressionPoints, NewPoints
<1>2. GoodEffect(Go(f, "comma"))
  BY <1>1, GoIsGood
<1>3. \A s : GoodEffect(Give(s))
  BY GiveIsGood
<1>4. CASE f.fn = "nested"
  <2>1. GoodEffect(Go([f EXCEPT !.restriction = f.restriction \cap {A, F, P}], "comma"))
    BY <1>1, RestrictedIsGood
  <2>2. GoodEffect(NestedOperandIs(f, operand))
    BY ONLY <1>2, <1>3, <2>1 DEF NestedOperandIs
  <2> QED
    BY ONLY <1>4, <2>2 DEF OperandIs
<1>5. CASE f.fn = "statement"
  <2>1. GoodEffect(Go([f EXCEPT !.restriction = f.restriction \cap {D, F}], "comma"))
    BY <1>1, RestrictedIsGood
  <2>2. GoodEffect(StatementOperandIs(f, operand))
    BY ONLY <1>2, <1>3, <2>1 DEF StatementOperandIs
  <2> QED
    BY ONLY <1>5, <2>2 DEF OperandIs
<1>6. CASE f.fn = "expression"
  <2>1. GoodEffect(ExpressionOperandIs(f, operand))
    BY ONLY <1>2, <1>3 DEF ExpressionOperandIs
  <2> QED
    BY ONLY <1>6, <2>1 DEF OperandIs
<1>7. CASE f.fn = "new"
  <2>1. GoodEffect(NewOperandIs(f, operand))
    BY ONLY <1>2, <1>3 DEF NewOperandIs
  <2> QED
    BY ONLY <1>7, <2>1 DEF OperandIs
<1> QED
  BY <1>1, <1>4, <1>5, <1>6, <1>7

LEMMA QuestionIsGood ==
  ASSUME NEW f, GoodFrame(f), NEW hit \in BOOLEAN
  PROVE  Asks(f) \in Words /\ GoodEffect(Answered(f, hit))
<1>1. f.fn \in {"nested", "statement", "expression", "new"}
  BY DEF GoodFrame, Frames
<1>2. Questions(f)[1] \in Words /\ GoodEffect(Questions(f)[2]) /\ GoodEffect(Questions(f)[3])
  <2>1. CASE f.fn = "nested"
    BY ONLY <2>1, GoodFrame(f), NestedAsks DEF Questions
  <2>2. CASE f.fn = "statement"
    BY ONLY <2>2, GoodFrame(f), StatementAsks DEF Questions
  <2>3. CASE f.fn = "expression"
    BY ONLY <2>3, GoodFrame(f), ExpressionAsks DEF Questions
  <2>4. CASE f.fn = "new"
    BY ONLY <2>4, GoodFrame(f), NewAsks DEF Questions
  <2> QED
    BY <1>1, <2>1, <2>2, <2>3, <2>4
<1> QED
  BY <1>2 DEF Asks, Answered

GoodFrames == {f \in Frames : GoodPoint(f.fn, f.pc)}

LEMMA EntersAreGood ==
  /\ \A r \in SUBSET Structures : Enter("nested", r) \in GoodFrames
  /\ \A fn \in EntryPoints : EnterDetect(fn) \in GoodFrames
<1>1. "type" \in Points /\ {D, E, F} \in SUBSET Structures /\ {} \in SUBSET Structures
  BY DEF Points, NestedPoints, Structures
<1>2. \A fn \in {"nested", "statement", "expression", "new"} : GoodPoint(fn, "type")
  BY DEF GoodPoint, NestedPoints, StatementPoints, ExpressionPoints, NewPoints
<1>3. ASSUME NEW fn \in {"nested", "statement", "expression", "new"}, NEW r \in SUBSET Structures
      PROVE  Enter(fn, r) \in GoodFrames
  BY ONLY <1>1, <1>2 DEF Enter, GoodFrames, Frames
<1> QED
  BY <1>1, <1>3 DEF EnterDetect, EntryPoints

(* An activation that ends leaves a value: the detection stops only with one.  *)
LEMMA EffectKeepsFrames ==
  ASSUME NEW list \in Seq(GoodFrames), list # <<>>, NEW e, GoodEffect(e)
  PROVE  /\ FramesAfter(list, e) \in Seq(GoodFrames)
         /\ FramesAfter(list, e) # <<>> \/ ValueAfter(e) # <<>>
<1> DEFINE callers == SubSeq(list, 1, Len(list) - 1)
<1>1. callers \in Seq(GoodFrames)
  OBVIOUS
<1> HIDE DEF callers
<1>2. CASE e.do = "go" /\ GoodFrame(e.frame)
  <2>1. FramesAfter(list, e) = Append(callers, e.frame)
    BY <1>2 DEF FramesAfter, callers
  <2>2. e.frame \in GoodFrames
    BY <1>2 DEF GoodFrame, GoodFrames
  <2> QED
    BY ONLY <1>1, <2>1, <2>2
<1>3. CASE e.do = "call" /\ GoodFrame(e.frame) /\ e.restriction \in SUBSET Structures
  <2>1. FramesAfter(list, e) = callers \o <<e.frame, Enter("nested", e.restriction)>>
    BY <1>3 DEF FramesAfter, callers
  <2>2. e.frame \in GoodFrames /\ Enter("nested", e.restriction) \in GoodFrames
    BY <1>3, EntersAreGood DEF GoodFrame, GoodFrames
  <2>3. <<e.frame, Enter("nested", e.restriction)>> \in Seq(GoodFrames)
        /\ Len(<<e.frame, Enter("nested", e.restriction)>>) = 2
    BY ONLY <2>2
  <2> QED
    BY ONLY <1>1, <2>1, <2>3
<1>4. CASE e.do = "give"
  <2>1. FramesAfter(list, e) = callers /\ ValueAfter(e) = <<e.structure>>
    BY <1>4 DEF FramesAfter, ValueAfter, callers
  <2>2. <<e.structure>> # <<>>
    OBVIOUS
  <2> QED
    BY <1>1, <2>1, <2>2
<1> QED
  BY <1>2, <1>3, <1>4 DEF GoodEffect

-----------------------------------------------------------------------------
(* The invariant.                                                            *)

Place == Len(scanned) - Len(buffer) - Len(tokens)    \* how many tokens were taken
Detecting == frames # <<>> \/ returned # <<>>
One(b) == IF b THEN 1 ELSE 0
Looked == Len(buffer) - upstream + Len(tokens) - One(unused)

TokensInv ==
  /\ scanned \in Seq(Kinds) /\ buffer \in Seq(Kinds) /\ tokens \in Seq(Kinds)
  /\ held \in Kinds \cup {NoToken}

OrderInv ==
  /\ Place >= 0
  /\ \A k \in 1 .. Len(buffer) : buffer[k] = scanned[Len(scanned) - Len(tokens) - k + 1]
  /\ \A k \in 1 .. Len(tokens) : tokens[k] = scanned[Len(scanned) - Len(tokens) + k]

HeldInv == held # NoToken => Place > 0 /\ held = scanned[Place]

FrameInv == frames \in Seq(GoodFrames)

LookInv ==
  /\ upstream \in 0 .. Len(buffer)
  /\ unused \in BOOLEAN
  /\ unused => Len(tokens) > 0
  /\ matched \in Seq(Words)
  /\ IF Detecting
       THEN /\ upstream > 0 => Len(tokens) = 0
            /\ Len(matched) = Looked
            /\ \A k \in 1 .. Len(matched) : Matches(scanned[Place + k], matched[k])
       ELSE Len(tokens) = 0 /\ upstream = 0 /\ Len(matched) = 0 /\ ~unused

IInv == TokensInv /\ OrderInv /\ HeldInv /\ FrameInv /\ LookInv

-----------------------------------------------------------------------------
(* Sequences.                                                                *)

LEMMA Appended ==
  ASSUME NEW S, NEW s \in Seq(S), NEW e \in S
  PROVE  /\ Append(s, e) \in Seq(S)
         /\ Len(Append(s, e)) = Len(s) + 1
         /\ \A k \in 1 .. Len(s) : Append(s, e)[k] = s[k]
         /\ Append(s, e)[Len(s) + 1] = e
OBVIOUS

LEMMA Shortened ==
  ASSUME NEW S, NEW s \in Seq(S), s # <<>>
  PROVE  /\ Front(s) \in Seq(S)
         /\ Len(s) > 0 /\ Len(Front(s)) = Len(s) - 1
         /\ \A k \in 1 .. Len(s) - 1 : Front(s)[k] = s[k]
         /\ Last(s) = s[Len(s)] /\ Last(s) \in S
BY DEF Front, Last

LEMMA Reversed ==
  ASSUME NEW S, NEW s \in Seq(S)
  PROVE  /\ Reverse(s) \in Seq(S)
         /\ Len(Reverse(s)) = Len(s)
         /\ \A k \in 1 .. Len(s) : Reverse(s)[k] = s[Len(s) - k + 1]
BY DEF Reverse

LEMMA Joined ==
  ASSUME NEW S, NEW s \in Seq(S), NEW u \in Seq(S)
  PROVE  /\ s \o u \in Seq(S)
         /\ Len(s \o u) = Len(s) + Len(u)
         /\ \A k \in 1 .. Len(s) : (s \o u)[k] = s[k]
         /\ \A k \in 1 .. Len(u) : (s \o u)[Len(s) + k] = u[k]
OBVIOUS

LEMMA OneIs ==
  ASSUME NEW b \in BOOLEAN
  PROVE  One(b) = (IF b THEN 1 ELSE 0) /\ One(b) \in 0 .. 1 /\ (b => One(b) = 1) /\ (~b => One(b) = 0)
BY DEF One

LEMMA Lengths ==
  ASSUME IInv
  PROVE  /\ Len(scanned) \in Nat /\ Len(buffer) \in Nat /\ Len(tokens) \in Nat /\ Len(matched) \in Nat
         /\ Place \in Nat /\ Place = Len(scanned) - Len(buffer) - Len(tokens)
         /\ \A k \in 1 .. Len(scanned) : scanned[k] \in Kinds
         /\ NoToken \notin Kinds
<1>1. Len(scanned) \in Nat /\ Len(buffer) \in Nat /\ Len(tokens) \in Nat /\ Len(matched) \in Nat
  BY DEF IInv, TokensInv, LookInv
<1>2. Place \in Nat
  BY <1>1 DEF IInv, OrderInv, Place
<1> QED
  BY <1>1, <1>2, NoTokenIsNoKind DEF IInv, TokensInv, Place

(* Scanned and not taken, seen from the source.                               *)
LEMMA AheadIsTheRest ==
  ASSUME IInv
  PROVE  /\ Len(Ahead) = Len(buffer) + Len(tokens) /\ Taken = Place
         /\ \A k \in 1 .. Len(buffer) + Len(tokens) : Ahead[k] = scanned[Place + k]
<1>1. buffer \in Seq(Kinds) /\ tokens \in Seq(Kinds) /\ OrderInv
  BY DEF IInv, TokensInv
<1>2. /\ Reverse(buffer) \in Seq(Kinds) /\ Len(Reverse(buffer)) = Len(buffer)
      /\ \A k \in 1 .. Len(buffer) : Reverse(buffer)[k] = buffer[Len(buffer) - k + 1]
  BY <1>1, Reversed
<1>3. /\ Len(Ahead) = Len(buffer) + Len(tokens)
      /\ \A k \in 1 .. Len(buffer) : Ahead[k] = buffer[Len(buffer) - k + 1]
      /\ \A k \in 1 .. Len(tokens) : Ahead[Len(buffer) + k] = tokens[k]
  <2> DEFINE r == Reverse(buffer)
  <2>1. r \in Seq(Kinds) /\ tokens \in Seq(Kinds) /\ Ahead = r \o tokens
    BY <1>1, <1>2 DEF Ahead
  <2> HIDE DEF r
  <2>2. /\ Len(Ahead) = Len(r) + Len(tokens)
        /\ \A k \in 1 .. Len(r) : Ahead[k] = r[k]
        /\ \A k \in 1 .. Len(tokens) : Ahead[Len(r) + k] = tokens[k]
    BY ONLY <2>1, Joined
  <2> QED
    BY <1>2, <2>2 DEF r
<1>4. ASSUME NEW k \in 1 .. Len(buffer) + Len(tokens)
      PROVE  Ahead[k] = scanned[Place + k]
  <2>1. CASE k <= Len(buffer)
    <3>1. Len(buffer) - k + 1 \in 1 .. Len(buffer)
          /\ Len(scanned) - Len(tokens) - (Len(buffer) - k + 1) + 1 = Place + k
      BY <2>1, Lengths
    <3>2. buffer[Len(buffer) - k + 1] = scanned[Len(scanned) - Len(tokens) - (Len(buffer) - k + 1) + 1]
      BY <1>1, <3>1 DEF OrderInv
    <3> QED
      BY <1>3, <2>1, <3>1, <3>2, Lengths
  <2>2. CASE k > Len(buffer)
    <3>1. k - Len(buffer) \in 1 .. Len(tokens) /\ Len(buffer) + (k - Len(buffer)) = k
          /\ Len(scanned) - Len(tokens) + (k - Len(buffer)) = Place + k
      BY <2>2, Lengths
    <3>2. tokens[k - Len(buffer)] = scanned[Len(scanned) - Len(tokens) + (k - Len(buffer))]
      BY <1>1, <3>1 DEF OrderInv
    <3>3. Ahead[Len(buffer) + (k - Len(buffer))] = tokens[k - Len(buffer)]
      BY <1>3, <3>1
    <3> QED
      BY <3>1, <3>2, <3>3
  <2> QED
    BY <2>1, <2>2, Lengths
<1> QED
  BY <1>3, <1>4, Lengths DEF Taken

-----------------------------------------------------------------------------
(* The steps of TokenStream, said of what the parser has.                     *)

Extends ==
  /\ scanned' \in Seq(Kinds) /\ Len(scanned) <= Len(scanned')
  /\ \A k \in 1 .. Len(scanned) : scanned'[k] = scanned[k]

Step ==
  \/ Extends /\ Place' = Place /\ held' = held
  \/ Extends /\ Place < Len(scanned') /\ Place' = Place + 1 /\ held' \in {scanned'[Place + 1], NoToken}
  \/ Place = Len(scanned) /\ held' = NoToken /\ scanned' = scanned /\ Place' = Place
  \/ Place > 0 /\ held = scanned[Place] /\ Place' = Place - 1 /\ held' = NoToken /\ scanned' = scanned

LEMMA ReversedLength ==
  ASSUME NEW S, NEW b \in Seq(S), NEW u \in Seq(S)
  PROVE  Len(Reverse(b) \o u) = Len(b) + Len(u)
<1> DEFINE r == Reverse(b)
<1>1. r \in Seq(S) /\ Len(r) = Len(b)
  BY Reversed
<1> HIDE DEF r
<1>2. Len(r \o u) = Len(r) + Len(u)
  BY ONLY <1>1, u \in Seq(S), Joined
<1> QED
  BY <1>1, <1>2 DEF r

LEMMA PrefixIsStart ==
  ASSUME NEW S, NEW s \in Seq(S), NEW u \in Seq(S), Len(s) <= Len(u), \A k \in 1 .. Len(s) : u[k] = s[k]
  PROVE  s = SubSeq(u, 1, Len(s))
OBVIOUS

LEMMA StepIsStream ==
  ASSUME IInv, TokensInv', Step
  PROVE  Stream!Next
<1>1. Taken = Place
  BY AheadIsTheRest
<1>2. Taken' = Place'
  <2>1. Len(Reverse(buffer') \o tokens') = Len(buffer') + Len(tokens')
    BY ReversedLength DEF TokensInv
  <2>2. Len(scanned') \in Nat /\ Len(buffer') \in Nat /\ Len(tokens') \in Nat
    BY DEF TokensInv
  <2> QED
    BY <2>1, <2>2 DEF Taken, Ahead, Place
<1>3. Extends => Stream!Produced
  <2>1. scanned \in Seq(Kinds)
    BY DEF IInv, TokensInv
  <2> QED
    BY <2>1, PrefixIsStart DEF Extends, Stream!Produced
<1>4. CASE Extends /\ Place' = Place /\ held' = held
  BY <1>1, <1>2, <1>3, <1>4 DEF Stream!Next, Stream!Produce
<1>5. CASE Extends /\ Place < Len(scanned') /\ Place' = Place + 1 /\ held' \in {scanned'[Place + 1], NoToken}
  BY <1>1, <1>2, <1>3, <1>5 DEF Stream!Next, Stream!Take
<1>6. CASE Place = Len(scanned) /\ held' = NoToken /\ scanned' = scanned /\ Place' = Place
  BY <1>1, <1>2, <1>6 DEF Stream!Next, Stream!TakeNothing
<1>7. CASE Place > 0 /\ held = scanned[Place] /\ Place' = Place - 1 /\ held' = NoToken /\ scanned' = scanned
  BY <1>1, <1>2, <1>7 DEF Stream!Next, Stream!GiveBack
<1> QED
  BY <1>4, <1>5, <1>6, <1>7 DEF Step

-----------------------------------------------------------------------------
(* The operations of the parser.                                             *)

LEMMA WhileParsing ==
  ASSUME IInv, Parsing
  PROVE  /\ Len(tokens) = 0 /\ upstream = 0 /\ Len(matched) = 0 /\ unused = FALSE
         /\ frames = <<>> /\ returned = <<>>
  BY DEF Parsing, IInv, LookInv, Detecting

(* Nothing but the stack, the source and the held token changes.               *)
LEMMA LookUntouched ==
  ASSUME IInv, Parsing, UNCHANGED <<detectVars, lookVars>>, buffer' \in Seq(Kinds)
  PROVE  FrameInv' /\ LookInv' /\ tokens' = tokens /\ ~Detecting'
<1>1. /\ frames' = frames /\ returned' = returned /\ upstream' = upstream /\ unused' = unused
      /\ tokens' = tokens /\ matched' = matched
  BY DEF detectVars, lookVars
<1>2. Len(buffer') \in Nat
  OBVIOUS
<1>3. FrameInv'
  BY <1>1 DEF IInv, FrameInv
<1>4. /\ Len(tokens) = 0 /\ upstream = 0 /\ Len(matched) = 0 /\ unused = FALSE
      /\ frames = <<>> /\ returned = <<>> /\ matched \in Seq(Words)
  BY WhileParsing DEF IInv, LookInv
<1>5. ~Detecting'
  BY <1>1, <1>4 DEF Detecting
<1>6. upstream' \in 0 .. Len(buffer') /\ unused' = FALSE /\ matched' \in Seq(Words)
      /\ Len(tokens') = 0 /\ upstream' = 0 /\ Len(matched') = 0
  BY ONLY <1>1, <1>2, <1>4
<1>7. LookInv'
  BY ONLY <1>5, <1>6 DEF LookInv
<1> QED
  BY <1>1, <1>3, <1>5, <1>7

LEMMA UpcomingIsNext ==
  ASSUME IInv, Parsing, NEW t \in Kinds \cup {NoToken}, Upcoming(t)
  PROVE  /\ Extends
         /\ buffer # <<>> => scanned' = scanned /\ t = buffer[Len(buffer)] /\ t = scanned[Place + 1] /\ t \in Kinds
         /\ buffer = <<>> /\ t \in Kinds => Len(scanned') = Len(scanned) + 1 /\ scanned'[Len(scanned) + 1] = t
         /\ t \notin Kinds => buffer = <<>> /\ scanned' = scanned
<1>1. /\ scanned \in Seq(Kinds) /\ buffer \in Seq(Kinds) /\ OrderInv /\ Len(tokens) = 0
  BY WhileParsing DEF IInv, TokensInv
<1>2. CASE buffer # <<>>
  <2>1. scanned' = scanned /\ t = buffer[Len(buffer)] /\ t \in Kinds /\ Len(buffer) \in 1 .. Len(buffer)
    BY <1>1, <1>2, Shortened DEF Upcoming
  <2>2. Len(scanned) - Len(tokens) - Len(buffer) + 1 = Place + 1
    BY Lengths
  <2>3. t = scanned[Place + 1]
    BY <1>1, <2>1, <2>2 DEF OrderInv
  <2> QED
    BY <1>1, <1>2, <2>1, <2>3, Lengths DEF Extends
<1>3. CASE buffer = <<>> /\ t \in Kinds
  <2>1. scanned' = Append(scanned, t)
    BY <1>3 DEF Upcoming, Scan
  <2> QED
    BY <1>1, <1>3, <2>1, Appended DEF Extends
<1>4. CASE buffer = <<>> /\ t \notin Kinds
  <2>1. scanned' = scanned
    BY <1>4 DEF Upcoming, Scan
  <2> QED
    BY <1>1, <1>4, <2>1, Lengths DEF Extends
<1> QED
  BY <1>2, <1>3, <1>4

(* The next token is taken.                                                  *)
LEMMA TakeStep ==
  ASSUME IInv, Parsing, NEW t \in Kinds \cup {NoToken}, Upcoming(t), Popped,
         held' = t \/ (held' = NoToken /\ t \in Kinds), UNCHANGED <<detectVars, lookVars>>
  PROVE  IInv' /\ Step
<1>1. /\ Extends
      /\ buffer # <<>> => scanned' = scanned /\ t = buffer[Len(buffer)] /\ t = scanned[Place + 1] /\ t \in Kinds
      /\ buffer = <<>> /\ t \in Kinds => Len(scanned') = Len(scanned) + 1 /\ scanned'[Len(scanned) + 1] = t
      /\ t \notin Kinds => buffer = <<>> /\ scanned' = scanned
  BY UpcomingIsNext
<1>2. /\ scanned \in Seq(Kinds) /\ buffer \in Seq(Kinds) /\ tokens \in Seq(Kinds) /\ OrderInv /\ Len(tokens) = 0
  BY WhileParsing DEF IInv, TokensInv
<1>3. /\ buffer' \in Seq(Kinds)
      /\ buffer = <<>> => buffer' = <<>> /\ Len(buffer') = 0 /\ Len(buffer) = 0
      /\ buffer # <<>> => /\ Len(buffer') = Len(buffer) - 1 /\ Len(buffer) > 0
                          /\ \A k \in 1 .. Len(buffer) - 1 : buffer'[k] = buffer[k]
  BY <1>2, Shortened DEF Popped
<1>4. FrameInv' /\ LookInv' /\ tokens' = tokens
  BY <1>3, LookUntouched
<1>5. TokensInv'
  BY <1>1, <1>2, <1>3, <1>4 DEF TokensInv, Extends
<1>6. CASE buffer # <<>>
  <2>0. Len(scanned) \in Nat /\ Len(buffer) \in Nat /\ Place = Len(scanned) - Len(buffer) - Len(tokens)
    BY Lengths
  <2>a. Len(buffer') = Len(buffer) - 1 /\ Len(buffer) > 0 /\ Len(scanned') = Len(scanned)
        /\ Len(tokens') = 0 /\ Len(tokens) = 0
    BY ONLY <1>1, <1>2, <1>3, <1>4, <1>6
  <2>b. Place' = Len(scanned') - Len(buffer') - Len(tokens')
    BY DEF Place
  <2>1. Place' = Place + 1 /\ Place + 1 <= Len(scanned)
    BY ONLY <2>0, <2>a, <2>b
  <2>2. OrderInv'
    <3>1. ASSUME NEW k \in 1 .. Len(buffer')
          PROVE  buffer'[k] = scanned'[Len(scanned') - Len(tokens') - k + 1]
      <4>1. k \in 1 .. Len(buffer) /\ buffer'[k] = buffer[k]
        BY <1>3, <1>6, Lengths
      <4> QED
        BY <1>1, <1>2, <1>4, <1>6, <4>1 DEF OrderInv
    <3>2. Place' >= 0
      BY <2>1, Lengths
    <3>3. 1 .. Len(tokens') = {}
      BY <1>2, <1>4
    <3> QED
      BY <3>1, <3>2, <3>3 DEF OrderInv
  <2>3. HeldInv'
    BY <1>1, <1>6, <2>1, Lengths DEF HeldInv
  <2>4. Step
    BY <1>1, <1>6, <2>1, Lengths DEF Step
  <2> QED
    BY <1>4, <1>5, <2>2, <2>3, <2>4 DEF IInv
<1>7. CASE buffer = <<>> /\ t \in Kinds
  <2>1. Place = Len(scanned) /\ Place' = Place + 1 /\ Len(scanned') = Place + 1
    BY <1>1, <1>2, <1>3, <1>4, <1>7, Lengths DEF Place
  <2>2. OrderInv'
    BY <1>2, <1>3, <1>4, <1>7, <2>1, Lengths DEF OrderInv
  <2>3. HeldInv'
    BY <1>1, <1>7, <2>1, Lengths DEF HeldInv
  <2>4. Step
    BY <1>1, <1>7, <2>1, Lengths DEF Step
  <2> QED
    BY <1>4, <1>5, <2>2, <2>3, <2>4 DEF IInv
<1>8. CASE buffer = <<>> /\ t \notin Kinds
  <2>1. Place = Len(scanned) /\ Place' = Place /\ scanned' = scanned /\ held' = NoToken
    BY <1>1, <1>2, <1>3, <1>4, <1>8, Lengths DEF Place
  <2>2. OrderInv'
    BY <1>2, <1>3, <1>4, <1>8, <2>1, Lengths DEF OrderInv
  <2>3. HeldInv'
    BY <2>1 DEF HeldInv
  <2>4. Step
    BY <2>1 DEF Step
  <2> QED
    BY <1>4, <1>5, <2>2, <2>3, <2>4 DEF IInv
<1> QED
  BY <1>6, <1>7, <1>8

(* The next token is looked at, and put on the stack if it had to be scanned.   *)
LEMMA StayStep ==
  ASSUME IInv, Parsing, NEW t \in Kinds \cup {NoToken}, Upcoming(t), Peeked(t),
         held' = held, UNCHANGED <<detectVars, lookVars>>
  PROVE  IInv' /\ Step
<1>1. /\ Extends
      /\ buffer # <<>> => scanned' = scanned
      /\ buffer = <<>> /\ t \in Kinds => Len(scanned') = Len(scanned) + 1 /\ scanned'[Len(scanned) + 1] = t
      /\ t \notin Kinds => buffer = <<>> /\ scanned' = scanned
  BY UpcomingIsNext
<1>2. /\ scanned \in Seq(Kinds) /\ buffer \in Seq(Kinds) /\ tokens \in Seq(Kinds)
      /\ OrderInv /\ HeldInv /\ Len(tokens) = 0 /\ held \in Kinds \cup {NoToken}
  BY WhileParsing DEF IInv, TokensInv
<1>3. CASE buffer = <<>> /\ t \in Kinds
  <2>1. buffer' = <<t>> /\ Len(buffer) = 0
    BY <1>3, Lengths DEF Peeked
  <2>2. buffer' \in Seq(Kinds) /\ Len(buffer') = 1 /\ buffer'[1] = t
    BY <1>3, <2>1
  <2>3. FrameInv' /\ LookInv' /\ tokens' = tokens
    BY <2>2, LookUntouched
  <2>4. TokensInv'
    BY <1>1, <1>2, <2>2, <2>3 DEF TokensInv, Extends
  <2>5. Place' = Place /\ Place = Len(scanned) /\ Len(scanned') = Place + 1
    BY <1>1, <1>2, <1>3, <2>1, <2>2, <2>3, Lengths DEF Place
  <2>6. OrderInv'
    <3>1. ASSUME NEW k \in 1 .. Len(buffer')
          PROVE  buffer'[k] = scanned'[Len(scanned') - Len(tokens') - k + 1]
      <4>1. k = 1 /\ Len(scanned') - Len(tokens') - k + 1 = Len(scanned) + 1
        BY <1>2, <2>2, <2>3, <2>5, Lengths
      <4> QED
        BY <1>1, <1>3, <2>2, <4>1
    <3>2. 1 .. Len(tokens') = {}
      BY <1>2, <2>3
    <3> QED
      BY <2>5, <3>1, <3>2, Lengths DEF OrderInv
  <2>7. HeldInv'
    BY <1>1, <1>2, <2>5, Lengths DEF HeldInv, Extends
  <2>8. Step
    BY <1>1, <2>5 DEF Step
  <2> QED
    BY <2>3, <2>4, <2>6, <2>7, <2>8 DEF IInv
<1>4. CASE ~(buffer = <<>> /\ t \in Kinds)
  <2>1. buffer' = buffer /\ scanned' = scanned
    BY <1>1, <1>4, Lengths DEF Peeked
  <2>2. FrameInv' /\ LookInv' /\ tokens' = tokens
    BY <1>2, <2>1, LookUntouched
  <2>3. Place' = Place
    BY <2>1, <2>2 DEF Place
  <2>4. TokensInv' /\ OrderInv' /\ HeldInv'
    BY <1>2, <2>1, <2>2, <2>3 DEF TokensInv, OrderInv, HeldInv
  <2>5. Step
    BY <1>1, <2>3 DEF Step
  <2> QED
    BY <2>2, <2>4, <2>5 DEF IInv
<1> QED
  BY <1>3, <1>4

LEMMA PushStep ==
  ASSUME IInv, Push
  PROVE  IInv' /\ Step
<1>1. /\ Parsing /\ held # NoToken /\ buffer' = Append(buffer, held) /\ held' = NoToken
      /\ scanned' = scanned /\ UNCHANGED <<detectVars, lookVars>>
  BY DEF Push
<1>2. /\ scanned \in Seq(Kinds) /\ buffer \in Seq(Kinds) /\ tokens \in Seq(Kinds)
      /\ OrderInv /\ Len(tokens) = 0 /\ held \in Kinds /\ Place > 0 /\ held = scanned[Place]
  BY <1>1, WhileParsing DEF IInv, TokensInv, HeldInv
<1>3. /\ buffer' \in Seq(Kinds) /\ Len(buffer') = Len(buffer) + 1
      /\ \A k \in 1 .. Len(buffer) : buffer'[k] = buffer[k]
      /\ buffer'[Len(buffer) + 1] = held
  BY ONLY <1>1, <1>2, Appended
<1>4. FrameInv' /\ LookInv' /\ tokens' = tokens
  BY <1>1, <1>3, LookUntouched
<1>5. TokensInv'
  BY <1>1, <1>2, <1>3, <1>4 DEF TokensInv
<1>6. Len(scanned) \in Nat /\ Len(buffer) \in Nat /\ Place = Len(scanned) - Len(buffer) - Len(tokens)
      /\ Place' = Len(scanned') - Len(buffer') - Len(tokens')
  BY Lengths DEF Place
<1>7. Place' = Place - 1 /\ Place' >= 0
  BY ONLY <1>1, <1>2, <1>3, <1>4, <1>6
<1>8. OrderInv'
  <2>1. ASSUME NEW k \in 1 .. Len(buffer')
        PROVE  buffer'[k] = scanned'[Len(scanned') - Len(tokens') - k + 1]
    <3>1. CASE k = Len(buffer) + 1
      <4>1. Len(scanned') - Len(tokens') - k + 1 = Place
        BY ONLY <1>1, <1>4, <1>6, <3>1, <1>2
      <4> QED
        BY <1>1, <1>2, <1>3, <3>1, <4>1
    <3>2. CASE k # Len(buffer) + 1
      <4>1. k \in 1 .. Len(buffer)
        BY <1>3, <1>6, <3>2
      <4> QED
        BY <1>1, <1>2, <1>3, <1>4, <4>1 DEF OrderInv
    <3> QED
      BY <3>1, <3>2
  <2>2. 1 .. Len(tokens') = {}
    BY <1>2, <1>4
  <2> QED
    BY <1>7, <2>1, <2>2 DEF OrderInv
<1>9. HeldInv'
  BY <1>1 DEF HeldInv
<1>10. Step
  BY <1>1, <1>2, <1>7 DEF Step
<1> QED
  BY <1>4, <1>5, <1>8, <1>9, <1>10 DEF IInv

-----------------------------------------------------------------------------
(* The detection.                                                            *)

LEMMA DetectStep ==
  ASSUME IInv, NEW fn \in EntryPoints, Detect(fn)
  PROVE  IInv' /\ Step
<1>1. /\ Parsing /\ frames' = <<EnterDetect(fn)>> /\ upstream' = Len(buffer)
      /\ scanned' = scanned /\ buffer' = buffer /\ held' = held /\ returned' = returned
      /\ unused' = unused /\ tokens' = tokens /\ matched' = matched
  BY DEF Detect, parserVars
<1>2. Len(tokens) = 0 /\ upstream = 0 /\ Len(matched) = 0 /\ unused = FALSE
  BY <1>1, WhileParsing
<1>3. Place' = Place
  BY <1>1 DEF Place
<1>4. TokensInv' /\ OrderInv' /\ HeldInv'
  BY <1>1, <1>3 DEF IInv, TokensInv, OrderInv, HeldInv
<1>5. FrameInv' /\ Detecting'
  <2>1. EnterDetect(fn) \in GoodFrames
    BY EntersAreGood
  <2> QED
    BY <1>1, <2>1 DEF FrameInv, Detecting
<1>6. LookInv'
  <2>0. unused' \in BOOLEAN /\ ~unused'
    BY ONLY <1>1, <1>2
  <2>1. upstream' \in 0 .. Len(buffer') /\ matched' \in Seq(Words) /\ Len(matched') = 0
        /\ Len(tokens') = 0 /\ upstream' = Len(buffer')
    <3>1. matched \in Seq(Words) /\ Len(buffer) \in Nat
      BY Lengths DEF IInv, LookInv
    <3> QED
      BY ONLY <1>1, <1>2, <3>1
  <2>2. Looked' = 0
    <3>1. Len(buffer') \in Nat
      BY <1>1, Lengths
    <3> QED
      <4>1. One(unused') = 0
        BY ONLY <2>0, OneIs
      <4>2. Looked' = Len(buffer') - upstream' + Len(tokens') - One(unused')
        BY DEF Looked
      <4> QED
        BY ONLY <2>1, <3>1, <4>1, <4>2
  <2> QED
    BY ONLY <1>5, <2>0, <2>1, <2>2 DEF LookInv
<1>7. Extends
  BY <1>1, Lengths DEF IInv, TokensInv, Extends
<1> QED
  BY <1>1, <1>3, <1>4, <1>5, <1>6, <1>7 DEF IInv, Step

(* A question is answered: the detection goes on, or has a result.             *)
LEMMA GoesOn ==
  ASSUME IInv, Asking, NEW hit \in BOOLEAN, GoOn(hit)
  PROVE  /\ FrameInv' /\ Detecting' /\ Detecting /\ Question \in Words
         /\ matched \in Seq(Words) /\ matched' \in Seq(Words)
         /\ hit => /\ Len(matched') = Len(matched) + 1
                   /\ matched'[Len(matched) + 1] = Question
                   /\ \A k \in 1 .. Len(matched) : matched'[k] = matched[k]
         /\ ~hit => matched' = matched
<1>1. frames \in Seq(GoodFrames) /\ frames # <<>> /\ matched \in Seq(Words)
  BY DEF IInv, FrameInv, LookInv, Asking
<1>2. Last(frames) \in GoodFrames
  BY <1>1, Shortened
<1>3. GoodFrame(Last(frames))
  BY <1>2 DEF GoodFrames, GoodFrame
<1> DEFINE effect == Answered(Last(frames), hit)
<1>4. Question \in Words /\ GoodEffect(effect)
  BY <1>3, QuestionIsGood DEF Question
<1>5. frames' = FramesAfter(frames, effect) /\ returned' = ValueAfter(effect)
      /\ matched' = IF hit THEN Append(matched, Question) ELSE matched
  BY DEF GoOn
<1> HIDE DEF effect
<1>6. frames' \in Seq(GoodFrames) /\ (frames' # <<>> \/ returned' # <<>>)
  BY ONLY <1>1, <1>4, <1>5, EffectKeepsFrames
<1>7. hit => /\ matched' \in Seq(Words)
             /\ Len(matched') = Len(matched) + 1
             /\ matched'[Len(matched) + 1] = Question
             /\ \A k \in 1 .. Len(matched) : matched'[k] = matched[k]
  BY ONLY <1>1, <1>4, <1>5, Appended
<1> QED
  BY <1>1, <1>4, <1>5, <1>6, <1>7 DEF FrameInv, Detecting

(* The token at the place after those that were matched is matched or not.      *)
LEMMA MatchedInOrder ==
  ASSUME IInv, Asking, NEW hit \in BOOLEAN, GoOn(hit), Extends, Place' = Place,
         Place + Len(matched) < Len(scanned'),
         hit = Matches(scanned'[Place + Len(matched) + 1], Question)
  PROVE  \A k \in 1 .. Len(matched') : Matches(scanned'[Place' + k], matched'[k])
<1>1. /\ Detecting
      /\ hit => /\ Len(matched') = Len(matched) + 1
                /\ matched'[Len(matched) + 1] = Question
                /\ \A k \in 1 .. Len(matched) : matched'[k] = matched[k]
      /\ ~hit => matched' = matched
  BY GoesOn
<1>2. \A k \in 1 .. Len(matched) : Matches(scanned[Place + k], matched[k])
  BY <1>1 DEF IInv, LookInv
<1>3. Len(matched) <= Len(scanned) - Place
  <2>1. Len(matched) = Looked /\ upstream \in 0 .. Len(buffer) /\ unused \in BOOLEAN
    BY <1>1 DEF IInv, LookInv
  <2>2. Len(scanned) \in Nat /\ Len(buffer) \in Nat /\ Len(tokens) \in Nat
        /\ Place = Len(scanned) - Len(buffer) - Len(tokens)
    BY Lengths
  <2> QED
    BY ONLY <2>1, <2>2, OneIs DEF Looked
<1>4. ASSUME NEW k \in 1 .. Len(matched)
      PROVE  scanned'[Place + k] = scanned[Place + k]
  <2>1. Len(scanned) \in Nat /\ Place \in Nat /\ Len(matched) \in Nat
    BY Lengths
  <2>2. Place + k \in 1 .. Len(scanned)
    BY ONLY <1>3, <2>1, k \in 1 .. Len(matched)
  <2> QED
    BY <2>2 DEF Extends
<1>5. CASE hit
  <2>1. ASSUME NEW k \in 1 .. Len(matched')
        PROVE  Matches(scanned'[Place' + k], matched'[k])
    <3>1. CASE k = Len(matched) + 1
      <4>1. Place' + k = Place + Len(matched) + 1
        BY <3>1, Lengths
      <4> QED
        BY <1>1, <1>5, <3>1, <4>1
    <3>2. CASE k # Len(matched) + 1
      <4>1. k \in 1 .. Len(matched)
        BY <1>1, <1>5, <3>2, Lengths
      <4>2. matched'[k] = matched[k] /\ scanned'[Place' + k] = scanned[Place + k]
        BY <1>1, <1>4, <1>5, <4>1
      <4> QED
        BY <1>2, <4>1, <4>2
    <3> QED
      BY <3>1, <3>2
  <2> QED
    BY <2>1
<1>6. CASE ~hit
  <2>1. matched' = matched
    BY <1>1, <1>6
  <2> QED
    BY <1>2, <1>4, <2>1
<1> QED
  BY <1>5, <1>6

(* What a look leaves alone, and what it has to give.                          *)
LEMMA LookStep ==
  ASSUME IInv, Asking, NEW hit \in BOOLEAN, GoOn(hit), Extends, Place' = Place,
         buffer' = buffer, held' = held, tokens' \in Seq(Kinds), OrderInv',
         Place + Len(matched) < Len(scanned'),
         hit = Matches(scanned'[Place + Len(matched) + 1], Question),
         upstream' \in 0 .. Len(buffer), unused' \in BOOLEAN, unused' => Len(tokens') > 0,
         upstream' > 0 => Len(tokens') = 0,
         Looked' = IF hit THEN Looked + 1 ELSE Looked
  PROVE  IInv' /\ Step
<1>1. FrameInv' /\ Detecting' /\ Detecting /\ matched' \in Seq(Words)
      /\ (hit => Len(matched') = Len(matched) + 1) /\ (~hit => matched' = matched)
  BY GoesOn
<1>2. \A k \in 1 .. Len(matched') : Matches(scanned'[Place' + k], matched'[k])
  BY MatchedInOrder
<1>3. Len(matched) = Looked
  BY <1>1 DEF IInv, LookInv
<1>4. Len(matched') = Looked'
  <2>1. CASE hit
    BY <1>1, <1>3, <2>1
  <2>2. CASE ~hit
    BY <1>1, <1>3, <2>2
  <2> QED
    BY <2>1, <2>2
<1>5. LookInv'
  BY ONLY <1>1, <1>2, <1>4, buffer' = buffer, upstream' \in 0 .. Len(buffer), unused' \in BOOLEAN,
          unused' => Len(tokens') > 0, upstream' > 0 => Len(tokens') = 0 DEF LookInv
<1>6. TokensInv'
  BY DEF IInv, TokensInv, Extends
<1>7. HeldInv'
  <2>1. HeldInv /\ Len(scanned) \in Nat /\ Place \in Nat /\ Place <= Len(scanned)
    BY Lengths DEF IInv
  <2>2. Place > 0 => scanned'[Place] = scanned[Place]
    BY <2>1 DEF Extends
  <2> QED
    BY <2>1, <2>2 DEF HeldInv
<1>8. Step
  BY DEF Step
<1> QED
  BY <1>1, <1>5, <1>6, <1>7, <1>8 DEF IInv

LEMMA WhileAsking ==
  ASSUME IInv, Asking
  PROVE  /\ Len(matched) = Looked /\ upstream \in 0 .. Len(buffer) /\ unused \in BOOLEAN
         /\ upstream > 0 => Len(tokens) = 0 /\ ~unused
         /\ unused => Len(tokens) > 0
BY DEF Asking, Detecting, IInv, LookInv

LEMMA LookUpstreamStep ==
  ASSUME IInv, LookUpstream
  PROVE  IInv' /\ Step
<1> DEFINE hit == Matches(buffer[upstream], Question)
<1>1. /\ Asking /\ upstream > 0 /\ GoOn(hit)
      /\ upstream' = IF hit THEN upstream - 1 ELSE upstream
      /\ scanned' = scanned /\ buffer' = buffer /\ held' = held /\ unused' = unused /\ tokens' = tokens
  BY DEF LookUpstream, parserVars
<1>2. /\ Len(matched) = Looked /\ upstream \in 0 .. Len(buffer) /\ unused \in BOOLEAN
      /\ Len(tokens) = 0 /\ ~unused
      /\ Len(scanned) \in Nat /\ Len(buffer) \in Nat /\ Place = Len(scanned) - Len(buffer) - Len(tokens)
      /\ scanned \in Seq(Kinds) /\ tokens \in Seq(Kinds) /\ OrderInv
  BY <1>1, WhileAsking, Lengths DEF IInv, TokensInv
<1>3. hit \in BOOLEAN
  BY DEF Matches
<1>4. Looked = Len(buffer) - upstream /\ Looked' = Len(buffer) - upstream'
  <2>1. One(unused) = 0 /\ One(unused') = 0
    BY <1>1, <1>2, OneIs
  <2>2. Looked = Len(buffer) - upstream + Len(tokens) - One(unused)
        /\ Looked' = Len(buffer') - upstream' + Len(tokens') - One(unused')
    BY DEF Looked
  <2>3. upstream' \in Int
    BY <1>1, <1>2
  <2> QED
    BY ONLY <1>1, <1>2, <2>1, <2>2, <2>3
<1>5. Place + Len(matched) + 1 = Len(scanned) - Len(tokens) - upstream + 1
      /\ Place + Len(matched) < Len(scanned)
  BY ONLY <1>1, <1>2, <1>4
<1>6. buffer[upstream] = scanned'[Place + Len(matched) + 1]
  <2>1. upstream \in 1 .. Len(buffer)
    BY <1>1, <1>2
  <2>2. buffer[upstream] = scanned[Len(scanned) - Len(tokens) - upstream + 1]
    BY <1>2, <2>1 DEF OrderInv
  <2> QED
    BY ONLY <1>1, <1>5, <2>2
<1>7. hit = Matches(scanned'[Place + Len(matched) + 1], Question)
  BY <1>6
<1> HIDE DEF hit
<1>8. Place' = Place /\ OrderInv' /\ Extends
  <2>1. Place' = Place
    BY <1>1 DEF Place
  <2> QED
    BY <1>1, <1>2, <2>1 DEF OrderInv, Extends
<1>9. upstream' \in 0 .. Len(buffer) /\ Looked' = IF hit THEN Looked + 1 ELSE Looked
  <2>1. CASE hit
    <3>1. upstream' = upstream - 1
      BY <1>1, <2>1
    <3>2. upstream' \in 0 .. Len(buffer) /\ Looked' = Looked + 1
      BY ONLY <1>1, <1>2, <1>4, <3>1
    <3> QED
      BY <2>1, <3>2
  <2>2. CASE ~hit
    <3>1. upstream' = upstream
      BY <1>1, <2>2
    <3>2. upstream' \in 0 .. Len(buffer) /\ Looked' = Looked
      BY ONLY <1>2, <1>4, <3>1
    <3> QED
      BY <2>2, <3>2
  <2> QED
    BY <2>1, <2>2
<1>10. unused' \in BOOLEAN /\ ~unused' /\ Len(tokens') = 0 /\ tokens' \in Seq(Kinds)
       /\ Place + Len(matched) < Len(scanned')
  BY ONLY <1>1, <1>2, <1>5
<1> QED
  BY <1>1, <1>3, <1>7, <1>8, <1>9, <1>10, LookStep

LEMMA LookUnusedStep ==
  ASSUME IInv, LookUnused
  PROVE  IInv' /\ Step
<1> DEFINE hit == Matches(Last(tokens), Question)
<1>1. /\ Asking /\ upstream = 0 /\ unused /\ GoOn(hit) /\ unused' = ~hit
      /\ scanned' = scanned /\ buffer' = buffer /\ held' = held /\ upstream' = upstream /\ tokens' = tokens
  BY DEF LookUnused, parserVars
<1>2. /\ Len(matched) = Looked /\ unused \in BOOLEAN /\ Len(tokens) > 0
      /\ Len(scanned) \in Nat /\ Len(buffer) \in Nat /\ Len(tokens) \in Nat
      /\ Place = Len(scanned) - Len(buffer) - Len(tokens)
      /\ scanned \in Seq(Kinds) /\ tokens \in Seq(Kinds) /\ OrderInv
  BY <1>1, WhileAsking, Lengths DEF IInv, TokensInv
<1>3. hit \in BOOLEAN
  BY DEF Matches
<1>4. Looked = Len(buffer) + Len(tokens) - 1 /\ Looked' = Len(buffer) + Len(tokens) - One(unused')
  <2>1. One(unused) = 1
    BY <1>1, <1>2, OneIs
  <2>2. Looked = Len(buffer) - upstream + Len(tokens) - One(unused)
        /\ Looked' = Len(buffer') - upstream' + Len(tokens') - One(unused')
    BY DEF Looked
  <2>3. One(unused') \in Int
    <3>1. unused' \in BOOLEAN
      BY ONLY <1>1, <1>3
    <3> QED
      BY ONLY <3>1, OneIs
  <2> QED
    BY ONLY <1>1, <1>2, <2>1, <2>2, <2>3
<1>5. Place + Len(matched) + 1 = Len(scanned) /\ Place + Len(matched) < Len(scanned)
  BY ONLY <1>2, <1>4
<1>6. Last(tokens) = scanned'[Place + Len(matched) + 1]
  <2>1. Last(tokens) = tokens[Len(tokens)] /\ Len(tokens) \in 1 .. Len(tokens)
    BY <1>2 DEF Last
  <2>2. tokens[Len(tokens)] = scanned[Len(scanned) - Len(tokens) + Len(tokens)]
    BY ONLY <1>2, <2>1 DEF OrderInv
  <2>3. Len(scanned) - Len(tokens) + Len(tokens) = Len(scanned)
    BY ONLY <1>2
  <2> QED
    BY ONLY <1>1, <1>5, <2>1, <2>2, <2>3
<1>7. hit = Matches(scanned'[Place + Len(matched) + 1], Question)
  BY <1>6
<1> HIDE DEF hit
<1>8. Place' = Place /\ OrderInv' /\ Extends
  <2>1. Place' = Place
    BY <1>1 DEF Place
  <2> QED
    BY <1>1, <1>2, <2>1 DEF OrderInv, Extends
<1>9. Looked' = IF hit THEN Looked + 1 ELSE Looked
  <2>1. CASE hit
    <3>1. One(unused') = 0
      BY <1>1, <2>1, OneIs
    <3> QED
      BY <1>2, <1>4, <2>1, <3>1
  <2>2. CASE ~hit
    <3>1. One(unused') = 1
      BY <1>1, <2>2, OneIs
    <3> QED
      BY <1>2, <1>4, <2>2, <3>1
  <2> QED
    BY <2>1, <2>2
<1>10. unused' \in BOOLEAN /\ Len(tokens') > 0 /\ tokens' \in Seq(Kinds)
       /\ Place + Len(matched) < Len(scanned') /\ upstream' \in 0 .. Len(buffer) /\ ~ upstream' > 0
  BY ONLY <1>1, <1>2, <1>3, <1>5
<1> QED
  BY <1>1, <1>3, <1>7, <1>8, <1>9, <1>10, LookStep

LEMMA LookFurtherStep ==
  ASSUME IInv, LookFurther
  PROVE  IInv' /\ Step
<1>0. PICK t \in Kinds :
        /\ Scan(t)
        /\ tokens' = Append(tokens, t)
        /\ GoOn(Matches(t, Question)) /\ unused' = ~Matches(t, Question)
  BY DEF LookFurther
<1> DEFINE hit == Matches(t, Question)
<1>1. /\ Asking /\ upstream = 0 /\ ~unused /\ GoOn(hit) /\ unused' = ~hit
      /\ scanned' = Append(scanned, t) /\ tokens' = Append(tokens, t)
      /\ buffer' = buffer /\ held' = held /\ upstream' = upstream
  BY <1>0 DEF LookFurther, parserVars, Scan
<1>2. /\ Len(matched) = Looked /\ unused \in BOOLEAN
      /\ Len(scanned) \in Nat /\ Len(buffer) \in Nat /\ Len(tokens) \in Nat /\ Place \in Nat
      /\ Place = Len(scanned) - Len(buffer) - Len(tokens)
      /\ scanned \in Seq(Kinds) /\ tokens \in Seq(Kinds) /\ OrderInv
  BY <1>1, WhileAsking, Lengths DEF IInv, TokensInv
<1>3. hit \in BOOLEAN
  BY DEF Matches
<1>4. /\ scanned' \in Seq(Kinds) /\ Len(scanned') = Len(scanned) + 1
      /\ \A k \in 1 .. Len(scanned) : scanned'[k] = scanned[k]
      /\ scanned'[Len(scanned) + 1] = t
      /\ tokens' \in Seq(Kinds) /\ Len(tokens') = Len(tokens) + 1
      /\ \A k \in 1 .. Len(tokens) : tokens'[k] = tokens[k]
      /\ tokens'[Len(tokens) + 1] = t
  BY ONLY <1>1, <1>2, t \in Kinds, Appended
<1>5. Looked = Len(buffer) + Len(tokens) /\ Looked' = Len(buffer) + Len(tokens) + 1 - One(unused')
  <2>1. One(unused) = 0
    BY <1>1, <1>2, OneIs
  <2>2. Looked = Len(buffer) - upstream + Len(tokens) - One(unused)
        /\ Looked' = Len(buffer') - upstream' + Len(tokens') - One(unused')
    BY DEF Looked
  <2>3. One(unused') \in Int
    <3>1. unused' \in BOOLEAN
      BY ONLY <1>1, <1>3
    <3> QED
      BY ONLY <3>1, OneIs
  <2> QED
    BY ONLY <1>1, <1>2, <1>4, <2>1, <2>2, <2>3
<1>6. Place + Len(matched) + 1 = Len(scanned) + 1 /\ Place + Len(matched) < Len(scanned')
  BY ONLY <1>2, <1>4, <1>5
<1>7. hit = Matches(scanned'[Place + Len(matched) + 1], Question)
  BY ONLY <1>4, <1>6
<1> HIDE DEF hit
<1>8. Place' = Place
  <2>1. Place' = Len(scanned') - Len(buffer') - Len(tokens')
    BY DEF Place
  <2> QED
    BY ONLY <1>1, <1>2, <1>4, <2>1
<1>9. OrderInv'
  <2>1. ASSUME NEW k \in 1 .. Len(buffer')
        PROVE  buffer'[k] = scanned'[Len(scanned') - Len(tokens') - k + 1]
    <3>1. k \in 1 .. Len(buffer) /\ Len(scanned') - Len(tokens') - k + 1 = Len(scanned) - Len(tokens) - k + 1
          /\ Len(scanned) - Len(tokens) - k + 1 \in 1 .. Len(scanned)
      BY ONLY <1>1, <1>2, <1>4, k \in 1 .. Len(buffer')
    <3>2. buffer[k] = scanned[Len(scanned) - Len(tokens) - k + 1]
      BY ONLY <1>2, <3>1 DEF OrderInv
    <3> QED
      BY ONLY <1>1, <1>4, <3>1, <3>2
  <2>2. ASSUME NEW k \in 1 .. Len(tokens')
        PROVE  tokens'[k] = scanned'[Len(scanned') - Len(tokens') + k]
    <3>1. CASE k = Len(tokens) + 1
      <4>1. Len(scanned') - Len(tokens') + k = Len(scanned) + 1
        BY ONLY <1>2, <1>4, <3>1
      <4> QED
        BY ONLY <1>4, <3>1, <4>1
    <3>2. CASE k # Len(tokens) + 1
      <4>1. k \in 1 .. Len(tokens) /\ Len(scanned') - Len(tokens') + k = Len(scanned) - Len(tokens) + k
            /\ Len(scanned) - Len(tokens) + k \in 1 .. Len(scanned)
        BY ONLY <1>2, <1>4, <3>2, k \in 1 .. Len(tokens')
      <4>2. tokens[k] = scanned[Len(scanned) - Len(tokens) + k]
        BY ONLY <1>2, <4>1 DEF OrderInv
      <4> QED
        BY ONLY <1>4, <4>1, <4>2
    <3> QED
      BY <3>1, <3>2
  <2> QED
    BY <1>2, <1>8, <2>1, <2>2 DEF OrderInv
<1>10. Extends
  BY ONLY <1>2, <1>4 DEF Extends
<1>11. Looked' = IF hit THEN Looked + 1 ELSE Looked
  <2>1. CASE hit
    <3>1. One(unused') = 0
      BY <1>1, <2>1, OneIs
    <3> QED
      BY <1>2, <1>5, <2>1, <3>1
  <2>2. CASE ~hit
    <3>1. One(unused') = 1
      BY <1>1, <2>2, OneIs
    <3> QED
      BY <1>2, <1>5, <2>2, <3>1
  <2> QED
    BY <2>1, <2>2
<1>12. unused' \in BOOLEAN /\ Len(tokens') > 0 /\ upstream' \in 0 .. Len(buffer) /\ ~ upstream' > 0
  BY ONLY <1>1, <1>2, <1>3, <1>4
<1> QED
  BY <1>1, <1>3, <1>4, <1>6, <1>7, <1>8, <1>9, <1>10, <1>11, <1>12, LookStep

(* The invariant says nothing of capacities, of the end or of the outcome.      *)
LEMMA SameState ==
  ASSUME IInv, scanned' = scanned, buffer' = buffer, held' = held, frames' = frames, returned' = returned,
         upstream' = upstream, unused' = unused, tokens' = tokens, matched' = matched
  PROVE  IInv' /\ Step
<1>1. Place' = Place /\ (Detecting' <=> Detecting) /\ Looked' = Looked
  BY DEF Place, Detecting, Looked
<1>2. TokensInv' /\ OrderInv' /\ HeldInv' /\ FrameInv'
  BY <1>1 DEF IInv, TokensInv, OrderInv, HeldInv, FrameInv
<1>3. LookInv'
  BY <1>1 DEF IInv, LookInv
<1>4. Extends
  BY Lengths DEF IInv, TokensInv, Extends
<1> QED
  BY <1>1, <1>2, <1>3, <1>4 DEF IInv, Step

LEMMA LookPastTheEndStep ==
  ASSUME IInv, LookPastTheEnd
  PROVE  IInv' /\ Step
<1>1. /\ scanned' = scanned /\ buffer' = buffer /\ held' = held
      /\ frames' = frames /\ returned' = returned
      /\ upstream' = upstream /\ unused' = unused /\ tokens' = tokens /\ matched' = matched
  <2>1. NoToken \notin Kinds
    BY NoTokenIsNoKind
  <2> QED
    BY <2>1 DEF LookPastTheEnd, Scan, parserVars, detectVars, lookVars
<1> QED
  BY <1>1, SameState

LEMMA ReturnStep ==
  ASSUME IInv, Return
  PROVE  IInv' /\ Step
<1> DEFINE effect == OperandIs(Last(frames), returned[1])
<1>1. /\ frames # <<>> /\ frames' = FramesAfter(frames, effect) /\ returned' = ValueAfter(effect)
      /\ scanned' = scanned /\ buffer' = buffer /\ held' = held
      /\ upstream' = upstream /\ unused' = unused /\ tokens' = tokens /\ matched' = matched
  BY DEF Return, parserVars, lookVars
<1>2. frames \in Seq(GoodFrames)
  BY DEF IInv, FrameInv
<1>3. GoodEffect(effect)
  <2>1. Last(frames) \in GoodFrames
    BY <1>1, <1>2, Shortened
  <2>2. GoodFrame(Last(frames))
    BY <2>1 DEF GoodFrames, GoodFrame
  <2> QED
    BY <2>2, OperandIsGood
<1> HIDE DEF effect
<1>4. frames' \in Seq(GoodFrames) /\ (frames' # <<>> \/ returned' # <<>>)
  BY ONLY <1>1, <1>2, <1>3, EffectKeepsFrames
<1>5. Detecting /\ Detecting' /\ FrameInv'
  BY <1>1, <1>4 DEF Detecting, FrameInv
<1>6. Place' = Place /\ Looked' = Looked
  BY ONLY <1>1 DEF Place, Looked
<1>7. TokensInv' /\ OrderInv' /\ HeldInv'
  BY ONLY IInv, <1>1, <1>6 DEF IInv, TokensInv, OrderInv, HeldInv
<1>8. LookInv'
  BY ONLY IInv, <1>1, <1>5, <1>6 DEF IInv, LookInv
<1>9. Extends
  BY <1>1, Lengths DEF IInv, TokensInv, Extends
<1> QED
  BY <1>1, <1>5, <1>6, <1>7, <1>8, <1>9 DEF IInv, Step

(* The array of the look-ahead goes under the stack, its first token on top.    *)
LEMMA MergeStep ==
  ASSUME IInv, Merge
  PROVE  IInv' /\ Step
<1>1. /\ frames = <<>> /\ buffer' = Reverse(tokens) \o buffer
      /\ returned' = <<>> /\ upstream' = 0 /\ unused' = FALSE /\ tokens' = <<>> /\ matched' = <<>>
      /\ scanned' = scanned /\ held' = held /\ frames' = frames
  BY DEF Merge
<1>2. /\ scanned \in Seq(Kinds) /\ buffer \in Seq(Kinds) /\ tokens \in Seq(Kinds)
      /\ Len(scanned) \in Nat /\ Len(buffer) \in Nat /\ Len(tokens) \in Nat
      /\ Place = Len(scanned) - Len(buffer) - Len(tokens) /\ Place \in Nat
      /\ OrderInv /\ FrameInv /\ HeldInv /\ held \in Kinds \cup {NoToken}
  BY Lengths DEF IInv, TokensInv
<1>3. /\ buffer' \in Seq(Kinds) /\ Len(buffer') = Len(tokens) + Len(buffer)
      /\ \A k \in 1 .. Len(tokens) : buffer'[k] = tokens[Len(tokens) - k + 1]
      /\ \A k \in 1 .. Len(buffer) : buffer'[Len(tokens) + k] = buffer[k]
  <2> DEFINE r == Reverse(tokens)
  <2>1. /\ r \in Seq(Kinds) /\ Len(r) = Len(tokens)
        /\ \A k \in 1 .. Len(tokens) : r[k] = tokens[Len(tokens) - k + 1]
    BY <1>2, Reversed
  <2>2. buffer' = r \o buffer
    BY <1>1
  <2> HIDE DEF r
  <2>3. /\ r \o buffer \in Seq(Kinds)
        /\ Len(r \o buffer) = Len(r) + Len(buffer)
        /\ \A k \in 1 .. Len(r) : (r \o buffer)[k] = r[k]
        /\ \A k \in 1 .. Len(buffer) : (r \o buffer)[Len(r) + k] = buffer[k]
    <3>1. r \in Seq(Kinds) /\ buffer \in Seq(Kinds)
      BY <1>2, <2>1
    <3> QED
      BY ONLY <3>1, Joined
  <2> QED
    BY ONLY <2>1, <2>2, <2>3
<1>4. tokens' \in Seq(Kinds) /\ Len(tokens') = 0 /\ matched' \in Seq(Words) /\ Len(matched') = 0
  BY ONLY <1>1
<1>5. Place' = Place
  <2>1. Place' = Len(scanned') - Len(buffer') - Len(tokens')
    BY DEF Place
  <2> QED
    BY ONLY <1>1, <1>2, <1>3, <1>4, <2>1
<1>6. TokensInv'
  BY <1>1, <1>2, <1>3, <1>4 DEF TokensInv
<1>7. OrderInv'
  <2>1. ASSUME NEW k \in 1 .. Len(buffer')
        PROVE  buffer'[k] = scanned'[Len(scanned') - Len(tokens') - k + 1]
    <3>1. CASE k <= Len(tokens)
      <4>1. Len(tokens) - k + 1 \in 1 .. Len(tokens) /\ k \in 1 .. Len(tokens)
            /\ Len(scanned) - Len(tokens) + (Len(tokens) - k + 1) = Len(scanned') - Len(tokens') - k + 1
        BY ONLY <1>1, <1>2, <1>3, <1>4, <3>1, k \in 1 .. Len(buffer')
      <4>2. tokens[Len(tokens) - k + 1] = scanned[Len(scanned) - Len(tokens) + (Len(tokens) - k + 1)]
        BY ONLY <1>2, <4>1 DEF OrderInv
      <4> QED
        BY ONLY <1>1, <1>3, <4>1, <4>2
    <3>2. CASE k > Len(tokens)
      <4>1. k - Len(tokens) \in 1 .. Len(buffer) /\ Len(tokens) + (k - Len(tokens)) = k
            /\ Len(scanned) - Len(tokens) - (k - Len(tokens)) + 1 = Len(scanned') - Len(tokens') - k + 1
        BY ONLY <1>1, <1>2, <1>3, <1>4, <3>2, k \in 1 .. Len(buffer')
      <4>2. buffer[k - Len(tokens)] = scanned[Len(scanned) - Len(tokens) - (k - Len(tokens)) + 1]
        BY ONLY <1>2, <4>1 DEF OrderInv
      <4>3. buffer'[Len(tokens) + (k - Len(tokens))] = buffer[k - Len(tokens)]
        BY ONLY <1>3, <4>1
      <4> QED
        BY ONLY <1>1, <4>1, <4>2, <4>3
    <3> QED
      BY <1>2, <3>1, <3>2
  <2>2. 1 .. Len(tokens') = {}
    BY <1>4
  <2> QED
    BY <1>2, <1>5, <2>1, <2>2 DEF OrderInv
<1>8. HeldInv'
  BY ONLY <1>1, <1>2, <1>5 DEF HeldInv
<1>9. ~Detecting' /\ FrameInv'
  BY <1>1, <1>2 DEF Detecting, FrameInv
<1>10. LookInv'
  <2>1. unused' \in BOOLEAN /\ ~unused' /\ upstream' = 0
    BY ONLY <1>1
  <2>2. upstream' \in 0 .. Len(buffer')
    BY ONLY <1>1, <1>2, <1>3
  <2> QED
    BY ONLY <1>4, <1>9, <2>1, <2>2 DEF LookInv
<1>11. Extends
  BY ONLY <1>1, <1>2 DEF Extends
<1> QED
  BY <1>1, <1>5, <1>6, <1>7, <1>8, <1>9, <1>10, <1>11 DEF IInv, Step

-----------------------------------------------------------------------------
(* The theorems.                                                             *)

LEMMA InitHolds ==
  ASSUME Init
  PROVE  IInv /\ Stream!Init
<1>1. /\ scanned = <<>> /\ buffer = <<>> /\ held = NoToken /\ frames = <<>> /\ returned = <<>>
      /\ upstream = 0 /\ unused = FALSE /\ tokens = <<>> /\ matched = <<>>
  BY DEF Init
<1>2. /\ scanned \in Seq(Kinds) /\ buffer \in Seq(Kinds) /\ tokens \in Seq(Kinds) /\ matched \in Seq(Words)
      /\ frames \in Seq(GoodFrames)
      /\ Len(scanned) = 0 /\ Len(buffer) = 0 /\ Len(tokens) = 0 /\ Len(matched) = 0
  BY ONLY <1>1
<1>3. Place = 0
  BY ONLY <1>2 DEF Place
<1>4. TokensInv /\ OrderInv /\ HeldInv
  BY <1>1, <1>2, <1>3 DEF TokensInv, OrderInv, HeldInv
<1>5. FrameInv /\ ~Detecting
  BY <1>1, <1>2 DEF FrameInv, Detecting
<1>6. LookInv
  <2>1. unused \in BOOLEAN /\ ~unused
    BY <1>1
  <2> QED
    BY ONLY <1>1, <1>2, <1>5, <2>1 DEF LookInv
<1>7. IInv
  BY <1>4, <1>5, <1>6 DEF IInv
<1>8. Taken = 0
  BY <1>3, <1>7, AheadIsTheRest
<1> QED
  BY <1>1, <1>7, <1>8 DEF Stream!Init

LEMMA NextHolds ==
  ASSUME IInv, Next
  PROVE  IInv' /\ Stream!Next
<1>1. IInv' /\ Step
  <2>1. CASE Peek
    <3>1. PICK t \in Kinds \cup {NoToken} : Upcoming(t) /\ Peeked(t)
      BY <2>1 DEF Peek
    <3>2. Parsing /\ held' = held /\ UNCHANGED <<detectVars, lookVars>>
      BY <2>1 DEF Peek
    <3> QED
      BY <3>1, <3>2, StayStep
  <2>2. CASE Shift
    <3>1. PICK t \in Kinds \cup {NoToken} : Upcoming(t) /\ held' = t
      BY <2>2 DEF Shift
    <3>2. Parsing /\ Popped /\ UNCHANGED <<detectVars, lookVars>>
      BY <2>2 DEF Shift
    <3> QED
      BY <3>1, <3>2, TakeStep
  <2>3. ASSUME NEW kind \in Kinds, NEW consume \in BOOLEAN, Accept(kind, consume)
        PROVE  IInv' /\ Step
    <3>1. Parsing /\ UNCHANGED <<detectVars, lookVars>>
      BY <2>3 DEF Accept
    <3>2. PICK t \in Kinds \cup {NoToken} :
            /\ Upcoming(t)
            /\ \/ t # NoToken /\ Popped /\ held' \in {NoToken, t}
               \/ Peeked(t) /\ held' = held
      BY <2>3 DEF Accept
    <3>3. CASE t # NoToken /\ Popped /\ held' \in {NoToken, t}
      <4>1. held' = t \/ (held' = NoToken /\ t \in Kinds)
        BY <3>3
      <4> QED
        BY <3>1, <3>2, <3>3, <4>1, TakeStep
    <3>4. CASE Peeked(t) /\ held' = held
      BY <3>1, <3>2, <3>4, StayStep
    <3> QED
      BY <3>2, <3>3, <3>4
  <2>4. ASSUME NEW kind \in Kinds, Expect(kind)
        PROVE  IInv' /\ Step
    <3>1. PICK t \in Kinds \cup {NoToken} : Upcoming(t) /\ held' = t
      BY <2>4 DEF Expect
    <3>2. Parsing /\ Popped /\ UNCHANGED <<detectVars, lookVars>>
      BY <2>4 DEF Expect
    <3> QED
      BY <3>1, <3>2, TakeStep
  <2>5. CASE Push
    BY <2>5, PushStep
  <2>6. ASSUME NEW fn \in EntryPoints, Detect(fn)
        PROVE  IInv' /\ Step
    BY <2>6, DetectStep
  <2>7. CASE Look
    BY <2>7, LookUpstreamStep, LookUnusedStep, LookFurtherStep, LookPastTheEndStep DEF Look
  <2>8. CASE Return
    BY <2>8, ReturnStep
  <2>9. CASE Merge
    BY <2>9, MergeStep
  <2> QED
    BY <2>1, <2>2, <2>3, <2>4, <2>5, <2>6, <2>7, <2>8, <2>9 DEF Next
<1>2. TokensInv'
  BY <1>1 DEF IInv
<1> QED
  BY <1>1, <1>2, StepIsStream

LEMMA StutterHolds ==
  ASSUME IInv, UNCHANGED vars
  PROVE  IInv' /\ UNCHANGED Stream!vars
<1>1. /\ scanned' = scanned /\ buffer' = buffer /\ held' = held
      /\ frames' = frames /\ returned' = returned
      /\ upstream' = upstream /\ unused' = unused /\ tokens' = tokens /\ matched' = matched
  BY DEF vars, parserVars, detectVars, lookVars
<1>2. IInv'
  BY <1>1, SameState
<1>3. Taken' = Taken
  BY <1>1 DEF Taken, Ahead
<1> QED
  BY <1>1, <1>2, <1>3 DEF Stream!vars

(* In every reachable state of the token buffer, for sources and look-aheads    *)
(* of every length, the stack and the look-ahead's array are the end of what    *)
(* was scanned, and the look-ahead stands after the tokens it has matched.      *)
THEOREM InnerInvariant == Spec => []IInv
<1>1. Init => IInv
  BY InitHolds
<1>2. IInv /\ [Next]_vars => IInv'
  BY NextHolds, StutterHolds
<1> QED
  BY <1>1, <1>2, PTL DEF Spec

(* parse_shift, accept, expect, parse_push and the detections give the parser   *)
(* the tokens of the source, each once and in order: TokenBuffer implements     *)
(* TokenStream.                                                              *)
THEOREM BufferIsStream == Spec => TakesInOrder
<1>1. Init => Stream!Init
  BY InitHolds
<1>2. IInv /\ [Next]_vars => [Stream!Next]_(Stream!vars)
  BY NextHolds, StutterHolds
<1> QED
  BY <1>1, <1>2, InnerInvariant, PTL DEF Spec, TakesInOrder, Stream!Spec

(* lookahead puts its questions to the tokens ahead one after another, from     *)
(* whichever of its three places each of them comes.                          *)
THEOREM MatchesInOrder == Spec => []LooksInOrder
<1>1. IInv => LooksInOrder
  <2> SUFFICES ASSUME IInv
               PROVE  LooksInOrder
    OBVIOUS
  <2>1. /\ Len(Ahead) = Len(buffer) + Len(tokens)
        /\ \A k \in 1 .. Len(buffer) + Len(tokens) : Ahead[k] = scanned[Place + k]
    BY AheadIsTheRest
  <2>2. CASE Detecting
    <3>1. /\ upstream \in 0 .. Len(buffer) /\ unused \in BOOLEAN /\ Len(matched) = Looked
          /\ \A k \in 1 .. Len(matched) : Matches(scanned[Place + k], matched[k])
      BY <2>2 DEF IInv, LookInv
    <3>2. Len(buffer) \in Nat /\ Len(tokens) \in Nat /\ Len(matched) \in Nat
      BY Lengths
    <3>3. Len(matched) <= Len(buffer) + Len(tokens)
      BY ONLY <3>1, <3>2, OneIs DEF Looked
    <3>4. ASSUME NEW k \in 1 .. Len(matched)
          PROVE  Matches(Ahead[k], matched[k])
      <4>1. k \in 1 .. Len(buffer) + Len(tokens)
        BY ONLY <3>2, <3>3, k \in 1 .. Len(matched)
      <4> QED
        BY <2>1, <3>1, <4>1
    <3> QED
      BY ONLY <2>1, <3>3, <3>4 DEF LooksInOrder
  <2>3. CASE ~Detecting
    <3>1. Len(matched) = 0 /\ Len(Ahead) \in Nat
      BY <2>1, <2>3, Lengths DEF IInv, LookInv
    <3> QED
      BY ONLY <3>1 DEF LooksInOrder
  <2> QED
    BY <2>2, <2>3
<1> QED
  BY <1>1, InnerInvariant, PTL

-----------------------------------------------------------------------------
(* resize.                                                                   *)

LEMMA SmallPowers ==
  IsPowerOfTwo(2) /\ IsPowerOfTwo(4) /\ IsPowerOfTwo(8)
<1>1. 2^1 = 2 /\ 2^2 = 4 /\ 2^3 = 8
  OBVIOUS
<1> QED
  BY <1>1 DEF IsPowerOfTwo

LEMMA LargerThan ==
  ASSUME NEW n \in Nat
  PROVE  /\ Larger(n) \in Nat
         /\ n >= 2 => Larger(n) >= 2
         /\ n >= 6 => Larger(n) > n
         /\ n = 2 => Larger(n) = 3
         /\ n = 3 => Larger(n) = 4
         /\ n = 4 => Larger(n) = 6
         /\ n = 5 => Larger(n) \in {4, 7}
<1>1. Larger(n) = n + n \div 2 \/ (Larger(n) = 4 * (n \div 3) /\ ~IsPowerOfTwo(n))
  BY DEF Larger
<1>2. n \div 2 \in Nat /\ n \div 3 \in Nat /\ 2 * (n \div 2) >= n - 1 /\ 3 * (n \div 3) >= n - 2
      /\ 2 * (n \div 2) <= n /\ 3 * (n \div 3) <= n
  OBVIOUS
<1>3. ~IsPowerOfTwo(n) => n # 2 /\ n # 4 /\ n # 8
  BY SmallPowers
<1>4. Larger(n) \in Nat /\ (n >= 2 => Larger(n) >= 2) /\ (n >= 6 => Larger(n) > n)
  BY <1>1, <1>2, <1>3
<1>5. n \in {2, 4} => Larger(n) = n + n \div 2
  BY SmallPowers DEF Larger
<1>6. /\ n = 2 => Larger(n) = 3
      /\ n = 3 => Larger(n) = 4
      /\ n = 4 => Larger(n) = 6
      /\ n = 5 => Larger(n) \in {4, 7}
  BY <1>1, <1>2, <1>5
<1> QED
  BY <1>4, <1>6

Enough(used, f) == f = [n \in Nat |-> IF used < n THEN n ELSE f[Larger(n)]]

(* The loop of resize, from capacities of at least 6 elements ...            *)
EnoughFrom(used, b, f) ==
  /\ f \in [Nat -> Nat]
  /\ \A n \in Nat : n >= 6 /\ n + b > used => f[n] = IF used < n THEN n ELSE f[Larger(n)]

LEMMA OneTurnMore ==
  ASSUME NEW used \in Nat, NEW b \in Nat, NEW f, EnoughFrom(used, b, f)
  PROVE  \E g : EnoughFrom(used, b + 1, g)
<1> DEFINE g == [n \in Nat |-> IF n >= 6 /\ n + b = used THEN f[Larger(n)] ELSE f[n]]
<1>1. g \in [Nat -> Nat]
  BY LargerThan DEF EnoughFrom
<1>2. ASSUME NEW n \in Nat, n >= 6, n + (b + 1) > used
      PROVE  g[n] = IF used < n THEN n ELSE g[Larger(n)]
  <2>1. Larger(n) \in Nat /\ Larger(n) > n
    BY <1>2, LargerThan
  <2>2. g[Larger(n)] = f[Larger(n)]
    BY <1>2, <2>1
  <2>3. CASE n + b = used
    <3>1. g[n] = f[Larger(n)] /\ ~(used < n)
      BY <1>2, <2>3
    <3> QED
      BY <2>2, <3>1
  <2>4. CASE n + b > used
    <3>1. g[n] = f[n]
      BY <2>4
    <3>2. f[n] = IF used < n THEN n ELSE f[Larger(n)]
      BY <1>2, <2>4 DEF EnoughFrom
    <3> QED
      BY <2>2, <3>1, <3>2
  <2> QED
    BY <1>2, <2>3, <2>4
<1> HIDE DEF g
<1>3. EnoughFrom(used, b + 1, g)
  BY <1>1, <1>2 DEF EnoughFrom
<1> QED
  BY <1>3

LEMMA EnoughFromSix ==
  ASSUME NEW used \in Nat
  PROVE  \E f : EnoughFrom(used, used + 1, f)
<1> DEFINE S == {b \in Nat : ~ \E f : EnoughFrom(used, b, f)}
<1>1. EnoughFrom(used, 0, [n \in Nat |-> n])
  BY DEF EnoughFrom
<1>2. ASSUME NEW b \in S
      PROVE  \E a \in S : a < b
  <2>1. b # 0 /\ b \in Nat /\ ~ \E f : EnoughFrom(used, b, f)
    BY <1>1
  <2>2. b - 1 \in Nat /\ (b - 1) + 1 = b /\ b - 1 < b
    BY <2>1
  <2>3. b - 1 \in S
    <3>1. ASSUME NEW f, EnoughFrom(used, b - 1, f)
          PROVE  FALSE
      <4>1. \E g : EnoughFrom(used, (b - 1) + 1, g)
        BY <2>2, <3>1, OneTurnMore
      <4> QED
        BY <2>1, <2>2, <4>1
    <3> QED
      BY <2>2, <3>1
  <2> QED
    BY <2>2, <2>3
<1>3. S = {}
  <2> HIDE DEF S
  <2>1. S \in SUBSET Nat
    BY DEF S
  <2> QED
    BY ONLY <1>2, <2>1, NoLeastNoElement
<1>4. used + 1 \in Nat
  OBVIOUS
<1> QED
  BY <1>3, <1>4

(* ... and from any.                                                         *)
LEMMA EnoughExists ==
  ASSUME NEW used \in Nat
  PROVE  \E f : Enough(used, f)
<1>1. PICK f : EnoughFrom(used, used + 1, f)
  BY EnoughFromSix
<1>2. /\ f \in [Nat -> Nat]
      /\ \A n \in Nat : n >= 6 => f[n] = IF used < n THEN n ELSE f[Larger(n)]
  BY <1>1 DEF EnoughFrom
<1> DEFINE four == IF used < 4 THEN 4 ELSE f[6]
           five == IF used < 5 THEN 5 ELSE IF Larger(5) = 4 THEN four ELSE f[7]
           three == IF used < 3 THEN 3 ELSE four
           two == IF used < 2 THEN 2 ELSE three
           one == IF used < 1 THEN 1 ELSE 0
           g == [n \in Nat |-> IF n = 0 THEN 0 ELSE IF n = 1 THEN one ELSE IF n = 2 THEN two
                               ELSE IF n = 3 THEN three ELSE IF n = 4 THEN four
                               ELSE IF n = 5 THEN five ELSE f[n]]
<1>3. /\ g[0] = 0 /\ g[1] = one /\ g[2] = two /\ g[3] = three /\ g[4] = four /\ g[5] = five
      /\ \A n \in Nat : n >= 6 => g[n] = f[n]
  OBVIOUS
<1>4. DOMAIN g = Nat /\ g = [n \in Nat |-> g[n]]
  OBVIOUS
<1> HIDE DEF g
<1>5. ASSUME NEW n \in Nat
      PROVE  g[n] = IF used < n THEN n ELSE g[Larger(n)]
  <2>1. CASE n >= 6
    BY <1>2, <1>3, <2>1, LargerThan
  <2>2. CASE n = 2
    BY <1>3, <2>2, LargerThan
  <2>3. CASE n = 3
    BY <1>3, <2>3, LargerThan
  <2>4. CASE n = 4
    <3>1. Larger(4) = 6 /\ g[6] = f[6]
      BY <1>3, LargerThan
    <3> QED
      BY <1>3, <2>4, <3>1
  <2>5. CASE n = 5
    <3>1. Larger(5) \in {4, 7} /\ g[7] = f[7]
      BY <1>3, LargerThan
    <3> QED
      BY <1>3, <2>5, <3>1
  <2>6. CASE n \in {0, 1}
    <3>1. Larger(0) = 0 /\ Larger(1) \in {0, 1}
      <4>1. /\ 0 \div 2 = 0 /\ 0 \div 3 = 0 /\ 1 \div 2 = 0 /\ 1 \div 3 = 0
        OBVIOUS
      <4> QED
        BY <4>1 DEF Larger
    <3> QED
      BY <1>3, <2>6, <3>1
  <2> QED
    BY <2>1, <2>2, <2>3, <2>4, <2>5, <2>6
<1>6. g = [n \in Nat |-> IF used < n THEN n ELSE g[Larger(n)]]
  BY <1>4, <1>5
<1> QED
  BY <1>6 DEF Enough

(* The loop ends with more than what is used.                                *)
LEMMA EnoughIsEnough ==
  ASSUME NEW used \in Nat, NEW f, Enough(used, f), NEW n \in Nat, n >= 2
  PROVE  f[n] \in Nat /\ f[n] > used /\ f[n] >= 2
<1> DEFINE Good(m) == f[m] \in Nat /\ f[m] > used /\ f[m] >= 2
           S == {b \in Nat : \E m \in Nat : m >= 6 /\ m + b > used /\ ~Good(m)}
<1>1. \A m \in Nat : f[m] = IF used < m THEN m ELSE f[Larger(m)]
  BY DEF Enough
<1>2. ASSUME NEW b \in S
      PROVE  \E a \in S : a < b
  <2>1. PICK m \in Nat : m >= 6 /\ m + b > used /\ ~Good(m)
    OBVIOUS
  <2>2. used >= m /\ f[m] = f[Larger(m)]
    BY <1>1, <2>1
  <2>3. Larger(m) \in Nat /\ Larger(m) > m
    BY <2>1, LargerThan
  <2>4. b \in Nat /\ b - 1 \in Nat /\ Larger(m) >= 6 /\ Larger(m) + (b - 1) > used
    BY <2>1, <2>2, <2>3
  <2>5. ~Good(Larger(m))
    BY <2>1, <2>2
  <2>6. b - 1 \in S
    BY <2>3, <2>4, <2>5
  <2>7. b - 1 < b
    BY <2>4
  <2> HIDE DEF S
  <2> QED
    BY ONLY <2>6, <2>7
<1>3. S = {}
  <2> HIDE DEF S
  <2>1. S \in SUBSET Nat
    BY DEF S
  <2> QED
    BY ONLY <1>2, <2>1, NoLeastNoElement
<1>4. \A m \in Nat : m >= 6 => Good(m)
  <2> SUFFICES ASSUME NEW m \in Nat, m >= 6, ~Good(m)
               PROVE  FALSE
    OBVIOUS
  <2>1. used + 1 \in Nat /\ m >= 6 /\ m + (used + 1) > used /\ ~Good(m)
    OBVIOUS
  <2>2. used + 1 \in S
    BY <2>1
  <2> QED
    BY <1>3, <2>2
<1> HIDE DEF S
<1>5. Good(4)
  BY <1>1, <1>4, LargerThan
<1>6. Good(3) /\ Good(5)
  BY <1>1, <1>4, <1>5, LargerThan
<1>7. Good(2)
  BY <1>1, <1>6, LargerThan
<1>8. n \in {2, 3, 4, 5} \/ n >= 6
  OBVIOUS
<1> QED
  BY <1>4, <1>5, <1>6, <1>7, <1>8

LEMMA ResizeIsEnough ==
  ASSUME NEW used \in Nat, NEW total \in Nat, total = 0 \/ total >= 2
  PROVE  /\ Resize(used, total) \in Nat
         /\ Resize(used, total) >= 2
         /\ total # 0 \/ used = 0 => Resize(used, total) > used
<1>1. CASE total = 0
  BY <1>1, FirstCapacityGrows DEF Resize
<1>2. CASE total >= 2
  <2> DEFINE e == CHOOSE f : Enough(used, f)
  <2>1. Enough(used, e)
    BY EnoughExists
  <2>2. Resize(used, total) = e[total]
    BY <1>2 DEF Resize, Enough
  <2> HIDE DEF e
  <2> QED
    BY <1>2, <2>1, <2>2, EnoughIsEnough
<1> QED
  BY <1>1, <1>2

-----------------------------------------------------------------------------
(* Capacities.                                                               *)

CapInv ==
  /\ cap \in Nat /\ cap >= 2 /\ Len(buffer) <= cap
  /\ lookCap \in Nat /\ (lookCap = 0 \/ lookCap >= 2) /\ Len(tokens) <= lookCap
  /\ ended \in BOOLEAN /\ outcome \in {"running", "exit", "crash"}

LEMMA UpcomingEnds ==
  ASSUME ended \in BOOLEAN, NEW t, Upcoming(t)
  PROVE  ended' \in BOOLEAN
BY DEF Upcoming, Scan

LEMMA OneFits ==
  ASSUME CapInv
  PROVE  Resize(0, cap) \in Nat /\ Resize(0, cap) >= 2
BY ResizeIsEnough DEF CapInv

LEMMA ShorterFits ==
  ASSUME IInv, CapInv, Popped
  PROVE  Len(buffer') <= cap
<1>1. buffer \in Seq(Kinds) /\ cap \in Nat /\ Len(buffer) <= cap
  BY DEF IInv, TokensInv, CapInv
<1>2. CASE buffer = <<>>
  BY <1>1, <1>2 DEF Popped
<1>3. CASE buffer # <<>>
  BY <1>1, <1>3, Shortened DEF Popped
<1> QED
  BY <1>2, <1>3

LEMMA PeekedFits ==
  ASSUME CapInv, NEW t, Peeked(t)
  PROVE  cap' \in Nat /\ cap' >= 2 /\ Len(buffer') <= cap'
<1>1. CASE buffer = <<>> /\ t # NoToken
  <2>1. buffer' = <<t>> /\ cap' = Resize(0, cap)
    BY <1>1 DEF Peeked
  <2> QED
    BY <2>1, OneFits
<1>2. CASE ~(buffer = <<>> /\ t # NoToken)
  BY <1>2 DEF Peeked, CapInv
<1> QED
  BY <1>1, <1>2

LEMMA ParsingFits ==
  ASSUME CapInv, UNCHANGED lookVars, cap' \in Nat, cap' >= 2, Len(buffer') <= cap',
         ended' \in BOOLEAN, outcome' \in {"running", "exit", "crash"}
  PROVE  CapInv'
BY DEF CapInv, lookVars

LEMMA CapStep ==
  ASSUME IInv, CapInv, [Next]_vars
  PROVE  CapInv'
<1>1. CASE Peek
  <2>1. PICK t \in Kinds \cup {NoToken} : Upcoming(t) /\ Peeked(t)
    BY <1>1 DEF Peek
  <2>2. outcome' = outcome /\ UNCHANGED lookVars
    BY <1>1 DEF Peek
  <2> QED
    BY <2>1, <2>2, UpcomingEnds, PeekedFits, ParsingFits DEF CapInv
<1>2. CASE Shift
  <2>1. PICK t \in Kinds \cup {NoToken} : Upcoming(t)
    BY <1>2 DEF Shift
  <2>2. Popped /\ outcome' = outcome /\ cap' = cap /\ UNCHANGED lookVars
    BY <1>2 DEF Shift
  <2> QED
    BY <2>1, <2>2, UpcomingEnds, ShorterFits, ParsingFits DEF CapInv
<1>3. ASSUME NEW kind \in Kinds, NEW consume \in BOOLEAN, Accept(kind, consume)
      PROVE  CapInv'
  <2>1. PICK t \in Kinds \cup {NoToken} :
          /\ Upcoming(t)
          /\ \/ Popped /\ cap' = IF buffer = <<>> THEN Resize(0, cap) ELSE cap
             \/ Peeked(t)
    BY <1>3 DEF Accept
  <2>2. outcome' = outcome /\ UNCHANGED lookVars
    BY <1>3 DEF Accept
  <2>3. ASSUME Popped, cap' = IF buffer = <<>> THEN Resize(0, cap) ELSE cap
        PROVE  cap' \in Nat /\ cap' >= 2 /\ Len(buffer') <= cap'
    <3>1. CASE buffer = <<>>
      <4>1. buffer' = <<>> /\ cap' = Resize(0, cap)
        BY <2>3, <3>1 DEF Popped
      <4> QED
        BY <4>1, OneFits
    <3>2. CASE buffer # <<>>
      BY <2>3, <3>2, ShorterFits DEF CapInv
    <3> QED
      BY <3>1, <3>2
  <2>4. cap' \in Nat /\ cap' >= 2 /\ Len(buffer') <= cap'
    BY <2>1, <2>3, PeekedFits
  <2> QED
    BY <2>1, <2>2, <2>4, UpcomingEnds, ParsingFits DEF CapInv
<1>4. ASSUME NEW kind \in Kinds, Expect(kind)
      PROVE  CapInv'
  <2>1. PICK t \in Kinds \cup {NoToken} :
          Upcoming(t) /\ outcome' \in {"running", "exit", "crash"}
    BY <1>4 DEF Expect
  <2>2. Popped /\ cap' = cap /\ UNCHANGED lookVars
    BY <1>4 DEF Expect
  <2> QED
    BY <2>1, <2>2, UpcomingEnds, ShorterFits, ParsingFits DEF CapInv
<1>5. CASE Push
  <2>1. /\ buffer' = Append(buffer, held) /\ cap' = Resize(Len(buffer), cap)
        /\ ended' = ended /\ outcome' = outcome /\ UNCHANGED lookVars
    BY <1>5 DEF Push
  <2>2. held \in Kinds /\ buffer \in Seq(Kinds)
    BY <1>5 DEF Push, IInv, TokensInv
  <2>3. Len(buffer') = Len(buffer) + 1 /\ Len(buffer) \in Nat
    BY <2>1, <2>2
  <2>4. cap' \in Nat /\ cap' >= 2 /\ cap' > Len(buffer)
    BY <2>1, <2>3, ResizeIsEnough DEF CapInv
  <2> QED
    BY <2>1, <2>3, <2>4, ParsingFits DEF CapInv
<1>6. ASSUME NEW fn \in EntryPoints, Detect(fn)
      PROVE  CapInv'
  BY <1>6 DEF Detect, CapInv, parserVars
<1>7. CASE LookUpstream \/ LookUnused \/ LookPastTheEnd
  <2>1. /\ buffer' = buffer /\ cap' = cap /\ tokens' = tokens /\ lookCap' = lookCap
        /\ outcome' \in {outcome, "crash"}
    BY <1>7 DEF LookUpstream, LookUnused, LookPastTheEnd, parserVars, lookVars
  <2>2. ended' \in BOOLEAN
    BY <1>7 DEF LookUpstream, LookUnused, LookPastTheEnd, Scan, CapInv
  <2> QED
    BY <2>1, <2>2 DEF CapInv
<1>8. CASE LookFurther
  <2>1. PICK t \in Kinds : Scan(t) /\ tokens' = Append(tokens, t)
    BY <1>8 DEF LookFurther
  <2>2. lookCap' = Resize(Len(tokens), lookCap) /\ buffer' = buffer /\ cap' = cap /\ outcome' = outcome
    BY <1>8 DEF LookFurther, parserVars
  <2>3. tokens \in Seq(Kinds) /\ Len(tokens) \in Nat /\ Len(tokens') = Len(tokens) + 1
    BY <2>1 DEF IInv, TokensInv
  <2>4. lookCap' \in Nat /\ lookCap' >= 2 /\ lookCap' > Len(tokens)
    <3>1. lookCap \in Nat /\ (lookCap = 0 \/ lookCap >= 2) /\ (lookCap # 0 \/ Len(tokens) = 0)
      BY <2>3 DEF CapInv
    <3>2. LET r == Resize(Len(tokens), lookCap) IN r \in Nat /\ r >= 2 /\ r > Len(tokens)
      BY ONLY <2>3, <3>1, ResizeIsEnough
    <3> QED
      BY <2>2, <3>2
  <2>5. ended' \in BOOLEAN
    BY <2>1 DEF Scan, CapInv
  <2> QED
    BY <2>2, <2>3, <2>4, <2>5 DEF CapInv
<1>9. CASE Return
  BY <1>9 DEF Return, CapInv, parserVars, lookVars
<1>10. CASE Merge
  <2>1. /\ buffer' = Reverse(tokens) \o buffer
        /\ cap' = IF tokens = <<>> THEN cap ELSE Resize(Len(tokens) + Len(buffer), cap)
        /\ tokens' = <<>> /\ lookCap' = 0 /\ ended' = ended /\ outcome' = outcome
    BY <1>10 DEF Merge
  <2>2. tokens \in Seq(Kinds) /\ buffer \in Seq(Kinds) /\ Len(tokens) \in Nat /\ Len(buffer) \in Nat
    BY DEF IInv, TokensInv
  <2>3. Len(buffer') = Len(tokens) + Len(buffer)
    BY <2>1, <2>2, ReversedLength
  <2>4. cap' \in Nat /\ cap' >= 2 /\ Len(buffer') <= cap'
    <3>1. CASE tokens = <<>>
      BY <2>1, <2>2, <2>3, <3>1 DEF CapInv
    <3>2. CASE tokens # <<>>
      <4> DEFINE all == Len(tokens) + Len(buffer)
      <4>1. cap \in Nat /\ cap >= 2 /\ all \in Nat
        BY <2>2 DEF CapInv
      <4>2. LET r == Resize(all, cap) IN r \in Nat /\ r >= 2 /\ r > all
        <5> HIDE DEF all
        <5> QED
          BY ONLY <4>1, ResizeIsEnough
      <4>3. cap' = Resize(all, cap) /\ Len(buffer') = all
        BY <2>1, <2>3, <3>2
      <4> HIDE DEF all
      <4> QED
        BY ONLY <4>1, <4>2, <4>3
    <3> QED
      BY <3>1, <3>2
  <2> QED
    BY <2>1, <2>4 DEF CapInv
<1>11. CASE UNCHANGED vars
  BY <1>11 DEF vars, parserVars, lookVars, CapInv
<1> QED
  BY <1>1, <1>2, <1>3, <1>4, <1>5, <1>6, <1>7, <1>8, <1>9, <1>10, <1>11 DEF Next, Look

LEMMA CapInvariant == Spec => []CapInv
<1>1. Init => CapInv
  <2> SUFFICES ASSUME Init
               PROVE  CapInv
    OBVIOUS
  <2>1. buffer = <<>> /\ cap = FirstCapacity /\ tokens = <<>> /\ lookCap = 0
    BY DEF Init
  <2>2. ended \in BOOLEAN /\ outcome \in {"running", "exit", "crash"}
    BY DEF Init
  <2>3. Len(buffer) = 0 /\ Len(tokens) = 0
    BY ONLY <2>1
  <2>4. cap \in Nat /\ cap >= 2 /\ Len(buffer) <= cap /\ lookCap \in Nat /\ Len(tokens) <= lookCap
    BY ONLY <2>1, <2>3, FirstCapacityGrows
  <2> QED
    BY ONLY <2>1, <2>2, <2>4 DEF CapInv
<1>2. IInv /\ CapInv /\ [Next]_vars => CapInv'
  BY CapStep
<1> QED
  BY <1>1, <1>2, InnerInvariant, PTL DEF Spec

(* Every variable of the parser's state and of the look-ahead keeps its type,   *)
(* whatever parse_shift, accept, expect, parse_push and the detections do.     *)
THEOREM TypesHold == Spec => []TypeOK
<1>1. IInv /\ CapInv => TypeOK
  BY DEF IInv, TokensInv, LookInv, CapInv, TypeOK
<1> QED
  BY <1>1, InnerInvariant, CapInvariant, PTL

(* parse_push, parse_peek, lookahead and merge_lookahead write nothing past the *)
(* end of an array, for every first capacity from two and for arrays of every   *)
(* length: resize always comes to a capacity above what is used.              *)
THEOREM CapacitiesHold == Spec => []WithinCapacity
<1>1. CapInv => WithinCapacity
  BY DEF CapInv, WithinCapacity
<1> QED
  BY <1>1, CapInvariant, PTL
=============================================================================
