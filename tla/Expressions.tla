---------------------------- MODULE Expressions ----------------------------
(***************************************************************************)
(* The analysis of one expression whose operands are analysed already      *)
(* (analyze_expression of analyze.c) and the conversions it inserts        *)
(* (analyze-type.c).  A node keeps its operation, what the operation says   *)
(* (the cast, the operator, the class), its type and the chain of nodes     *)
(* that starts at e->value, as a sequence.                                  *)
(*                                                                         *)
(* The analysis ends in "done", in "fail" (an error for the user), in       *)
(* "crash" (a null pointer) or in "undefined" (a read of what was never     *)
(* written).  An expression that was analysed becomes the first operand of  *)
(* the next one.                                                           *)
(***************************************************************************)
EXTENDS Types, SequencesExt

CONSTANTS
  Leaves,        \* the analysed expressions that may be an operand
  FieldsOf,      \* the fields of each class, as pairs of a name and a type
  Targets,       \* the types of casts, assignments and declarations
  Arguments,     \* the lists of arguments of calls and constructors
  Patterns       \* how many bit patterns an integer of a kind has: 2^Width in a program

VARIABLES
  given,        \* the expression as the parser built it, or none: <<>> or <<e>>
  expression,   \* the analysed expression
  end           \* how its analysis ended

vars == <<given, expression, end>>

Node(op, how, type, operands) ==
  [op |-> op, how |-> how, type |-> type, operands |-> operands]
Statements == {"DEFINE", "LET", "RETURN", "CONDITION"}
Untyped == <<"UNTYPED">>
Literal(type) == Node("LITERAL", "", type, <<>>)
Value(type) == Node("VALUE", "", type, <<>>)    \* any other, its operands left out

(* Operands are values of the program's types, or literals; null has a type of     *)
(* its own, which nothing is declared to be.                                 *)
LeafNodes ==
  {Value(t) : t \in AllTypes} \cup {Literal(t) : t \in (Simple \ {Void}) \cup {NullType}}
ASSUME OperandsAssumption ==
  /\ Leaves \subseteq LeafNodes /\ Arguments \subseteq Seq(LeafNodes)
  /\ Targets \subseteq AllTypes \ {NullType} /\ \A t \in Targets : ArrayOf(t) \in AllTypes
  /\ FieldsOf \in [Classes -> Seq(STRING \X AllTypes)]

Cast(how, type, operands) == Node("CAST", how, type, operands)

TypeOf(e) == e.type
Types(list) == [i \in DOMAIN list |-> list[i].type]
IsNullLiteral(e) == e.op = "LITERAL" /\ e.type = NullType

(* The outcome of an analysis, and of a conversion of a chain of nodes.      *)
Done(e) == [end |-> "done", e |-> e]
Ends(how) == [end |-> how, e |-> <<>>]
Then(result, Build(_)) == IF result.end = "done" THEN Done(Build(result.e)) ELSE result

-----------------------------------------------------------------------------
(* The conversions.                                                         *)

(* new_compare_node: the zero takes the place of what followed the value.    *)
NotZero(value) ==
  Node("COMPARE", "NE", Bool, <<value, Literal(value.type)>>)

(* implicit_cast of the head of a chain.  A cast takes all of the chain as    *)
(* its operands and its own next is not set; the caller puts that right.     *)
ImplicitCast(chain, expected) ==
  LET value == Head(chain)
      to == Kind(expected)
      from == Kind(value.type)
      Into(method) == Done(<<Cast(method, expected, chain)>>)
      By(same) ==
       CASE same = "undefined" -> Ends("undefined")
         [] same = "yes" -> Done(chain)
         [] same = "no" /\ to \in Numeric /\ from \in Numeric /\ ImplicitMethod(to, from) # "none" ->
              Into(ImplicitMethod(to, from))
         [] same = "no" /\ to \in {"ARRAY", "OBJECT"} /\ value.type = NullType -> Done(chain)
         [] same = "no" /\ to = "OBJECT" /\ from = "OBJECT" /\ value.type # NullType ->
              IF Inherits[value.type[2]][expected[2]] THEN Into("UPCAST")
                ELSE Ends(IF expected = NullType THEN "crash" ELSE "fail")
         [] to = "BOOL" /\ from \in Integral -> Done(<<NotZero(value)>>)
         [] to = "STRING" /\ from = "OBJECT" /\ value.op = "LITERAL" -> Done(chain)
         [] OTHER -> Ends("fail")
  IN By(Equivalent[value.type][expected])

(* Where the caller had cut the value off its chain, and puts the converted   *)
(* one in its place.                                                         *)
Converted(value, expected) ==
  Then(ImplicitCast(<<value>>, expected), Head)

(* explicit_cast.                                                           *)
ExplicitCast(e) ==
  LET value == e.operands[1]
      to == Kind(e.type)
      from == Kind(value.type)
      Via(method) == Done([e EXCEPT !.how = method])
      up == Inherits[value.type[2]][e.type[2]]
      By(same) ==
       CASE same = "undefined" -> Ends("undefined")
         [] same = "yes" -> Ends("fail")
         [] same = "no" /\ to \in Numeric /\ from \in Numeric /\ ExplicitMethod(to, from) # "none" ->
              Via(ExplicitMethod(to, from))
         [] same = "no" /\ to = "OBJECT" /\ from = "OBJECT" ->
              (CASE value.type = NullType -> Ends("crash")
                 [] value.type # NullType /\ up -> Via("UPCAST")
                 [] value.type # NullType /\ ~up /\ Inherits[e.type[2]][value.type[2]] -> Via("DOWNCAST")
                 [] OTHER -> Ends("fail"))
         [] to = "BOOL" /\ from \in Integral -> Done(NotZero(value))
         [] to = "STRING" /\ value.type = ArrayOf(<<"U8">>) -> Via("REINTERPRET")
         [] OTHER -> Ends("fail")
  IN By(Equivalent[value.type][e.type])

(* numeric_promotion.                                                       *)
NumericPromotion(value, allowFloats) ==
  LET kind == Kind(value.type)
  IN CASE kind \in Floats -> IF allowFloats THEN Done(value) ELSE Ends("fail")
       [] kind \in Large(Integral) -> Done(value)
       [] kind \in Small(Signed) -> Done(Cast("SIGN_EXTEND", <<"S32">>, <<value>>))
       [] kind \in Small(Unsigned) -> Done(Cast("ZERO_EXTEND", <<"U32">>, <<value>>))
       [] OTHER -> Ends("fail")

(* The calls of replace_cast that a row asks for, on two operands after a     *)
(* number of others.  A wrapped node loses its next, through which the code   *)
(* reaches the operand after it: the later operand has to be wrapped first.   *)
Replaced(operands, row, skip) ==
  LET Calls(i) == {c \in ToSet(row.calls) : c[1] + skip = i}
      tooLate == \E i, j \in DOMAIN row.calls : i < j /\ row.calls[i][1] < row.calls[j][1]
  IN IF tooLate
       THEN Ends("crash")
       ELSE Done([i \in DOMAIN operands |->
              IF Calls(i) = {} THEN operands[i]
                ELSE Cast((CHOOSE c \in Calls(i) : TRUE)[2], <<row.kind>>, <<operands[i]>>)])

Chosen(operands, row, skip) ==
  IF row = Unsupported THEN Ends("fail") ELSE Replaced(operands, row, skip)

(* binary_numeric_conversion and binary_numeric_promotion: the operands and   *)
(* the kind that both of them have then.                                     *)
CommonRow(left, right, allowFloats) ==
  LET l == Kind(left.type)
      r == Kind(right.type)
  IN CASE ~allowFloats -> IF l \in Integral /\ r \in Integral THEN ConversionRow(l, r) ELSE Unsupported
       [] allowFloats /\ {l, r} \subseteq Integral -> PromotionRow(l, r)
       [] allowFloats /\ {l, r} \subseteq Numeric /\ ~({l, r} \subseteq Integral) -> FloatRow(l, r)
       [] allowFloats /\ l = "STRING" /\ r = "OBJECT" /\ right.op = "LITERAL" -> Row(l, <<>>)
       [] OTHER -> Unsupported

BinaryOperands(e, allowFloats) ==
  Chosen(e.operands, CommonRow(e.operands[1], e.operands[2], allowFloats), 0)

-----------------------------------------------------------------------------
(* The operations.  Each takes a node whose operands are analysed.           *)

BitwiseNot(e) ==
  IF IsInteger(e.operands[1].type)
    THEN Done([e EXCEPT !.type = e.operands[1].type])
    ELSE Ends("fail")

Negate(e) ==
  Then(NumericPromotion(e.operands[1], TRUE),
       LAMBDA v : [e EXCEPT !.operands = <<v>>, !.type = v.type])

(* A compare whose operands are of different kinds, one of them a boolean,    *)
(* is left as it is.                                                         *)
Compare(e) ==
  LET kinds == <<Kind(e.operands[1].type), Kind(e.operands[2].type)>>
      Alike(kind) == kinds = <<kind, kind>>
      relative == e.how \notin {"EQ", "NE"}
  IN CASE Alike("ARRAY") -> Ends("fail")
       [] Alike("BLOCKREF") \/ Alike("OBJECT") \/ Alike("STRING") ->
            IF relative THEN Ends("fail") ELSE Done(e)
       [] \E i \in 1..2 : kinds[i] = "BOOL" -> Done(e)
       [] OTHER -> Then(BinaryOperands(e, TRUE), LAMBDA ops : [e EXCEPT !.operands = ops])

(* obj is obj, and obj is Class, where how names the class.                  *)
Identity(e) ==
  CASE Kind(e.operands[1].type) # "OBJECT" -> Ends("fail")
    [] Kind(e.operands[1].type) = "OBJECT" /\ Len(e.operands) = 1 -> Done([e EXCEPT !.op = "INSTANCEOF"])
    [] OTHER -> IF Kind(e.operands[2].type) = "OBJECT" THEN Done(e) ELSE Ends("fail")

(* a && b is a ? b : false, a || b is a ? true : b, and xor is a bitwise one. *)
Logic(e) ==
  LET left == Converted(e.operands[1], Bool)
      right == Converted(e.operands[2], Bool)
      Ternary(ops) == Done(Node("TERNARY", "", Bool, ops))
  IN CASE left.end # "done" -> left
       [] left.end = "done" /\ right.end # "done" -> right
       [] OTHER ->
            CASE e.how = "XOR" -> Done(Node("NUMERIC", "BXOR", Bool, <<left.e, right.e>>))
              [] e.how = "OR" -> Ternary(<<left.e, Literal(Bool), right.e>>)
              [] e.how = "AND" -> Ternary(<<left.e, right.e, Literal(Bool)>>)

Not(e) ==
  Then(Converted(e.operands[1], Bool),
       LAMBDA b : Node("COMPARE", "EQ", Bool, <<b, Literal(Bool)>>))

Numbers(e) ==
  Then(BinaryOperands(e, e.how = "ARITHMETIC"),
       LAMBDA ops : [e EXCEPT !.operands = ops,
                       !.type = <<CommonRow(e.operands[1], e.operands[2], e.how = "ARITHMETIC").kind>>])

NumericAssign(e) ==
  LET left == e.operands[1]
  IN IF IsInteger(left.type) \/ (e.how = "ARITHMETIC" /\ IsFloat(left.type))
       THEN Then(Converted(e.operands[2], left.type),
                 LAMBDA v : [e EXCEPT !.operands[2] = v, !.type = left.type])
       ELSE Ends("fail")

Postfix(e) == Done([e EXCEPT !.type = e.operands[1].type])

Shift(e) ==
  LET left == NumericPromotion(e.operands[1], FALSE)
      right == NumericPromotion(e.operands[2], FALSE)
  IN IF left.end = "done"
       THEN Then(right, LAMBDA v : [e EXCEPT !.operands = <<left.e, v>>, !.type = left.e.type])
       ELSE left

ShiftAssign(e) ==
  IF IsInteger(e.operands[1].type)
    THEN Then(NumericPromotion(e.operands[2], FALSE),
              LAMBDA v : [e EXCEPT !.operands[2] = v, !.type = e.operands[1].type])
    ELSE Ends("fail")

StrConcat(e) ==
  IF Types(e.operands) = <<Str, Str>> THEN Done(e) ELSE Ends("fail")

NewArray(e) ==
  IF IsInteger(e.operands[1].type) THEN Done(e) ELSE Ends("fail")

AssignUnconverted(e) == Then(Converted(e.operands[1], e.type), LAMBDA v : e)

(* The value of an assignment, a declaration or a return, e.type being the    *)
(* type of what takes it.                                                    *)
Assign(e) == Then(Converted(e.operands[1], e.type), LAMBDA v : [e EXCEPT !.operands = <<v>>])

(* let takes the type of its value.                                         *)
Let(e) ==
  IF e.operands[1].type = Void THEN Ends("fail")
    ELSE Done([e EXCEPT !.type = e.operands[1].type])

(* assert_condition.                                                        *)
Condition(e) ==
  IF e.operands[1].type = Bool \/ IsInteger(e.operands[1].type) THEN Done(e) ELSE Ends("fail")

Index(e) ==
  LET array == e.operands[1].type
      element == IF array = Str THEN <<"U8">> ELSE array[2]
  IN CASE Kind(array) \notin {"ARRAY", "STRING"} \/ ~IsInteger(e.operands[2].type) -> Ends("fail")
       [] Kind(array) \in {"ARRAY", "STRING"} /\ IsInteger(e.operands[2].type) ->
            (CASE e.op = "GET_INDEX" -> Done([e EXCEPT !.type = element])
               [] e.op = "SET_INDEX" /\ array = Str -> Ends("fail")
               [] e.op = "SET_INDEX" /\ array # Str ->
                    Then(Converted(e.operands[3], element),
                         LAMBDA v : [e EXCEPT !.operands[3] = v, !.type = element]))

(* The first class, from this one on through those it extends, that has a     *)
(* field of the name.                                                        *)
Has(class, name) == \E i \in DOMAIN FieldsOf[class] : FieldsOf[class][i][1] = name
Owner(class, name) ==
  LET owner[c \in Classes \cup {NoClass}] ==
        IF c = NoClass \/ Has(c, name) THEN c ELSE owner[Parent[c]]
  IN owner[class]

Named(class, name) == SelectInSeq(FieldsOf[class], LAMBDA f : f[1] = name)

(* The field of an object, or the length of an array or a string.  What is    *)
(* assigned to a length is not looked at.                                    *)
Field(e) ==
  LET object == e.operands[1].type
      owner == Owner(object[2], e.how)
      type == FieldsOf[owner][Named(owner, e.how)][2]
      get == e.op = "GET_FIELD"
  IN CASE e.how = "length" /\ (Kind(object) = "ARRAY" \/ (object = Str /\ get)) ->
            Done([e EXCEPT !.op = IF get THEN "GET_LENGTH" ELSE "SET_LENGTH", !.type = <<"U32">>])
       [] object = NullType -> Ends("crash")
       [] Kind(object) = "OBJECT" /\ object # NullType ->
            (CASE owner = NoClass -> Ends("fail")
               [] owner # NoClass /\ get -> Done([e EXCEPT !.type = type])
               [] owner # NoClass /\ ~get ->
                    Then(Converted(e.operands[2], type),
                         LAMBDA v : [e EXCEPT !.operands[2] = v, !.type = type]))
       [] OTHER -> Ends("fail")

(* The fields of a class, those of the classes it extends first.             *)
AllFields[class \in Classes \cup {NoClass}] ==
  IF class = NoClass THEN <<>> ELSE AllFields[Parent[class]] \o FieldsOf[class]

(* analyze_new_inner cuts each argument off before it converts it.           *)
ArgumentOfNew(chain, type) ==
  Then(Converted(Head(chain), type), LAMBDA v : <<v>> \o Tail(chain))

ArgumentOfCallLinked(chain, type) ==
  LET result == ImplicitCast(chain, type)
      Relinked(list) == list \o Tail(list[1].operands)
  IN IF result.end = "done" /\ result.e # chain THEN Done(Relinked(result.e)) ELSE result

(* The call does not: it gives the converted value what followed the old one, *)
(* which new_compare_node had replaced, and takes it away from the old one.   *)
ArgumentOfCall(chain, type) ==
  LET Relinked(list) == <<[list[1] EXCEPT !.operands = <<Head(@)>>]>> \o Tail(list[1].operands)
      Placed(result) ==
        IF result.end = "done" /\ result.e # chain THEN Done(Relinked(result.e)) ELSE result
  IN Placed(ImplicitCast(chain, type))

(* After the first i parameters: the converted arguments, and the chain of     *)
(* those that are left.                                                      *)
NextArgument(op, before, type) ==
  LET rest == before.e.rest
      first == IF op = "NEW" THEN ArgumentOfNew(rest, type) ELSE ArgumentOfCall(rest, type)
  IN CASE before.end # "done" -> before
       [] before.end = "done" /\ rest = <<>> -> Ends("fail")
       [] OTHER -> Then(first, LAMBDA v : [list |-> Append(before.e.list, Head(v)), rest |-> Tail(v)])

Passed(op, chain, types) ==
  LET after[i \in 0 .. Len(types)] ==
        IF i = 0 THEN Done([list |-> <<>>, rest |-> chain]) ELSE NextArgument(op, after[i - 1], types[i])
      Ended(all) ==
        IF all.end = "done" /\ all.e.rest # <<>> THEN Ends("fail") ELSE Then(all, LAMBDA v : v.list)
  IN Ended(after[Len(types)])

New(e) ==
  LET fields == AllFields[e.type[2]]
  IN Then(Passed("NEW", e.operands, [i \in DOMAIN fields |-> fields[i][2]]),
          LAMBDA list : [e EXCEPT !.operands = list])

Call(e) ==
  LET callee == Head(e.operands)
      signature == Tail(callee.type)
  IN IF Kind(callee.type) = "BLOCKREF"
       THEN Then(Passed("CALL", Tail(e.operands), Tail(signature)),
                 LAMBDA list : [e EXCEPT !.operands = <<callee>> \o list, !.type = Head(signature)])
       ELSE Ends("fail")

NullRowOneWay(left, right) ==
  IF left.type = Str /\ IsNullLiteral(right) THEN Row("STRING", <<>>) ELSE Unsupported

(* A string and a null literal, either way round.                            *)
NullRow(left, right) ==
  IF \/ left.type = Str /\ IsNullLiteral(right)
     \/ IsNullLiteral(left) /\ right.type = Str
    THEN Row("STRING", <<>>) ELSE Unsupported

(* ternary_numeric_promotion, after the condition has become a boolean.       *)
TernaryRow(left, right) ==
  LET l == Kind(left.type)
      r == Kind(right.type)
  IN CASE {l, r} \subseteq Integral -> ConversionRow(l, r)
       [] {l, r} \subseteq Numeric /\ ~({l, r} \subseteq Integral) -> FloatRow(l, r)
       [] l = r /\ l \in {"BOOL", "STRING"} -> Row(l, <<>>)
       [] OTHER -> NullRow(left, right)

Ternary(e) ==
  LET left == e.operands[2]
      right == e.operands[3]
      kinds == <<Kind(left.type), Kind(right.type)>>
      same == Equivalent[left.type][right.type]
      row == TernaryRow(left, right)
      Typed(condition, type) == Done([e EXCEPT !.operands[1] = condition, !.type = type])
      condition == Converted(e.operands[1], Bool)
  IN CASE condition.end # "done" -> condition
       [] condition.end = "done" /\ kinds \in {<<k, k>> : k \in {"OBJECT", "ARRAY", "BLOCKREF"}} ->
            (CASE left.type = NullType -> Typed(condition.e, right.type)
               [] left.type # NullType /\ (right.type = NullType \/ same = "yes") -> Typed(condition.e, left.type)
               [] OTHER -> Ends(IF same = "undefined" THEN "undefined" ELSE "fail"))
       [] condition.end = "done" /\ row # Unsupported ->
            Then(Replaced(<<condition.e, left, right>>, row, 1),
                 LAMBDA ops : [e EXCEPT !.operands = ops, !.type = <<row.kind>>])
       [] OTHER ->
            IF condition.end = "done" /\ "VOID" \in {kinds[1], kinds[2]}
              THEN Typed(condition.e, Void) ELSE Ends("fail")

(* analyze_expression.                                                      *)
Analyze(e) ==
  CASE e.op = "BITWISE_NOT" -> BitwiseNot(e)
    [] e.op = "NEGATE" -> Negate(e)
    [] e.op = "CALL" -> Call(e)
    [] e.op = "CAST" -> ExplicitCast(e)
    [] e.op = "COMPARE" -> Compare(e)
    [] e.op = "IDENTITY" -> Identity(e)
    [] e.op = "LOGIC" -> Logic(e)
    [] e.op \in {"GET_FIELD", "SET_FIELD"} -> Field(e)
    [] e.op \in {"GET_INDEX", "SET_INDEX"} -> Index(e)
    [] e.op \in {"SET_SYMBOL", "DEFINE", "RETURN"} -> Assign(e)
    [] e.op = "LET" -> Let(e)
    [] e.op = "CONDITION" -> Condition(e)
    [] e.op = "NATIVE" -> Done(e)
    [] e.op = "NEW" -> New(e)
    [] e.op = "NEW_ARRAY" -> NewArray(e)
    [] e.op = "NOT" -> Not(e)
    [] e.op = "NUMERIC" -> Numbers(e)
    [] e.op = "NUMERIC_ASSIGN" -> NumericAssign(e)
    [] e.op = "POSTFIX" -> Postfix(e)
    [] e.op = "SHIFT" -> Shift(e)
    [] e.op = "SHIFT_ASSIGN" -> ShiftAssign(e)
    [] e.op \in {"STR_CONCAT", "STR_CONCAT_ASSIGN"} -> StrConcat(e)
    [] e.op = "TERNARY" -> Ternary(e)

-----------------------------------------------------------------------------
(* The steps: the first operand is the expression analysed last.             *)

Init ==
  /\ expression \in Leaves
  /\ given = <<>>
  /\ end = "done"

Analyzes(e) ==
  LET result == Analyze(e)
  IN /\ given = <<>>
     /\ given' = <<e>>
     /\ end' = result.end
     /\ expression' = IF result.end = "done" THEN result.e ELSE expression

With(op, how, type, others) ==
  Analyzes(Node(op, how, type, <<expression>> \o others))

Unary ==
  \/ \E op \in {"BITWISE_NOT", "NEGATE", "POSTFIX", "LET", "CONDITION"} : With(op, "", Untyped, <<>>)
  \/ With("NOT", "", Bool, <<>>)
  \/ \E type \in Targets : With("NEW_ARRAY", "", ArrayOf(type), <<>>)
  \/ \E class \in Classes : With("IDENTITY", class, Bool, <<>>)
  \/ With("NATIVE", "", Void, <<>>)

Conversion ==
  \E type \in Targets, op \in {"CAST", "SET_SYMBOL", "DEFINE", "RETURN"} :
    With(op, "", type, <<>>)

Binary ==
  \E other \in Leaves :
    \/ \E how \in {"EQ", "LT"} : With("COMPARE", how, Bool, <<other>>)
    \/ \E how \in {"AND", "OR", "XOR"} : With("LOGIC", how, Bool, <<other>>)
    \/ \E how \in {"ARITHMETIC", "BITWISE"}, op \in {"NUMERIC", "NUMERIC_ASSIGN"} :
         With(op, how, Untyped, <<other>>)
    \/ \E op \in {"SHIFT", "SHIFT_ASSIGN"} : With(op, "", Untyped, <<other>>)
    \/ \E op \in {"STR_CONCAT", "STR_CONCAT_ASSIGN"} : With(op, "", Str, <<other>>)
    \/ With("IDENTITY", "", Bool, <<other>>)

FieldNames == {"length"} \cup UNION {{FieldsOf[c][i][1] : i \in DOMAIN FieldsOf[c]} : c \in Classes}

Element ==
  \E other \in Leaves :
    \/ \E name \in FieldNames :
         \/ With("GET_FIELD", name, Untyped, <<>>)
         \/ With("SET_FIELD", name, Untyped, <<other>>)
    \/ With("GET_INDEX", "", Untyped, <<other>>)
    \/ \E value \in Leaves : With("SET_INDEX", "", Untyped, <<other, value>>)

Branches == \E left, right \in Leaves : With("TERNARY", "", Untyped, <<left, right>>)

(* The expression is the function, or the first argument of a constructor.    *)
Invocation ==
  \E list \in Arguments :
    \/ With("CALL", "", Untyped, list)
    \/ \E class \in Classes : With("NEW", "", ObjectOf(class), list)

(* The next operation takes what was analysed as an operand, of which only    *)
(* the type and whether it is a literal are ever read.  A statement is none.   *)
GoOn ==
  /\ given # <<>>
  /\ end = "done"
  /\ given[1].op \notin Statements
  /\ given' = <<>>
  /\ expression' = IF expression.op = "LITERAL" THEN expression ELSE Value(expression.type)
  /\ UNCHANGED end

Next == Unary \/ Conversion \/ Binary \/ Element \/ Branches \/ Invocation \/ GoOn

Spec == Init /\ [][Next]_vars
-----------------------------------------------------------------------------
(* Properties.                                                              *)

Analyzed == given # <<>> /\ end = "done"
Nodes == {expression} \cup ToSet(expression.operands)
Casts == {e \in Nodes : e.op = "CAST"}

(* A value of this type can stand where the other is expected.               *)
Fits(value, expected) ==
  \/ value.type = expected
  \/ value.type = NullType /\ Kind(expected) \in {"ARRAY", "OBJECT"}
  \/ IsNullLiteral(value) /\ expected = Str

(* What each cast is a cast of.                                              *)
CastFits(cast) ==
  LET value == cast.operands[1].type
      p == <<Kind(value), Kind(cast.type)>>
  IN /\ Len(cast.operands) = 1
     /\ CASE cast.how = "SIGN_EXTEND" -> p \in Up(Signed, Integral)
          [] cast.how = "ZERO_EXTEND" -> p \in Up(Integral, Integral)
          [] cast.how = "TRUNCATE" -> p \in Down(Integral, Integral)
          [] cast.how = "REINTERPRET" -> p \in Level(Integral, Integral) \/ p = <<"ARRAY", "STRING">>
          [] cast.how = "FLOAT_EXTEND" -> p \in Up(Floats, Floats)
          [] cast.how = "FLOAT_TRUNCATE" -> p \in Down(Floats, Floats)
          [] cast.how = "SIGNED_TO_FLOAT" -> p \in Signed \X Floats
          [] cast.how = "UNSIGNED_TO_FLOAT" -> p \in Unsigned \X Floats
          [] cast.how = "FLOAT_TO_SIGNED" -> p \in Floats \X Signed
          [] cast.how = "FLOAT_TO_UNSIGNED" -> p \in Floats \X Unsigned
          [] cast.how = "UPCAST" -> Inherits[value[2]][cast.type[2]]
          [] cast.how = "DOWNCAST" -> Inherits[cast.type[2]][value[2]]
          [] OTHER -> FALSE

(* Two numbers of one type, or two booleans, can be ordered; references and     *)
(* strings can only be the same or not, and null may stand for either.          *)
CompareFits(e) ==
  LET types == Types(e.operands)
  IN \/ types = <<types[1], types[1]>> /\ Kind(types[1]) \in Numeric \cup {"BOOL"}
     \/ /\ e.how \in {"EQ", "NE"}
        /\ \/ Kind(types[1]) = Kind(types[2]) /\ Kind(types[1]) \in {"BLOCKREF", "OBJECT", "STRING"}
           \/ types[1] = Str /\ Fits(e.operands[2], Str)

HasField(class, name, type) ==
  \E c \in Classes : /\ c = class \/ Inherits[class][c]
                     /\ \E i \in DOMAIN FieldsOf[c] : FieldsOf[c][i] = <<name, type>>

(* What each operation asks of the types of its operands, and of its own.       *)
NodeFits(e) ==
  LET types == Types(e.operands)
      numbers == IF e.how = "ARITHMETIC" THEN Numeric ELSE Integral
      AllFit(values, expected) ==
        /\ Len(values) = Len(expected)
        /\ \A i \in DOMAIN values : Fits(values[i], expected[i])
  IN CASE e.op \in {"LITERAL", "VALUE", "NATIVE"} -> TRUE
       [] e.op = "CAST" -> CastFits(e)
       [] e.op = "BITWISE_NOT" -> types = <<e.type>> /\ IsInteger(e.type)
       [] e.op = "NEGATE" -> types = <<e.type>> /\ Kind(e.type) \in Large(Integral) \cup Floats
       [] e.op = "POSTFIX" -> types = <<e.type>> /\ Kind(e.type) \in Numeric
       [] e.op = "LET" -> types = <<e.type>> /\ e.type # Void
       [] e.op = "CONDITION" -> types[1] = Bool \/ IsInteger(types[1])
       [] e.op = "NEW_ARRAY" -> IsInteger(types[1])
       [] e.op \in {"IDENTITY", "INSTANCEOF"} -> \A i \in DOMAIN types : Kind(types[i]) = "OBJECT"
       [] e.op = "COMPARE" -> CompareFits(e)
       [] e.op = "NUMERIC" ->
            types = <<e.type, e.type>> /\ ((e.how = "BXOR" /\ e.type = Bool) \/ Kind(e.type) \in numbers)
       [] e.op = "NUMERIC_ASSIGN" -> types = <<e.type, e.type>> /\ Kind(e.type) \in numbers
       [] e.op = "SHIFT" -> types[1] = e.type /\ \A i \in 1..2 : Kind(types[i]) \in Large(Integral)
       [] e.op = "SHIFT_ASSIGN" ->
            types[1] = e.type /\ IsInteger(e.type) /\ Kind(types[2]) \in Large(Integral)
       [] e.op \in {"STR_CONCAT", "STR_CONCAT_ASSIGN"} -> types = <<Str, Str>>
       [] e.op \in {"SET_SYMBOL", "DEFINE", "RETURN"} -> Fits(e.operands[1], e.type)
       [] e.op \in {"GET_FIELD", "SET_FIELD"} ->
            /\ Kind(types[1]) = "OBJECT" /\ HasField(types[1][2], e.how, e.type)
            /\ e.op = "SET_FIELD" => Fits(e.operands[2], e.type)
       [] e.op = "GET_LENGTH" -> Kind(types[1]) = "ARRAY" \/ types[1] = Str
       [] e.op = "SET_LENGTH" -> Kind(types[1]) = "ARRAY" /\ types[2] = e.type
       [] e.op = "GET_INDEX" ->
            /\ types[1] = ArrayOf(e.type) \/ (types[1] = Str /\ e.type = <<"U8">>)
            /\ IsInteger(types[2])
       [] e.op = "SET_INDEX" ->
            types[1] = ArrayOf(e.type) /\ IsInteger(types[2]) /\ Fits(e.operands[3], e.type)
       [] e.op = "TERNARY" ->
            types[1] = Bool /\ (e.type = Void \/ \A i \in 2..3 : Fits(e.operands[i], e.type))
       [] e.op = "CALL" ->
            /\ Kind(types[1]) = "BLOCKREF" /\ e.type = types[1][2]
            /\ AllFit(Tail(e.operands), Tail(Tail(types[1])))
       [] e.op = "NEW" ->
            LET fields == AllFields[e.type[2]]
            IN AllFit(e.operands, [i \in DOMAIN fields |-> fields[i][2]])

(* What the analysis asks nothing of: a boolean is compared with anything       *)
(* (analyze.c:240), a null is added to a string, or compared with one in any     *)
(* way (analyze-type.c:822), anything can be counted up (analyze.c:529), and    *)
(* anything assigned to the length of an array (analyze.c:72).                 *)
OneBoolean(types) == \E i \in 1..2 : types[i] = Bool /\ types[3 - i] # Bool
Unchecked(e) ==
  LET types == Types(e.operands)
  IN \/ e.op = "COMPARE" /\ OneBoolean(types)
     \/ e.op \in {"COMPARE", "NUMERIC"} /\ types[1] = Str /\ IsNullLiteral(e.operands[2])
     \/ e.op = "POSTFIX" /\ types = <<e.type>>
     \/ e.op = "SET_LENGTH" /\ Kind(types[1]) = "ARRAY"

(* The exception: a call takes the zero of an integer that is converted to a   *)
(* boolean for its next argument (analyze.c:171-176).                        *)
IntegerForBoolean(e) ==
  /\ e.op = "CALL"
  /\ \E i \in DOMAIN Tail(e.operands) :
       /\ i + 2 \in DOMAIN e.operands[1].type
       /\ e.operands[1].type[i + 2] = Bool
       /\ IsInteger(e.operands[i + 1].type)

(* After the analysis every operand has the type its operation needs, or one  *)
(* that may stand for it, every operation has the type of its result, and      *)
(* every cast goes from a type to one that it is for: what the backends take   *)
(* for granted when they choose an instruction.                              *)
WellTyped ==
  Analyzed /\ ~IntegerForBoolean(given[1]) => \A e \in Nodes : NodeFits(e) \/ Unchecked(e)

(* Of the numbers of patterns only this is used, so that TLC may take fewer.   *)
ASSUME PatternsAssumption ==
  /\ Patterns \in [Integral -> Nat] /\ \A k \in Integral : Patterns[k] > 0 /\ Patterns[k] % 2 = 0
  /\ \A narrow, wide \in Integral : Width[narrow] <= Width[wide] =>
       Patterns[narrow] <= Patterns[wide] /\ Patterns[wide] % Patterns[narrow] = 0

ValuesOf(kind) ==
  LET half == Patterns[kind] \div 2
  IN IF kind \in Signed THEN -half .. half - 1 ELSE 0 .. Patterns[kind] - 1
ReadAs(kind, pattern) ==
  LET p == pattern % Patterns[kind]
  IN IF p \in ValuesOf(kind) THEN p ELSE p - Patterns[kind]
SignedReading(kind, pattern) == IF kind \in Unsigned THEN ReadAs(SignedOf[kind], pattern) ELSE ReadAs(kind, pattern)

(* What the instruction for a cast of integers makes of a value.             *)
Result(cast, value) ==
  LET from == Kind(cast.operands[1].type)
      pattern == value % Patterns[from]
  IN ReadAs(Kind(cast.type), IF cast.how = "SIGN_EXTEND" THEN SignedReading(from, pattern) ELSE pattern)

(* A conversion of integers, asked for or inserted, changes no value that     *)
(* both types can hold.                                                      *)
KeepsCommonValues ==
  Analyzed =>
    \A cast \in Casts :
      LET from == Kind(cast.operands[1].type)
          to == Kind(cast.type)
      IN {from, to} \subseteq Integral =>
           \A v \in ValuesOf(from) \cap ValuesOf(to) : Result(cast, v) = v

Swapped(list) == SubSeq(list, 1, Len(list) - 2) \o <<list[Len(list)], list[Len(list) - 1]>>
Mirrored(e) == [e EXCEPT !.operands = Swapped(@)]

(* Two types one of which says in one place that it is a function and the other  *)
(* that it is not: with the function to the left, the parameters of what is     *)
(* none are read, and with it to the right they are found to differ (type.c:48). *)
FunctionOrNot(types) ==
  \E i, j \in DOMAIN types : Equivalent[types[i]][types[j]] = "undefined"

(* The order of the two sides of an operator, or of the branches of a ternary, *)
(* decides nothing: the sides exchanged, the same type and the same casts come *)
(* out, exchanged, or the same error.  There are two exceptions.  A string and *)
(* a null literal are taken in one order and refused in the other               *)
(* (analyze-type.c:822); and where the branches of a ternary are FunctionOrNot  *)
(* neither order is taken, but which of them is refused and which of them       *)
(* reads what was never written depends on the order (analyze-type.c:849).      *)
OrderDoesNotMatter ==
  given # <<>> /\ given[1].op \in {"NUMERIC", "COMPARE", "TERNARY"} =>
    LET mirror == Analyze(Mirrored(given[1]))
        exception == given[1].op # "TERNARY"
                       /\ \E i, j \in 1..2 : /\ given[1].operands[i].type = Str
                                            /\ IsNullLiteral(given[1].operands[j])
        unlike == given[1].op = "TERNARY" /\ FunctionOrNot(Types(Tail(given[1].operands)))
    IN \/ exception
       \/ end # "done" /\ mirror.end # "done" /\ (unlike \/ mirror.end = end)
       \/ end = "done" /\ mirror = Done(Mirrored(expression))

(* Whatever table a cast of numbers was inserted from, it is the one an        *)
(* explicit cast between the two types is.                                    *)
TablesAgree ==
  Analyzed /\ given[1].op # "CAST" =>
    \A cast \in Casts :
      LET from == Kind(cast.operands[1].type)
          to == Kind(cast.type)
      IN {from, to} \subseteq Numeric => cast.how = ExplicitMethod(to, from)

(* The node without the conversion it was given.                             *)
Bare(e) ==
  IF (e.op = "CAST" /\ Len(e.operands) = 1) \/ (e.op = "COMPARE" /\ e.how = "NE")
    THEN e.operands[1] ELSE e

(* What is made of the operands of an expression, apart from conversions.     *)
Expected(e) ==
  LET ops == e.operands
      constant == Literal(Bool)
  IN CASE e.op = "NOT" -> <<ops[1], constant>>
       [] e.op = "LOGIC" /\ e.how = "OR" -> <<ops[1], constant, ops[2]>>
       [] e.op = "LOGIC" /\ e.how = "AND" -> <<ops[1], ops[2], constant>>
       [] e.op = "CAST" /\ e.type = Bool -> <<ops[1], Literal(ops[1].type)>>
       [] OTHER -> ops

(* No operand is lost, exchanged or given to another node by the relinking    *)
(* that conversions need.                                                    *)
OperandsKept ==
  Analyzed /\ ~IntegerForBoolean(given[1]) =>
    [i \in DOMAIN expression.operands |-> Bare(expression.operands[i])] = Expected(given[1])
=============================================================================
