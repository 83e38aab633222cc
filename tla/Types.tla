------------------------------- MODULE Types -------------------------------
(***************************************************************************)
(* Types (type.c, primitive-type.h) and the conversion tables of           *)
(* analyze-type.c.  A type is a tuple of its kind (type_type) and what the  *)
(* kind needs: <<"S8">>, <<"ARRAY", type>>, <<"OBJECT", class>> and         *)
(* <<"BLOCKREF", return type, parameters>>.                                *)
(*                                                                         *)
(* Each switch of the code over (kind << 8) | kind is a set of pairs here;  *)
(* a row of a table of binary operations names the common type and the      *)
(* calls of replace_cast, in the order in which they are made.              *)
(***************************************************************************)
EXTENDS Integers, Sequences, FiniteSets

CONSTANTS
  Classes,    \* the classes of the program
  NoClass,    \* the null pointer in place of a class: the type of null
  Parent,     \* the class that a class extends, or NoClass
  TypesOf     \* the types of the program: after the first set, those made of types before

(* No class is its own ancestor: the walks of the code would not end.          *)
ASSUME ClassesAssumption ==
  /\ IsFiniteSet(Classes) /\ NoClass \notin Classes
  /\ Parent \in [Classes -> Classes \cup {NoClass}]
  /\ \E depth \in [Classes -> 0 .. Cardinality(Classes)] :
       \A c \in Classes : Parent[c] \in Classes => depth[Parent[c]] < depth[c]

Signed == {"S8", "S16", "S32", "S64"}
Unsigned == {"U8", "U16", "U32", "U64"}
Floats == {"F32", "F64", "F128"}
Integral == Signed \cup Unsigned
Numeric == Integral \cup Floats

Width == [S8 |-> 8, S16 |-> 16, S32 |-> 32, S64 |-> 64,
          U8 |-> 8, U16 |-> 16, U32 |-> 32, U64 |-> 64,
          F32 |-> 32, F64 |-> 64, F128 |-> 128]
SignedOf == [U8 |-> "S8", U16 |-> "S16", U32 |-> "S32", U64 |-> "S64"]

Kind(type) == type[1]
IsInteger(type) == Kind(type) \in Integral
IsFloat(type) == Kind(type) \in Floats

Bool == <<"BOOL">>
Str == <<"STRING">>
Void == <<"VOID">>
ArrayOf(type) == <<"ARRAY", type>>
ObjectOf(class) == <<"OBJECT", class>>
NullType == ObjectOf(NoClass)

Simple == {<<k>> : k \in Numeric \cup {"BOOL", "STRING", "VOID"}}
Objects == {ObjectOf(c) : c \in Classes \cup {NoClass}}
Before(n) == UNION {TypesOf[m] : m \in 1 .. n - 1}
AllTypes == UNION {TypesOf[m] : m \in 1 .. Len(TypesOf)}

ASSUME TypesAssumption ==
  /\ TypesOf \in Seq(SUBSET AllTypes) /\ Simple \cup Objects \subseteq AllTypes
  /\ \A n \in 1 .. Len(TypesOf) : \A t \in TypesOf[n] :
       \/ t \in Simple \cup Objects
       \/ t \in {ArrayOf(part) : part \in Before(n)}
       \/ t = <<"BLOCKREF">> \o Tail(t) /\ Tail(t) \in Seq(Before(n)) /\ Tail(t) # <<>>

(* The walk from a class through the classes it extends.                     *)
Inherits[class \in Classes] ==
  [from \in Classes \cup {NoClass} |->
     /\ Parent[class] # NoClass
     /\ Parent[class] = from \/ Inherits[Parent[class]][from]]

(* equivalent_type.  When the left side is a function the right side is read  *)
(* as one, whatever it is; of two functions the first pair of types that       *)
(* differ decides.                                                           *)
Equivalent[left \in AllTypes] ==
  [right \in AllTypes |->
     LET unlike == {i \in 2 .. Len(left) : i <= Len(right) /\ Equivalent[left[i]][right[i]] # "yes"}
         first == CHOOSE i \in unlike : \A j \in unlike : i <= j
     IN CASE Kind(left) = "ARRAY" ->
               IF Kind(right) = "ARRAY" THEN Equivalent[left[2]][right[2]] ELSE "no"
          [] Kind(left) = "BLOCKREF" /\ Kind(right) # "BLOCKREF" -> "undefined"
          [] Kind(left) = "BLOCKREF" /\ Kind(right) = "BLOCKREF" ->
               IF unlike # {} THEN Equivalent[left[first]][right[first]]
                 ELSE IF Len(left) = Len(right) THEN "yes" ELSE "no"
          [] OTHER -> IF left = right THEN "yes" ELSE "no"]

-----------------------------------------------------------------------------
(* Pairs of kinds, the first narrower, wider or as wide as the second.       *)
Up(from, to) == {p \in from \X to : Width[p[1]] < Width[p[2]]}
Down(from, to) == {p \in from \X to : Width[p[1]] > Width[p[2]]}
Level(from, to) == {p \in from \X to : Width[p[1]] = Width[p[2]]}

Row(kind, calls) == [kind |-> kind, calls |-> calls]
Unsupported == Row("VOID", <<>>)
Left(cast) == <<<<1, cast>>>>
Right(cast) == <<<<2, cast>>>>

(* binary_numeric_conversion, and the integers of ternary_numeric_promotion. *)
ConversionRowZeroExtends(l, r) ==
  LET p == <<l, r>>
  IN CASE l = r -> Row(l, <<>>)
       [] p \in Up(Signed, Signed) -> Row(r, Left("ZERO_EXTEND"))
       [] p \in Down(Signed, Signed) -> Row(l, Right("ZERO_EXTEND"))
       [] OTHER -> Unsupported

ConversionRow(l, r) ==
  LET p == <<l, r>>
  IN CASE p \in Level(Integral, Integral) /\ l = r -> Row(l, <<>>)
       [] p \in Up(Signed, Signed) -> Row(r, Left("SIGN_EXTEND"))
       [] p \in Down(Signed, Signed) -> Row(l, Right("SIGN_EXTEND"))
       [] p \in Up(Unsigned, Integral) -> Row(r, Left("ZERO_EXTEND"))
       [] p \in Down(Integral, Unsigned) -> Row(l, Right("ZERO_EXTEND"))
       [] p \in Up(Signed, Unsigned) -> Row(SignedOf[r], Right("REINTERPRET") \o Left("SIGN_EXTEND"))
       [] p \in Level(Signed, Unsigned) -> Row(l, Right("REINTERPRET"))
       [] p \in Down(Unsigned, Signed) -> Row(SignedOf[l], Right("SIGN_EXTEND") \o Left("REINTERPRET"))
       [] p \in Level(Unsigned, Signed) -> Row(r, Left("REINTERPRET"))
       [] OTHER -> Unsupported

ToFloat(kind) == IF kind \in Signed THEN "SIGNED_TO_FLOAT" ELSE "UNSIGNED_TO_FLOAT"

(* The floats of binary_numeric_promotion and ternary_numeric_promotion: a   *)
(* 64-bit integer takes an F32 with it to F64.                               *)
FloatRow(l, r) ==
  LET p == <<l, r>>
      Long == {"S64", "U64"}
  IN CASE p \in Level(Floats, Floats) -> Row(l, <<>>)
       [] p \in Up(Floats, Floats) -> Row(r, Left("FLOAT_EXTEND"))
       [] p \in Down(Floats, Floats) -> Row(l, Right("FLOAT_EXTEND"))
       [] l = "F32" /\ r \in Long -> Row("F64", Right(ToFloat(r)) \o Left("FLOAT_EXTEND"))
       [] l \in Long /\ r = "F32" -> Row("F64", Right("FLOAT_EXTEND") \o Left(ToFloat(l)))
       [] l \in Floats /\ r \in Integral /\ ~(l = "F32" /\ r \in Long) -> Row(l, Right(ToFloat(r)))
       [] l \in Integral /\ r \in Floats /\ ~(l \in Long /\ r = "F32") -> Row(r, Left(ToFloat(l)))
       [] OTHER -> Unsupported

Small(kinds) == {k \in kinds : Width[k] < 32}
Large(kinds) == kinds \ Small(kinds)
Extend(kind) == IF kind \in Signed THEN "SIGN_EXTEND" ELSE "ZERO_EXTEND"

(* The integers of binary_numeric_promotion: the small ones become 32 bits.   *)
PromotionRow(l, r) ==
  LET p == <<l, r>>
      both == Right(Extend(r)) \o Left(Extend(l))
  IN CASE l = r /\ l \in Large(Integral) -> Row(l, <<>>)
       [] p \in Small(Unsigned) \X Small(Unsigned) -> Row("U32", both)
       [] p \in (Small(Integral) \X Small(Integral)) \ (Small(Unsigned) \X Small(Unsigned)) -> Row("S32", both)
       [] p \in Up(Signed, Large(Signed)) -> Row(r, Left("SIGN_EXTEND"))
       [] p \in Down(Large(Signed), Signed) -> Row(l, Right("SIGN_EXTEND"))
       [] p \in Up(Unsigned, Large(Integral)) -> Row(r, Left("ZERO_EXTEND"))
       [] p \in Down(Large(Integral), Unsigned) -> Row(l, Right("ZERO_EXTEND"))
       [] p \in Up(Signed, Large(Unsigned)) -> Row(SignedOf[r], Right("REINTERPRET") \o Left("SIGN_EXTEND"))
       [] p \in Level(Large(Signed), Unsigned) -> Row(l, Right("REINTERPRET"))
       [] p \in Down(Large(Unsigned), Signed) -> Row(SignedOf[l], Right("SIGN_EXTEND") \o Left("REINTERPRET"))
       [] p \in Level(Large(Unsigned), Signed) -> Row(r, Left("REINTERPRET"))
       [] OTHER -> Unsupported

-----------------------------------------------------------------------------
(* The numeric rows of explicit_cast and implicit_cast, by the kind of the   *)
(* target and the kind of the value.                                         *)

ExplicitMethod(to, from) ==
  LET p == <<from, to>>
  IN CASE p \in Down(Floats, Floats) -> "FLOAT_TRUNCATE"
       [] p \in Up(Floats, Floats) -> "FLOAT_EXTEND"
       [] p \in Signed \X Floats -> "SIGNED_TO_FLOAT"
       [] p \in Unsigned \X Floats -> "UNSIGNED_TO_FLOAT"
       [] p \in Floats \X Signed -> "FLOAT_TO_SIGNED"
       [] p \in Floats \X Unsigned -> "FLOAT_TO_UNSIGNED"
       [] p \in Level(Integral, Integral) -> "REINTERPRET"
       [] p \in Up(Signed, Signed) -> "SIGN_EXTEND"
       [] p \in Down(Integral, Integral) -> "TRUNCATE"
       [] p \in Up(Integral, Integral) \ Up(Signed, Signed) -> "ZERO_EXTEND"
       [] OTHER -> "none"

ImplicitMethodSigned(to, from) ==
  IF <<from, to>> \in Up(Signed, Unsigned) THEN "SIGN_EXTEND" ELSE ExplicitMethod(to, from)

(* "possible loss of precision": none of these is converted, but an F32 is   *)
(* to both of the 64-bit integers.                                           *)
ImplicitMethod(to, from) ==
  LET p == <<from, to>>
  IN CASE p \in Up(Signed, Floats) -> "SIGNED_TO_FLOAT"
       [] p \in Up(Unsigned, Floats) -> "UNSIGNED_TO_FLOAT"
       [] p \in Up(Floats, Floats) -> "FLOAT_EXTEND"
       [] p \in Level(Integral, Integral) -> "REINTERPRET"
       [] p \in Up(Signed, Signed) -> "SIGN_EXTEND"
       [] p \in Up(Integral, Integral) \ Up(Signed, Signed) -> "ZERO_EXTEND"
       [] p = <<"F32", "S64">> -> "FLOAT_TO_SIGNED"
       [] p = <<"F32", "U64">> -> "FLOAT_TO_UNSIGNED"
       [] OTHER -> "none"
=============================================================================
