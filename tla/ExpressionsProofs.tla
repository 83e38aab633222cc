------------------------- MODULE ExpressionsProofs -------------------------
(***************************************************************************)
(* What the analysis of an expression makes of it, for every operation on   *)
(* operands of all the types of a program, whatever its classes.            *)
(*                                                                         *)
(* The rows of the tables come first, by kind; then what a conversion makes  *)
(* of an operand, and one lemma per operation for the shape of its result    *)
(* (Outcome): the operands, each as it was given or in a cast or a comparison *)
(* that fits it.  AnalysisOf says that the analysed expression is such a     *)
(* result; the properties are read off from the shapes.  The last sections   *)
(* exchange the sides of an operator and follow a value through a cast.      *)
(***************************************************************************)
EXTENDS Expressions, FiniteSetTheorems, WellFoundedInduction, TLAPS

-----------------------------------------------------------------------------
(* Induction on the natural numbers, in the form the provers can use: the    *)
(* least element of a set.  What a recursive function returns is proved by    *)
(* taking the least of the arguments that it would be false of.              *)

LEMMA LeastElement ==
  ASSUME NEW S \in SUBSET Nat, S # {}
  PROVE  \E n \in S : \A m \in S : n <= m
<1> DEFINE R == {ss \in Nat \X Nat : ss[1] < ss[2]}
<1>1. IsWellFoundedOn(R, Nat)
  BY NatLessThanWellFounded DEF OpToRel
<1>2. PICK n \in S : \A m \in S : <<m, n>> \notin R
  BY <1>1, WFMin
<1>3. ASSUME NEW m \in S
      PROVE  n <= m
  <2>1. m \in Nat /\ n \in Nat /\ <<m, n>> \in Nat \X Nat
    OBVIOUS
  <2>2. ~(m < n)
    BY <1>2, <2>1
  <2> QED
    BY <2>1, <2>2
<1> QED
  BY <1>3

(* What is false of some number is false of a least one.                      *)
LEMMA NoLeastNoElement ==
  ASSUME NEW S \in SUBSET Nat,
         ASSUME NEW n \in S
         PROVE  \E m \in S : m < n
  PROVE  S = {}
<1>1. SUFFICES ASSUME S # {}
               PROVE  FALSE
  OBVIOUS
<1>2. PICK n \in S : \A m \in S : n <= m
  BY <1>1, LeastElement
<1>3. PICK m \in S : m < n
  OBVIOUS
<1> QED
  BY <1>2, <1>3

-----------------------------------------------------------------------------
(* The tables.                                                               *)

LEMMA Pairs ==
  ASSUME NEW A, NEW B, NEW a, NEW b
  PROVE  /\ <<a, b>> \in Up(A, B) <=> a \in A /\ b \in B /\ Width[a] < Width[b]
         /\ <<a, b>> \in Down(A, B) <=> a \in A /\ b \in B /\ Width[a] > Width[b]
         /\ <<a, b>> \in Level(A, B) <=> a \in A /\ b \in B /\ Width[a] = Width[b]
BY DEF Up, Down, Level

LEMMA Widths ==
  /\ Width["S8"] = 8 /\ Width["S16"] = 16 /\ Width["S32"] = 32 /\ Width["S64"] = 64
  /\ Width["U8"] = 8 /\ Width["U16"] = 16 /\ Width["U32"] = 32 /\ Width["U64"] = 64
  /\ Width["F32"] = 32 /\ Width["F64"] = 64 /\ Width["F128"] = 128
  /\ SignedOf["U8"] = "S8" /\ SignedOf["U16"] = "S16"
  /\ SignedOf["U32"] = "S32" /\ SignedOf["U64"] = "S64"
BY DEF Width, SignedOf

LEMMA Kinds ==
  /\ Integral = Signed \cup Unsigned /\ Numeric = Integral \cup Floats
  /\ \A k \in Signed : k \notin Unsigned /\ k \notin Floats
  /\ \A k \in Unsigned : k \notin Floats /\ SignedOf[k] \in Signed /\ Width[SignedOf[k]] = Width[k]
  /\ \A k \in Numeric : Width[k] \in Nat
  /\ \A j, k \in Signed : Width[j] = Width[k] => j = k
  /\ \A j, k \in Unsigned : Width[j] = Width[k] => j = k
  /\ \A j, k \in Floats : Width[j] = Width[k] => j = k
<1>1. Integral = Signed \cup Unsigned /\ Numeric = Integral \cup Floats
  BY DEF Integral, Numeric
<1>2. \A k \in Signed : k \notin Unsigned /\ k \notin Floats /\ Width[k] \in Nat
  BY Widths DEF Signed, Unsigned, Floats
<1>3. \A k \in Unsigned : k \notin Floats /\ SignedOf[k] \in Signed /\ Width[SignedOf[k]] = Width[k]
                          /\ Width[k] \in Nat
  BY Widths DEF Signed, Unsigned, Floats
<1>4. \A k \in Floats : Width[k] \in Nat
  BY Widths DEF Floats
<1>5. \A j, k \in Signed : Width[j] = Width[k] => j = k
  BY Widths DEF Signed
<1>6. \A j, k \in Unsigned : Width[j] = Width[k] => j = k
  BY Widths DEF Unsigned
<1>7. \A j, k \in Floats : Width[j] = Width[k] => j = k
  BY Widths DEF Floats
<1> QED
  BY <1>1, <1>2, <1>3, <1>4, <1>5, <1>6, <1>7

(* What ExplicitMethod says, by the widths.                                   *)
LEMMA Methods ==
  ASSUME NEW to \in Numeric, NEW from \in Numeric, NEW m, m = ExplicitMethod(to, from)
  PROVE  /\ from \in Integral /\ to \in Integral /\ Width[from] = Width[to] => m = "REINTERPRET"
         /\ from \in Integral /\ to \in Integral /\ Width[from] > Width[to] => m = "TRUNCATE"
         /\ from \in Signed /\ to \in Signed /\ Width[from] < Width[to] => m = "SIGN_EXTEND"
         /\ /\ from \in Integral /\ to \in Integral /\ Width[from] < Width[to]
            /\ from \in Unsigned \/ to \in Unsigned
            => m = "ZERO_EXTEND"
         /\ from \in Signed /\ to \in Floats => m = "SIGNED_TO_FLOAT"
         /\ from \in Unsigned /\ to \in Floats => m = "UNSIGNED_TO_FLOAT"
         /\ from \in Floats /\ to \in Signed => m = "FLOAT_TO_SIGNED"
         /\ from \in Floats /\ to \in Unsigned => m = "FLOAT_TO_UNSIGNED"
         /\ from \in Floats /\ to \in Floats /\ Width[from] < Width[to] => m = "FLOAT_EXTEND"
         /\ from \in Floats /\ to \in Floats /\ Width[from] > Width[to] => m = "FLOAT_TRUNCATE"
<1> USE Pairs, Kinds
<1>1. /\ from \in Integral /\ to \in Integral /\ Width[from] = Width[to] => m = "REINTERPRET"
      /\ from \in Integral /\ to \in Integral /\ Width[from] > Width[to] => m = "TRUNCATE"
  BY DEF ExplicitMethod
<1>2. from \in Signed /\ to \in Signed /\ Width[from] < Width[to] => m = "SIGN_EXTEND"
  BY DEF ExplicitMethod
<1>3. /\ from \in Integral /\ to \in Integral /\ Width[from] < Width[to]
      /\ from \in Unsigned \/ to \in Unsigned
      => m = "ZERO_EXTEND"
  BY DEF ExplicitMethod
<1>4. /\ from \in Signed /\ to \in Floats => m = "SIGNED_TO_FLOAT"
      /\ from \in Unsigned /\ to \in Floats => m = "UNSIGNED_TO_FLOAT"
  BY DEF ExplicitMethod
<1>5. /\ from \in Floats /\ to \in Signed => m = "FLOAT_TO_SIGNED"
      /\ from \in Floats /\ to \in Unsigned => m = "FLOAT_TO_UNSIGNED"
  BY DEF ExplicitMethod
<1>6. /\ from \in Floats /\ to \in Floats /\ Width[from] < Width[to] => m = "FLOAT_EXTEND"
      /\ from \in Floats /\ to \in Floats /\ Width[from] > Width[to] => m = "FLOAT_TRUNCATE"
  BY DEF ExplicitMethod
<1> QED
  BY ONLY <1>1, <1>2, <1>3, <1>4, <1>5, <1>6

(* The calls for operands of kinds l and r that are to be of one kind.         *)
Regular(kind, l, r) ==
  Row(kind,
      IF l = kind THEN IF r = kind THEN <<>> ELSE Right(ExplicitMethod(kind, r))
        ELSE IF r = kind THEN Left(ExplicitMethod(kind, l))
          ELSE Right(ExplicitMethod(kind, r)) \o Left(ExplicitMethod(kind, l)))

\* The widest, and between the two ways to read an integer the signed one.
Joint(l, r) ==
  IF (l \in Signed <=> r \in Signed) THEN IF Width[l] < Width[r] THEN r ELSE l
  ELSE IF l \in Signed THEN IF Width[l] < Width[r] THEN SignedOf[r] ELSE l
  ELSE IF Width[r] < Width[l] THEN SignedOf[l] ELSE r

LEMMA JointKind ==
  ASSUME NEW l \in Integral, NEW r \in Integral
  PROVE  Joint(l, r) = Joint(r, l) /\ Joint(l, r) \in Integral
<1>1. Joint(l, r) \in Integral
  BY Kinds DEF Joint
<1>2. Joint(l, r) = Joint(r, l)
  BY Kinds DEF Joint
<1> QED
  BY <1>1, <1>2

LEMMA ConversionRegular ==
  ASSUME NEW l \in Integral, NEW r \in Integral
  PROVE  ConversionRow(l, r) = Regular(Joint(l, r), l, r)
<1> USE Pairs, Kinds
<1> DEFINE k == Joint(l, r)
<1>1. CASE l = r
  <2>1. ConversionRow(l, r) = Row(l, <<>>)
    BY <1>1 DEF ConversionRow
  <2>2. k = l /\ k = r
    BY <1>1 DEF Joint
  <2> QED
    BY <2>1, <2>2 DEF Regular
<1>2. CASE (l \in Signed <=> r \in Signed) /\ Width[l] < Width[r]
  <2>1. ConversionRow(l, r) = Row(r, Left(IF l \in Signed THEN "SIGN_EXTEND" ELSE "ZERO_EXTEND"))
    BY <1>2 DEF ConversionRow
  <2>2. k = r /\ k # l /\ ExplicitMethod(k, l) = IF l \in Signed THEN "SIGN_EXTEND" ELSE "ZERO_EXTEND"
    BY <1>2, Methods DEF Joint
  <2> QED
    BY <2>1, <2>2 DEF Regular
<1>3. CASE (l \in Signed <=> r \in Signed) /\ Width[l] > Width[r]
  <2>1. ConversionRow(l, r) = Row(l, Right(IF l \in Signed THEN "SIGN_EXTEND" ELSE "ZERO_EXTEND"))
    BY <1>3 DEF ConversionRow
  <2>2. k = l /\ k # r /\ ExplicitMethod(k, r) = IF l \in Signed THEN "SIGN_EXTEND" ELSE "ZERO_EXTEND"
    BY <1>3, Methods DEF Joint
  <2> QED
    BY <2>1, <2>2 DEF Regular
<1>4. CASE l \in Signed /\ r \notin Signed
  <2>1. CASE Width[l] < Width[r]
    <3>1. ConversionRow(l, r) = Row(SignedOf[r], Right("REINTERPRET") \o Left("SIGN_EXTEND"))
      BY <1>4, <2>1 DEF ConversionRow
    <3>2. /\ k = SignedOf[r] /\ k # l /\ k # r
          /\ ExplicitMethod(k, r) = "REINTERPRET" /\ ExplicitMethod(k, l) = "SIGN_EXTEND"
      BY <1>4, <2>1, Methods DEF Joint
    <3> QED
      BY <3>1, <3>2 DEF Regular
  <2>2. CASE Width[l] = Width[r]
    <3>1. ConversionRow(l, r) = Row(l, Right("REINTERPRET"))
      BY <1>4, <2>2 DEF ConversionRow
    <3>2. k = l /\ k # r /\ ExplicitMethod(k, r) = "REINTERPRET"
      BY <1>4, <2>2, Methods DEF Joint
    <3> QED
      BY <3>1, <3>2 DEF Regular
  <2>3. CASE Width[l] > Width[r]
    <3>1. ConversionRow(l, r) = Row(l, Right("ZERO_EXTEND"))
      BY <1>4, <2>3 DEF ConversionRow
    <3>2. k = l /\ k # r /\ ExplicitMethod(k, r) = "ZERO_EXTEND"
      BY <1>4, <2>3, Methods DEF Joint
    <3> QED
      BY <3>1, <3>2 DEF Regular
  <2> QED
    BY <2>1, <2>2, <2>3
<1>5. CASE l \notin Signed /\ r \in Signed
  <2>1. CASE Width[r] < Width[l]
    <3>1. ConversionRow(l, r) = Row(SignedOf[l], Right("SIGN_EXTEND") \o Left("REINTERPRET"))
      BY <1>5, <2>1 DEF ConversionRow
    <3>2. /\ k = SignedOf[l] /\ k # l /\ k # r
          /\ ExplicitMethod(k, l) = "REINTERPRET" /\ ExplicitMethod(k, r) = "SIGN_EXTEND"
      BY <1>5, <2>1, Methods DEF Joint
    <3> QED
      BY <3>1, <3>2 DEF Regular
  <2>2. CASE Width[l] = Width[r]
    <3>1. ConversionRow(l, r) = Row(r, Left("REINTERPRET"))
      BY <1>5, <2>2 DEF ConversionRow
    <3>2. k = r /\ k # l /\ ExplicitMethod(k, l) = "REINTERPRET"
      BY <1>5, <2>2, Methods DEF Joint
    <3> QED
      BY <3>1, <3>2 DEF Regular
  <2>3. CASE Width[r] > Width[l]
    <3>1. ConversionRow(l, r) = Row(r, Left("ZERO_EXTEND"))
      BY <1>5, <2>3 DEF ConversionRow
    <3>2. k = r /\ k # l /\ ExplicitMethod(k, l) = "ZERO_EXTEND"
      BY <1>5, <2>3, Methods DEF Joint
    <3> QED
      BY <3>1, <3>2 DEF Regular
  <2> QED
    BY <2>1, <2>2, <2>3
<1> QED
  BY <1>1, <1>2, <1>3, <1>4, <1>5

\* Integers of fewer than 32 bits become S32 or U32.
Promoted(l, r) ==
  IF l \in Small(Integral) /\ r \in Small(Integral)
    THEN IF l \in Unsigned /\ r \in Unsigned THEN "U32" ELSE "S32"
    ELSE Joint(l, r)

LEMMA PromotedKind ==
  ASSUME NEW l \in Integral, NEW r \in Integral
  PROVE  Promoted(l, r) = Promoted(r, l) /\ Promoted(l, r) \in Integral
<1>1. "U32" \in Integral /\ "S32" \in Integral
  BY DEF Integral, Signed, Unsigned
<1> QED
  BY <1>1, JointKind DEF Promoted

LEMMA PromotionRegular ==
  ASSUME NEW l \in Integral, NEW r \in Integral
  PROVE  PromotionRow(l, r) = Regular(Promoted(l, r), l, r)
<1> USE Pairs, Kinds
<1>1. \A K, k : /\ k \in Small(K) <=> k \in K /\ Width[k] < 32
                /\ k \in Large(K) <=> k \in K /\ ~(Width[k] < 32)
  BY DEF Small, Large
<1>2. \A A, B, a, b : <<a, b>> \in A \X B <=> a \in A /\ b \in B
  OBVIOUS
<1>3. CASE Width[l] < 32 /\ Width[r] < 32
  <2> DEFINE k == Promoted(l, r)
             small == Small(Unsigned) \X Small(Unsigned)
  <2>1. /\ l \in Small(Integral) /\ r \in Small(Integral)
        /\ l \notin Large(Integral) /\ r \notin Large(Integral)
        /\ l \in Unsigned /\ r \in Unsigned <=> <<l, r>> \in small
    BY <1>1, <1>2, <1>3
  <2>2. k = IF l \in Unsigned /\ r \in Unsigned THEN "U32" ELSE "S32"
    BY <2>1 DEF Promoted
  <2>3. Width["U32"] = 32 /\ Width["S32"] = 32 /\ "U32" \in Unsigned /\ "S32" \in Signed
    BY Widths DEF Unsigned, Signed
  <2>7. \A A \in {Signed, Unsigned, Integral} :
          /\ <<l, r>> \notin Up(A, Large(Signed)) /\ <<l, r>> \notin Up(A, Large(Unsigned))
          /\ <<l, r>> \notin Up(A, Large(Integral)) /\ <<l, r>> \notin Down(Large(Signed), A)
          /\ <<l, r>> \notin Down(Large(Unsigned), A) /\ <<l, r>> \notin Down(Large(Integral), A)
          /\ <<l, r>> \notin Level(Large(Signed), A) /\ <<l, r>> \notin Level(Large(Unsigned), A)
    BY <1>1, <1>3
  <2>4. PromotionRow(l, r) = Row(k, Right(Extend(r)) \o Left(Extend(l)))
    <3>1. <<l, r>> \in Small(Integral) \X Small(Integral)
      BY <2>1
    <3>4. <<l, r>> \in small => <<l, r>> \notin (Small(Integral) \X Small(Integral)) \ small
      OBVIOUS
    <3>2. CASE <<l, r>> \in small
      <4>1. PromotionRow(l, r) = Row("U32", Right(Extend(r)) \o Left(Extend(l)))
        BY ONLY <2>1, <2>7, <3>2, <3>4 DEF PromotionRow
      <4> QED
        BY ONLY <2>1, <2>2, <3>2, <4>1
    <3>3. CASE <<l, r>> \notin small
      <4>1. <<l, r>> \in (Small(Integral) \X Small(Integral)) \ small
        BY ONLY <3>1, <3>3
      <4>2. PromotionRow(l, r) = Row("S32", Right(Extend(r)) \o Left(Extend(l)))
        BY ONLY <2>1, <2>7, <3>3, <4>1 DEF PromotionRow
      <4> QED
        BY ONLY <2>1, <2>2, <3>3, <4>2
    <3> QED
      BY <3>2, <3>3
  <2>5. k # l /\ k # r /\ k \in Numeric /\ Width[k] = 32 /\ (k \in Unsigned => l \in Unsigned /\ r \in Unsigned)
    BY <1>3, <2>2, <2>3
  <2>6. ExplicitMethod(k, l) = Extend(l) /\ ExplicitMethod(k, r) = Extend(r)
    <3>1. ASSUME NEW j \in {l, r}
          PROVE  ExplicitMethod(k, j) = Extend(j)
      <4>1. j \in Integral /\ Width[j] < Width[k] /\ k \in Integral /\ (k \in Unsigned => j \in Unsigned)
        BY <1>3, <2>2, <2>3, <2>5
      <4> HIDE DEF k
      <4>2. CASE j \in Signed
        <5>1. k \in Signed
          BY <4>1, <4>2
        <5> QED
          BY <4>1, <4>2, <5>1, Methods DEF Extend
      <4>3. CASE j \in Unsigned
        BY <4>1, <4>3, Methods DEF Extend
      <4> QED
        BY <4>1, <4>2, <4>3
    <3> QED
      BY <3>1
  <2> QED
    BY <2>4, <2>5, <2>6 DEF Regular
<1>4. CASE ~(Width[l] < 32 /\ Width[r] < 32)
  <2>1. PromotionRow(l, r) = ConversionRow(l, r)
    <3>1. CASE l = r
      BY <1>1, <1>2, <1>4, <3>1 DEF PromotionRow, ConversionRow
    <3>2. CASE (l \in Signed <=> r \in Signed) /\ l # r
      BY <1>1, <1>2, <1>4, <3>2 DEF PromotionRow, ConversionRow
    <3>3. CASE l \in Signed /\ r \notin Signed
      BY <1>1, <1>2, <1>4, <3>3 DEF PromotionRow, ConversionRow
    <3>4. CASE l \notin Signed /\ r \in Signed
      BY <1>1, <1>2, <1>4, <3>4 DEF PromotionRow, ConversionRow
    <3> QED
      BY <3>1, <3>2, <3>3, <3>4
  <2>2. Promoted(l, r) = Joint(l, r)
    BY <1>1, <1>4 DEF Promoted
  <2> QED
    BY <2>1, <2>2, ConversionRegular
<1> QED
  BY <1>3, <1>4

\* With a float, the wider of two floats or the only one.
Floated(l, r) ==
  IF {l, r} \in {{"F32", "S64"}, {"F32", "U64"}} THEN "F64"
  ELSE IF l \in Floats /\ (r \in Floats => Width[l] >= Width[r]) THEN l ELSE r

LEMMA FloatedKind ==
  ASSUME NEW l \in Numeric, NEW r \in Numeric, l \in Floats \/ r \in Floats
  PROVE  Floated(l, r) = Floated(r, l) /\ Floated(l, r) \in Floats
<1>1. {l, r} = {r, l} /\ "F64" \in Floats
  BY DEF Floats
<1> QED
  BY <1>1, Kinds DEF Floated

LEMMA FloatRegular ==
  ASSUME NEW l \in Numeric, NEW r \in Numeric, l \in Floats \/ r \in Floats
  PROVE  FloatRow(l, r) = Regular(Floated(l, r), l, r)
<1> USE Pairs, Kinds
<1> DEFINE k == Floated(l, r)
           Long == {"S64", "U64"}
<1>1. /\ "F32" \in Floats /\ "F64" \in Floats /\ Width["F32"] < Width["F64"] /\ "F32" # "F64"
      /\ "F32" \notin Long /\ "F64" \notin Long /\ Long \subseteq Integral
  BY Widths DEF Floats, Integral, Signed, Unsigned
<1>2. {l, r} \in {{"F32", "S64"}, {"F32", "U64"}} <=> (l = "F32" /\ r \in Long) \/ (r = "F32" /\ l \in Long)
  OBVIOUS
<1>3. ASSUME NEW j \in Integral, NEW f \in Floats
      PROVE  ExplicitMethod(f, j) = ToFloat(j)
  BY Methods DEF ToFloat
<1>4. CASE l \in Floats /\ r \in Floats
  <2>1. ~(l \in Long) /\ ~(r \in Long)
    BY <1>1, <1>4
  <2>2. k = IF Width[l] >= Width[r] THEN l ELSE r
    BY <1>2, <1>4, <2>1 DEF Floated
  <2>3. CASE Width[l] = Width[r]
    <3>1. FloatRow(l, r) = Row(l, <<>>)
      BY <1>4, <2>3 DEF FloatRow
    <3> QED
      BY <1>4, <2>2, <2>3, <3>1 DEF Regular
  <2>4. CASE Width[l] < Width[r]
    <3>1. FloatRow(l, r) = Row(r, Left("FLOAT_EXTEND"))
      <4>1. /\ <<l, r>> \notin Level(Floats, Floats) /\ <<l, r>> \notin Down(Floats, Floats)
            /\ <<l, r>> \in Up(Floats, Floats)
        BY <1>4, <2>4
      <4>2. l \notin Long /\ r \notin Long /\ l \notin Integral /\ r \notin Integral
        BY <1>4, <2>1
      <4> QED
        BY ONLY <4>1, <4>2 DEF FloatRow
    <3>2. k = r /\ k # l /\ ExplicitMethod(k, l) = "FLOAT_EXTEND"
      BY <1>4, <2>2, <2>4, Methods
    <3> QED
      BY <3>1, <3>2 DEF Regular
  <2>5. CASE Width[l] > Width[r]
    <3>1. FloatRow(l, r) = Row(l, Right("FLOAT_EXTEND"))
      <4>1. /\ <<l, r>> \notin Level(Floats, Floats) /\ <<l, r>> \notin Up(Floats, Floats)
            /\ <<l, r>> \in Down(Floats, Floats)
        BY <1>4, <2>5
      <4>2. l \notin Long /\ r \notin Long /\ l \notin Integral /\ r \notin Integral
        BY <1>4, <2>1
      <4> QED
        BY ONLY <4>1, <4>2 DEF FloatRow
    <3>2. k = l /\ k # r /\ ExplicitMethod(k, r) = "FLOAT_EXTEND"
      BY <1>4, <2>2, <2>5, Methods
    <3> QED
      BY <3>1, <3>2 DEF Regular
  <2> QED
    BY <2>3, <2>4, <2>5
<1>5. CASE l \in Floats /\ r \in Integral
  <2>1. CASE l = "F32" /\ r \in Long
    <3>1. FloatRow(l, r) = Row("F64", Right(ToFloat(r)) \o Left("FLOAT_EXTEND"))
      BY <1>1, <1>5, <2>1 DEF FloatRow
    <3>2. k = "F64" /\ k # l /\ k # r /\ ExplicitMethod(k, l) = "FLOAT_EXTEND" /\ ExplicitMethod(k, r) = ToFloat(r)
      BY <1>1, <1>2, <1>3, <1>5, <2>1, Methods DEF Floated
    <3> QED
      BY <3>1, <3>2 DEF Regular
  <2>2. CASE ~(l = "F32" /\ r \in Long)
    <3>1. FloatRow(l, r) = Row(l, Right(ToFloat(r)))
      BY <1>1, <1>5, <2>2 DEF FloatRow
    <3>2. k = l /\ k # r /\ ExplicitMethod(k, r) = ToFloat(r)
      BY <1>1, <1>2, <1>3, <1>5, <2>2 DEF Floated
    <3> QED
      BY <3>1, <3>2 DEF Regular
  <2> QED
    BY <2>1, <2>2
<1>6. CASE l \in Integral /\ r \in Floats
  <2>1. CASE r = "F32" /\ l \in Long
    <3>1. FloatRow(l, r) = Row("F64", Right("FLOAT_EXTEND") \o Left(ToFloat(l)))
      BY <1>1, <1>6, <2>1 DEF FloatRow
    <3>2. k = "F64" /\ k # l /\ k # r /\ ExplicitMethod(k, r) = "FLOAT_EXTEND" /\ ExplicitMethod(k, l) = ToFloat(l)
      BY <1>1, <1>2, <1>3, <1>6, <2>1, Methods DEF Floated
    <3> QED
      BY <3>1, <3>2 DEF Regular
  <2>2. CASE ~(r = "F32" /\ l \in Long)
    <3>1. FloatRow(l, r) = Row(r, Left(ToFloat(l)))
      BY <1>1, <1>6, <2>2 DEF FloatRow
    <3>2. k = r /\ k # l /\ ExplicitMethod(k, l) = ToFloat(l)
      BY <1>1, <1>2, <1>3, <1>6, <2>2 DEF Floated
    <3> QED
      BY <3>1, <3>2 DEF Regular
  <2> QED
    BY <2>1, <2>2
<1> QED
  BY <1>4, <1>5, <1>6

LEMMA ImplicitIsExplicit ==
  ASSUME NEW to \in Numeric, NEW from \in Numeric, ImplicitMethod(to, from) # "none"
  PROVE  ImplicitMethod(to, from) = ExplicitMethod(to, from)
<1> USE Pairs, Kinds
<1>1. "F32" \in Floats /\ "S64" \in Signed /\ "U64" \in Unsigned
  BY DEF Floats, Signed, Unsigned
<1>2. CASE from \in Floats /\ to \in Floats
  BY <1>1, <1>2, Methods DEF ImplicitMethod
<1>3. CASE from \in Integral /\ to \in Floats
  BY <1>1, <1>3, Methods DEF ImplicitMethod
<1>4. CASE from \in Floats /\ to \in Integral
  BY <1>1, <1>4, Methods DEF ImplicitMethod
<1>5. CASE from \in Integral /\ to \in Integral
  BY <1>1, <1>5, Methods DEF ImplicitMethod
<1> QED
  BY <1>2, <1>3, <1>4, <1>5

-----------------------------------------------------------------------------
(* The types, and equivalent_type.                                           *)

OtherKinds == {"BOOL", "STRING", "VOID"}

\* What the tuple of a type holds, its parts being of S.
Form(S, t) ==
  /\ Kind(t) \in Numeric \cup OtherKinds \cup {"OBJECT", "ARRAY", "BLOCKREF"}
  /\ Kind(t) \in Numeric \cup OtherKinds => t = <<Kind(t)>>
  /\ Kind(t) = "OBJECT" => t = ObjectOf(t[2]) /\ t[2] \in Classes \cup {NoClass}
  /\ Kind(t) = "ARRAY" => t = ArrayOf(t[2]) /\ t[2] \in S
  /\ Kind(t) = "BLOCKREF" =>
       /\ t \in Seq(S \cup {"BLOCKREF"}) /\ Len(t) >= 2
       /\ \A i \in 2 .. Len(t) : t[i] \in S
       /\ Tail(t) \in Seq(S)

LEMMA NumericKinds ==
  /\ \A k \in Numeric : k \notin OtherKinds \cup {"OBJECT", "ARRAY", "BLOCKREF"}
  /\ \A k \in OtherKinds : k \notin {"OBJECT", "ARRAY", "BLOCKREF"}
BY DEF Numeric, Integral, Signed, Unsigned, Floats, OtherKinds

LEMMA FormOfParts ==
  ASSUME NEW S, NEW t,
         \/ t \in Simple \cup Objects
         \/ t \in {ArrayOf(part) : part \in S}
         \/ t = <<"BLOCKREF">> \o Tail(t) /\ Tail(t) \in Seq(S) /\ Tail(t) # <<>>
  PROVE  Form(S, t)
<1> USE NumericKinds
<1>1. CASE t \in Simple
  <2>1. PICK k \in Numeric \cup OtherKinds : t = <<k>>
    BY <1>1 DEF Simple, OtherKinds
  <2>2. Kind(t) = k
    BY <2>1 DEF Kind
  <2> QED
    BY <2>1, <2>2 DEF Form
<1>2. CASE t \in Objects
  <2>1. PICK c \in Classes \cup {NoClass} : t = <<"OBJECT", c>>
    BY <1>2 DEF Objects, ObjectOf
  <2>2. Kind(t) = "OBJECT" /\ t[2] = c
    BY <2>1 DEF Kind
  <2> QED
    BY <2>1, <2>2 DEF Form, ObjectOf
<1>3. CASE t \in {ArrayOf(part) : part \in S}
  <2>1. PICK p \in S : t = <<"ARRAY", p>>
    BY <1>3 DEF ArrayOf
  <2>2. Kind(t) = "ARRAY" /\ t[2] = p
    BY <2>1 DEF Kind
  <2> QED
    BY <2>1, <2>2 DEF Form, ArrayOf
<1>4. CASE t = <<"BLOCKREF">> \o Tail(t) /\ Tail(t) \in Seq(S) /\ Tail(t) # <<>>
  <2> DEFINE s == Tail(t)
             R == S \cup {"BLOCKREF"}
  <2>1. s \in Seq(S) /\ s # <<>> /\ s \in Seq(R) /\ <<"BLOCKREF">> \in Seq(R) /\ t = <<"BLOCKREF">> \o s
    BY <1>4
  <2> HIDE DEF s
  <2>2. /\ t \in Seq(R) /\ Len(t) = 1 + Len(s) /\ t[1] = "BLOCKREF" /\ Len(s) \in Nat /\ Len(s) # 0
        /\ \A i \in 2 .. Len(t) : t[i] = s[i - 1] /\ i - 1 \in 1 .. Len(s)
    BY <2>1
  <2>3. \A i \in 2 .. Len(t) : t[i] \in S
    BY <2>1, <2>2
  <2>4. Kind(t) = "BLOCKREF"
    BY <2>2 DEF Kind
  <2> QED
    BY <1>4, <2>2, <2>3, <2>4 DEF Form
<1> QED
  BY <1>1, <1>2, <1>3, <1>4

LEMMA FormOfTypes ==
  /\ TypesOf \in Seq(SUBSET AllTypes)
  /\ \A n \in 1 .. Len(TypesOf) : \A t \in TypesOf[n] : Form(Before(n), t)
  /\ \A t \in AllTypes : Form(AllTypes, t)
<1>1. TypesOf \in Seq(SUBSET AllTypes)
  BY TypesAssumption
<1>2. ASSUME NEW n \in 1 .. Len(TypesOf), NEW t \in TypesOf[n]
      PROVE  Form(Before(n), t) /\ Form(AllTypes, t)
  <2>1. \/ t \in Simple \cup Objects
        \/ t \in {ArrayOf(part) : part \in Before(n)}
        \/ t = <<"BLOCKREF">> \o Tail(t) /\ Tail(t) \in Seq(Before(n)) /\ Tail(t) # <<>>
    BY TypesAssumption
  <2>2. Before(n) \subseteq AllTypes
    <3>1. Len(TypesOf) \in Nat
      BY <1>1
    <3>2. 1 .. n - 1 \subseteq 1 .. Len(TypesOf)
      BY <3>1
    <3> QED
      BY <3>2 DEF Before, AllTypes
  <2>3. \/ t \in Simple \cup Objects
        \/ t \in {ArrayOf(part) : part \in AllTypes}
        \/ t = <<"BLOCKREF">> \o Tail(t) /\ Tail(t) \in Seq(AllTypes) /\ Tail(t) # <<>>
    <3>1. CASE t \in Simple \cup Objects
      BY <3>1
    <3>2. CASE t \in {ArrayOf(part) : part \in Before(n)}
      BY <2>2, <3>2
    <3>3. CASE t = <<"BLOCKREF">> \o Tail(t) /\ Tail(t) \in Seq(Before(n)) /\ Tail(t) # <<>>
      <4> DEFINE s == Tail(t)
      <4>1. s \in Seq(AllTypes)
        <5> HIDE DEF s
        <5>1. ASSUME s \in Seq(Before(n))
              PROVE  s \in Seq(AllTypes)
          BY <2>2, <5>1
        <5> QED
          BY <3>3, <5>1 DEF s
      <4> QED
        BY <3>3, <4>1
    <3> QED
      BY <2>1, <3>1, <3>2, <3>3
  <2> QED
    BY <2>1, <2>3, FormOfParts
<1>3. \A t \in AllTypes : \E n \in 1 .. Len(TypesOf) : t \in TypesOf[n]
  BY DEF AllTypes
<1> QED
  BY <1>1, <1>2, <1>3

Answers == {"yes", "no", "undefined"}

Unlike(f, left, right) == {i \in 2 .. Len(left) : i <= Len(right) /\ f[left[i]][right[i]] # "yes"}
FirstOf(s) == CHOOSE i \in s : \A j \in s : i <= j

\* The body of Equivalent.
Compared(f, left, right) ==
  CASE Kind(left) = "ARRAY" -> IF Kind(right) = "ARRAY" THEN f[left[2]][right[2]] ELSE "no"
    [] Kind(left) = "BLOCKREF" /\ Kind(right) # "BLOCKREF" -> "undefined"
    [] Kind(left) = "BLOCKREF" /\ Kind(right) = "BLOCKREF" ->
         IF Unlike(f, left, right) # {}
           THEN LET first == FirstOf(Unlike(f, left, right)) IN f[left[first]][right[first]]
           ELSE IF Len(left) = Len(right) THEN "yes" ELSE "no"
    [] OTHER -> IF left = right THEN "yes" ELSE "no"

LEMMA FirstIs ==
  ASSUME NEW s \in SUBSET Nat, s # {}
  PROVE  FirstOf(s) \in s /\ \A j \in s : FirstOf(s) <= j
BY LeastElement DEF FirstOf

LEMMA ComparedAlike ==
  ASSUME NEW S, NEW left, NEW right, NEW f, NEW g, Form(S, left), \A p \in S : f[p] = g[p]
  PROVE  Compared(f, left, right) = Compared(g, left, right)
<1>1. CASE Kind(left) = "ARRAY"
  BY <1>1 DEF Compared, Form
<1>2. CASE Kind(left) = "BLOCKREF"
  <2>1. \A i \in 2 .. Len(left) : f[left[i]] = g[left[i]]
    BY <1>2 DEF Form
  <2>2. Unlike(f, left, right) = Unlike(g, left, right)
    BY <2>1 DEF Unlike
  <2> DEFINE s == Unlike(f, left, right)
             i == FirstOf(s)
  <2>3. CASE s = {}
    BY <1>2, <2>2, <2>3 DEF Compared
  <2>4. CASE s # {}
    <3>1. s \in SUBSET Nat /\ s \subseteq 2 .. Len(left)
      BY <1>2 DEF Unlike, Form
    <3>2. i \in 2 .. Len(left)
      BY <2>4, <3>1, FirstIs
    <3>3. f[left[i]][right[i]] = g[left[i]][right[i]]
      BY <2>1, <3>2
    <3> QED
      BY <1>2, <2>2, <2>4, <3>3 DEF Compared
  <2> QED
    BY <2>3, <2>4
<1>3. CASE Kind(left) \notin {"ARRAY", "BLOCKREF"}
  BY <1>3 DEF Compared
<1> QED
  BY <1>1, <1>2, <1>3

LEMMA ComparedType ==
  ASSUME NEW f \in [AllTypes -> [AllTypes -> Answers]], NEW left \in AllTypes, NEW right \in AllTypes
  PROVE  Compared(f, left, right) \in Answers
<1>1. Form(AllTypes, left) /\ Form(AllTypes, right)
  BY FormOfTypes
<1>2. CASE Kind(left) = "ARRAY"
  BY <1>1, <1>2 DEF Compared, Form, Answers
<1>3. CASE Kind(left) = "BLOCKREF" /\ Kind(right) = "BLOCKREF"
  <2> DEFINE s == Unlike(f, left, right)
             i == FirstOf(s)
  <2>1. CASE s = {}
    BY <1>3, <2>1 DEF Compared, Answers
  <2>2. CASE s # {}
    <3>1. /\ s \in SUBSET Nat
          /\ \A j \in s : j \in 2 .. Len(left) /\ j \in 2 .. Len(right)
      BY <1>1, <1>3 DEF Unlike, Form
    <3>2. left[i] \in AllTypes /\ right[i] \in AllTypes
      BY <1>1, <1>3, <2>2, <3>1, FirstIs DEF Form
    <3>3. f[left[i]][right[i]] \in Answers
      BY <3>2
    <3> QED
      BY <1>3, <2>2, <3>3 DEF Compared
  <2> QED
    BY <2>1, <2>2
<1>4. CASE Kind(left) = "BLOCKREF" /\ Kind(right) # "BLOCKREF"
  BY <1>4 DEF Compared, Answers
<1>5. CASE Kind(left) \notin {"ARRAY", "BLOCKREF"}
  BY <1>5 DEF Compared, Answers
<1> QED
  BY <1>2, <1>3, <1>4, <1>5

\* The recursion ends, since the parts of a type come before it.
LEMMA ComparisonExists ==
  \E f \in [AllTypes -> [AllTypes -> Answers]] :
    \A l, r \in AllTypes : f[l][r] = Compared(f, l, r)
<1> DEFINE F == [AllTypes -> [AllTypes -> Answers]]
           Done2(f, k) == \A l \in Before(k + 1) : \A r \in AllTypes : f[l][r] = Compared(f, l, r)
           S == {k \in 0 .. Len(TypesOf) : ~ \E f \in F : Done2(f, k)}
<1>1. Len(TypesOf) \in Nat
  BY FormOfTypes
<1>2. \E f \in F : Done2(f, 0)
  <2>1. [l \in AllTypes |-> [r \in AllTypes |-> "no"]] \in F
    BY DEF Answers
  <2>2. Before(0 + 1) = {}
    BY DEF Before
  <2> QED
    BY <2>1, <2>2
<1>3. ASSUME NEW k \in 1 .. Len(TypesOf), NEW f \in F, Done2(f, k - 1)
      PROVE  \E g \in F : Done2(g, k)
  <2> DEFINE g == [l \in AllTypes |->
                     IF l \in Before(k) THEN f[l] ELSE [r \in AllTypes |-> Compared(f, l, r)]]
  <2>1. g \in F
    <3>1. \A l \in AllTypes : f[l] \in [AllTypes -> Answers]
      OBVIOUS
    <3>2. \A l \in AllTypes : [r \in AllTypes |-> Compared(f, l, r)] \in [AllTypes -> Answers]
      BY ComparedType
    <3> QED
      BY <3>1, <3>2
  <2>2. Before(k) \subseteq AllTypes /\ Before(k + 1) = Before(k) \cup TypesOf[k]
        /\ Before(k + 1) \subseteq AllTypes /\ (k - 1) + 1 = k
    <3>1. /\ 1 .. (k + 1) - 1 = (1 .. k - 1) \cup {k} /\ k \in 1 .. Len(TypesOf)
          /\ 1 .. k - 1 \subseteq 1 .. Len(TypesOf) /\ (k - 1) + 1 = k
      BY <1>1
    <3> QED
      BY <3>1 DEF Before, AllTypes
  <2>3. \A p \in Before(k) : g[p] = f[p]
    BY <2>2
  <2>4. ASSUME NEW l \in Before(k + 1), NEW r \in AllTypes
        PROVE  g[l][r] = Compared(g, l, r)
    <3>1. g[l][r] = Compared(f, l, r)
      <4>1. CASE l \in Before(k)
        BY <1>3, <2>2, <4>1
      <4>2. CASE l \notin Before(k)
        BY <2>2, <4>2
      <4> QED
        BY <4>1, <4>2
    <3>2. Form(Before(k), l)
      <4>1. PICK m \in 1 .. k : l \in TypesOf[m]
        BY <1>1 DEF Before
      <4>2. m \in 1 .. Len(TypesOf) /\ Before(m) \subseteq Before(k)
        BY <1>1 DEF Before
      <4>3. Form(Before(m), l)
        BY <4>1, <4>2, FormOfTypes
      <4> QED
        <5>1. ASSUME Kind(l) = "BLOCKREF"
              PROVE  /\ l \in Seq(Before(k) \cup {"BLOCKREF"}) /\ Len(l) >= 2
                     /\ \A i \in 2 .. Len(l) : l[i] \in Before(k)
                     /\ Tail(l) \in Seq(Before(k))
          BY <4>2, <4>3, <5>1 DEF Form
        <5> QED
          BY <4>2, <4>3, <5>1 DEF Form
    <3> HIDE DEF g
    <3>3. Compared(f, l, r) = Compared(g, l, r)
      BY <2>3, <3>2, ComparedAlike
    <3> QED
      BY <3>1, <3>3
  <2> HIDE DEF g
  <2> QED
    BY <2>1, <2>4
<1> HIDE DEF Done2, F
<1>4. ASSUME NEW k \in S
      PROVE  \E j \in S : j < k
  <2>1. k \in 0 .. Len(TypesOf) /\ ~ \E f \in F : Done2(f, k)
    OBVIOUS
  <2>2. k # 0
    BY <1>2, <2>1
  <2>3. k \in 1 .. Len(TypesOf) /\ k - 1 \in 0 .. Len(TypesOf) /\ k - 1 < k
    BY <1>1, <2>1, <2>2
  <2>4. k - 1 \in S
    BY <1>3, <2>1, <2>3
  <2> QED
    BY <2>3, <2>4
<1>5. S = {}
  <2> HIDE DEF S
  <2>1. S \in SUBSET Nat
    BY <1>1 DEF S
  <2> QED
    BY ONLY <1>4, <2>1, NoLeastNoElement
<1>6. Len(TypesOf) \in 0 .. Len(TypesOf)
  BY <1>1
<1>7. PICK f \in F : Done2(f, Len(TypesOf))
  BY <1>5, <1>6
<1>8. Before(Len(TypesOf) + 1) = AllTypes
  <2>1. (Len(TypesOf) + 1) - 1 = Len(TypesOf)
    BY <1>1
  <2> QED
    BY <2>1 DEF Before, AllTypes
<1> QED
  BY <1>7, <1>8 DEF Done2, F

LEMMA EquivalentIs ==
  \A l, r \in AllTypes : Equivalent[l][r] = Compared(Equivalent, l, r)
<1> DEFINE IsRight(f) == f = [left \in AllTypes |-> [right \in AllTypes |-> Compared(f, left, right)]]
<1>1. PICK f \in [AllTypes -> [AllTypes -> Answers]] : \A l, r \in AllTypes : f[l][r] = Compared(f, l, r)
  BY ComparisonExists
<1>2. IsRight(f)
  <2>1. \A l \in AllTypes : f[l] = [right \in AllTypes |-> Compared(f, l, right)]
    BY <1>1
  <2> QED
    BY <2>1
<1>3. Equivalent = CHOOSE g : IsRight(g)
  BY DEF Equivalent, Compared, Unlike, FirstOf
<1> HIDE DEF IsRight
<1>4. IsRight(Equivalent)
  BY <1>2, <1>3
<1>5. ASSUME NEW l \in AllTypes, NEW r \in AllTypes
      PROVE  Equivalent[l][r] = Compared(Equivalent, l, r)
  <2>1. Equivalent[l] = [right \in AllTypes |-> Compared(Equivalent, l, right)]
    BY ONLY <1>4, l \in AllTypes DEF IsRight
  <2> QED
    BY ONLY <2>1, r \in AllTypes
<1> QED
  BY <1>5

EqualOn(S) == \A p \in S, q \in AllTypes : Equivalent[p][q] = "yes" <=> p = q

LEMMA EqualParts ==
  ASSUME NEW S \in SUBSET AllTypes, NEW left \in AllTypes, NEW right \in AllTypes, Form(S, left), EqualOn(S)
  PROVE  Equivalent[left][right] = "yes" <=> left = right
<1> USE DEF EqualOn
<1>1. Equivalent[left][right] = Compared(Equivalent, left, right)
  BY EquivalentIs
<1>2. Form(AllTypes, right) /\ Form(AllTypes, left)
  BY FormOfTypes
<1>3. CASE Kind(left) = "ARRAY"
  <2>1. CASE Kind(right) # "ARRAY"
    BY <1>1, <1>3, <2>1 DEF Compared
  <2>2. CASE Kind(right) = "ARRAY"
    <3>1. left = <<"ARRAY", left[2]>> /\ right = <<"ARRAY", right[2]>> /\ left[2] \in S /\ right[2] \in AllTypes
      BY <1>2, <1>3, <2>2 DEF Form, ArrayOf
    <3>2. Compared(Equivalent, left, right) = Equivalent[left[2]][right[2]]
      BY <1>3, <2>2 DEF Compared
    <3>3. left[2] = right[2] <=> left = right
      BY ONLY <3>1
    <3> QED
      BY <1>1, <3>1, <3>2, <3>3
  <2> QED
    BY <2>1, <2>2
<1>4. CASE Kind(left) = "BLOCKREF" /\ Kind(right) = "BLOCKREF"
  <2> DEFINE u == Unlike(Equivalent, left, right)
             i == FirstOf(u)
  <2>1. /\ left \in Seq(S \cup {"BLOCKREF"}) /\ Len(left) >= 2 /\ \A j \in 2 .. Len(left) : left[j] \in S
        /\ right \in Seq(AllTypes \cup {"BLOCKREF"}) /\ Len(right) >= 2
        /\ \A j \in 2 .. Len(right) : right[j] \in AllTypes
        /\ left[1] = right[1]
    BY <1>2, <1>4 DEF Form, Kind
  <2>2. Len(left) \in Nat /\ Len(right) \in Nat /\ DOMAIN left = 1 .. Len(left) /\ DOMAIN right = 1 .. Len(right)
        /\ left = [j \in DOMAIN left |-> left[j]] /\ right = [j \in DOMAIN right |-> right[j]]
    BY <2>1
  <2>3. \A j \in u : j \in 2 .. Len(left) /\ j \in 2 .. Len(right) /\ Equivalent[left[j]][right[j]] # "yes"
    BY <2>2 DEF Unlike
  <2>4. \A j \in 2 .. Len(left) : j <= Len(right) /\ j \notin u => Equivalent[left[j]][right[j]] = "yes"
    BY DEF Unlike
  <2>5. CASE u # {}
    <3>1. u \in SUBSET Nat
      BY <2>3
    <3>2. i \in u
      BY <2>5, <3>1, FirstIs
    <3>3. left[i] # right[i] /\ Equivalent[left[i]][right[i]] # "yes" /\ i \in DOMAIN left
      BY <2>1, <2>2, <2>3, <3>2
    <3>4. Compared(Equivalent, left, right) = Equivalent[left[i]][right[i]]
      BY <1>4, <2>5 DEF Compared
    <3> QED
      BY <1>1, <3>3, <3>4
  <2>6. CASE u = {}
    <3>1. Compared(Equivalent, left, right) = IF Len(left) = Len(right) THEN "yes" ELSE "no"
      BY <1>4, <2>6 DEF Compared
    <3>2. ASSUME Len(left) = Len(right)
          PROVE  left = right
      <4>1. ASSUME NEW j \in DOMAIN left
            PROVE  left[j] = right[j]
        <5>1. CASE j = 1
          BY <2>1, <5>1
        <5>2. CASE j # 1
          <6>1. j \in 2 .. Len(left) /\ j \in 2 .. Len(right) /\ j <= Len(right)
            BY <2>2, <3>2, <5>2
          <6>2. left[j] \in S /\ right[j] \in AllTypes /\ Equivalent[left[j]][right[j]] = "yes"
            BY <2>1, <2>4, <2>6, <6>1
          <6> QED
            BY <6>2
        <5> QED
          BY <5>1, <5>2
      <4> QED
        BY <2>2, <3>2, <4>1
    <3> QED
      BY <1>1, <3>1, <3>2
  <2> QED
    BY <2>5, <2>6
<1>5. CASE Kind(left) = "BLOCKREF" /\ Kind(right) # "BLOCKREF"
  BY <1>1, <1>5 DEF Compared
<1>6. CASE Kind(left) \notin {"ARRAY", "BLOCKREF"}
  BY <1>1, <1>6 DEF Compared
<1> QED
  BY <1>3, <1>4, <1>5, <1>6

(* equivalent_type says yes of equal types and of no others.                  *)
THEOREM EquivalentIsEqual ==
  \A left, right \in AllTypes : Equivalent[left][right] = "yes" <=> left = right
<1> DEFINE Equal(l) == \A r \in AllTypes : Equivalent[l][r] = "yes" <=> l = r
           S == {n \in 1 .. Len(TypesOf) : \E l \in TypesOf[n] : ~Equal(l)}
<1>1. Len(TypesOf) \in Nat /\ \A n \in 1 .. Len(TypesOf) : TypesOf[n] \subseteq AllTypes
  BY FormOfTypes
<1>2. ASSUME NEW n \in S
      PROVE  \E m \in S : m < n
  <2>1. PICK l \in TypesOf[n] : ~Equal(l)
    OBVIOUS
  <2>2. SUFFICES ASSUME \A m \in S : ~(m < n)
                 PROVE  FALSE
    OBVIOUS
  <2>3. n \in 1 .. Len(TypesOf) /\ Form(Before(n), l) /\ l \in AllTypes
    BY <1>1, FormOfTypes
  <2>4. ASSUME NEW p \in Before(n)
        PROVE  Equal(p)
    <3>1. PICK m \in 1 .. n - 1 : p \in TypesOf[m]
      BY DEF Before
    <3>2. m \in 1 .. Len(TypesOf) /\ m < n
      BY <1>1, <2>3
    <3> QED
      BY <2>2, <3>1, <3>2
  <2>5. Before(n) \in SUBSET AllTypes
    <3>1. 1 .. n - 1 \subseteq 1 .. Len(TypesOf)
      BY <1>1, <2>3
    <3> QED
      BY <1>1, <3>1 DEF Before
  <2>6. EqualOn(Before(n))
    BY <2>4 DEF EqualOn
  <2>7. \A r \in AllTypes : Equivalent[l][r] = "yes" <=> l = r
    BY ONLY <2>3, <2>5, <2>6, EqualParts
  <2> QED
    BY <2>1, <2>7
<1>3. S = {}
  <2> HIDE DEF S
  <2>1. S \in SUBSET Nat
    BY <1>1 DEF S
  <2> QED
    BY ONLY <1>2, <2>1, NoLeastNoElement
<1>4. \A l \in AllTypes : \E n \in 1 .. Len(TypesOf) : l \in TypesOf[n]
  BY DEF AllTypes
<1> QED
  BY <1>3, <1>4

-----------------------------------------------------------------------------
(* Operands and conversions.                                                 *)

LEMMA LeafIs ==
  ASSUME NEW v \in LeafNodes
  PROVE  /\ v.type \in AllTypes /\ v.op \in {"LITERAL", "VALUE"} /\ v.how = "" /\ v.operands = <<>>
         /\ v.op = "LITERAL" /\ Kind(v.type) = "OBJECT" => v.type = NullType
         /\ v = Node(v.op, "", v.type, <<>>)
         /\ DOMAIN v = {"op", "how", "type", "operands"}
<1>1. Simple \cup Objects \subseteq AllTypes /\ NullType \in Objects
  BY TypesAssumption DEF Objects, NullType
<1>2. CASE v \in {Value(t) : t \in AllTypes}
  <2>1. PICK t \in AllTypes : v = Value(t)
    BY <1>2
  <2> QED
    BY <2>1 DEF Value, Node
<1>3. CASE v \in {Literal(t) : t \in (Simple \ {Void}) \cup {NullType}}
  <2>1. PICK t \in (Simple \ {Void}) \cup {NullType} : v = Literal(t)
    BY <1>3
  <2>2. t \in AllTypes
    BY <1>1, <2>1
  <2>3. t \in Simple => Kind(t) # "OBJECT"
    BY NumericKinds DEF Simple, Kind, OtherKinds
  <2> QED
    BY <2>1, <2>2, <2>3 DEF Literal, Node
<1> QED
  BY <1>2, <1>3 DEF LeafNodes

\* The casts that an analysis adds.
Inserted(m, t, from) ==
  \/ /\ Kind(t) \in Numeric /\ Kind(from) \in Numeric /\ Kind(t) # Kind(from)
     /\ m = ExplicitMethod(Kind(t), Kind(from))
  \/ Kind(t) = "OBJECT" /\ Kind(from) = "OBJECT" /\ m = "UPCAST" /\ Inherits[from[2]][t[2]]

\* Node n stands for operand v where t is expected.
Stands(n, v, t) ==
  \/ n = v /\ Fits(v, t)
  \/ \E m : n = Cast(m, t, <<v>>) /\ Inserted(m, t, v.type)
  \/ n = NotZero(v) /\ t = Bool /\ IsInteger(v.type)

\* A cast of numbers is the one between their types.
SoundCast(c) ==
  LET from == Kind(c.operands[1].type)
      to == Kind(c.type)
  IN {from, to} \subseteq Numeric => to # from /\ c.how = ExplicitMethod(to, from)

\* A node whose types are those its operation asks for, or that nothing is asked of.
Accepted(n) == NodeFits(n) \/ Unchecked(n)
SoundNode(n) == Accepted(n) /\ (n.op = "CAST" => SoundCast(n))

LEMMA MethodFits ==
  ASSUME NEW c, NEW v, c.operands = <<v>>, Kind(c.type) \in Numeric, Kind(v.type) \in Numeric,
         Kind(c.type) # Kind(v.type), c.how = ExplicitMethod(Kind(c.type), Kind(v.type))
  PROVE  CastFits(c) /\ SoundCast(c)
<1> DEFINE from == Kind(v.type)
           to == Kind(c.type)
<1>1. c.operands[1] = v /\ Len(c.operands) = 1
  OBVIOUS
<1>2. SoundCast(c)
  BY <1>1 DEF SoundCast
<1> USE Pairs, Kinds
<1>3. CASE from \in Integral /\ to \in Integral /\ Width[from] = Width[to]
  <2>1. c.how = "REINTERPRET"
    BY <1>3, Methods
  <2> QED
    BY <1>1, <1>2, <1>3, <2>1 DEF CastFits
<1>4. CASE from \in Integral /\ to \in Integral /\ Width[from] > Width[to]
  <2>1. c.how = "TRUNCATE"
    BY <1>4, Methods
  <2> QED
    BY <1>1, <1>2, <1>4, <2>1 DEF CastFits
<1>5. CASE from \in Integral /\ to \in Integral /\ Width[from] < Width[to]
  <2>1. \/ c.how = "SIGN_EXTEND" /\ from \in Signed
        \/ c.how = "ZERO_EXTEND"
    BY <1>5, Methods
  <2> QED
    BY <1>1, <1>2, <1>5, <2>1 DEF CastFits
<1>6. CASE from \in Integral /\ to \in Floats
  <2>1. c.how = IF from \in Signed THEN "SIGNED_TO_FLOAT" ELSE "UNSIGNED_TO_FLOAT"
    BY <1>6, Methods
  <2>2. <<from, to>> \in (IF from \in Signed THEN Signed ELSE Unsigned) \X Floats
    BY <1>6
  <2> QED
    BY <1>1, <1>2, <1>6, <2>1, <2>2 DEF CastFits
<1>7. CASE from \in Floats /\ to \in Integral
  <2>1. c.how = IF to \in Signed THEN "FLOAT_TO_SIGNED" ELSE "FLOAT_TO_UNSIGNED"
    BY <1>7, Methods
  <2>2. <<from, to>> \in Floats \X (IF to \in Signed THEN Signed ELSE Unsigned)
    BY <1>7
  <2> QED
    BY <1>1, <1>2, <1>7, <2>1, <2>2 DEF CastFits
<1>8. CASE from \in Floats /\ to \in Floats
  <2>1. c.how = IF Width[from] < Width[to] THEN "FLOAT_EXTEND" ELSE "FLOAT_TRUNCATE"
    BY <1>8, Methods
  <2>2. Width[from] < Width[to] \/ Width[from] > Width[to]
    BY <1>8
  <2> QED
    BY <1>1, <1>2, <1>8, <2>1, <2>2 DEF CastFits
<1> QED
  BY <1>3, <1>4, <1>5, <1>6, <1>7, <1>8

LEMMA InsertedFits ==
  ASSUME NEW v, NEW t, NEW m, Inserted(m, t, v.type)
  PROVE  CastFits(Cast(m, t, <<v>>)) /\ SoundCast(Cast(m, t, <<v>>))
<1> DEFINE c == Cast(m, t, <<v>>)
<1>1. c.operands = <<v>> /\ c.type = t /\ c.how = m /\ c.operands[1] = v /\ Len(c.operands) = 1
  BY DEF Cast, Node
<1> HIDE DEF c
<1>2. ASSUME Kind(t) \in Numeric, Kind(v.type) \in Numeric
      PROVE  CastFits(c) /\ SoundCast(c)
  <2>1. m = ExplicitMethod(Kind(t), Kind(v.type)) /\ Kind(t) # Kind(v.type)
    BY <1>2, NumericKinds DEF Inserted
  <2> QED
    BY <1>1, <1>2, <2>1, MethodFits
<1>3. ASSUME Kind(t) = "OBJECT", Kind(v.type) = "OBJECT", m = "UPCAST", Inherits[v.type[2]][t[2]]
      PROVE  CastFits(c) /\ SoundCast(c)
  <2>1. SoundCast(c)
    BY <1>1, <1>3, NumericKinds DEF SoundCast
  <2>2. CastFits(c)
    BY <1>1, <1>3 DEF CastFits
  <2> QED
    BY <2>1, <2>2
<1>4. CastFits(c) /\ SoundCast(c)
  BY <1>2, <1>3 DEF Inserted
<1> QED
  BY <1>4 DEF c

\* What is used of an operand as it stands.
LEMMA StandsIs ==
  ASSUME NEW v \in LeafNodes, NEW t \in AllTypes, NEW n, Stands(n, v, t)
  PROVE  /\ Fits(n, t) /\ SoundNode(n) /\ Bare(n) = v
         /\ n = v \/ n.type = t
         /\ n.op \in {"LITERAL", "VALUE", "CAST", "COMPARE"}
         /\ n.op = "CAST" => Kind(n.type) \in Numeric \cup {"OBJECT"}
<1>1. CASE n = v /\ Fits(v, t)
  BY <1>1, LeafIs DEF SoundNode, Accepted, NodeFits, Bare
<1>2. CASE \E m : n = Cast(m, t, <<v>>) /\ Inserted(m, t, v.type)
  <2>1. PICK m : n = Cast(m, t, <<v>>) /\ Inserted(m, t, v.type)
    BY <1>2
  <2>2. n.op = "CAST" /\ n.type = t /\ n.operands = <<v>> /\ Len(n.operands) = 1 /\ n.operands[1] = v
    BY <2>1 DEF Cast, Node
  <2>3. CastFits(n) /\ SoundCast(n)
    BY <2>1, InsertedFits
  <2>4. NodeFits(n)
    BY <2>2, <2>3 DEF NodeFits
  <2>5. Bare(n) = v /\ Fits(n, t)
    BY <2>2 DEF Bare, Fits
  <2> QED
    BY <2>1, <2>2, <2>3, <2>4, <2>5 DEF SoundNode, Accepted, Inserted
<1>3. CASE n = NotZero(v) /\ t = Bool /\ IsInteger(v.type)
  <2>1. /\ n.op = "COMPARE" /\ n.how = "NE" /\ n.type = t /\ n.operands = <<v, Literal(v.type)>>
        /\ n.operands[1] = v /\ n.operands[2] = Literal(v.type) /\ Len(n.operands) = 2
    BY <1>3 DEF NotZero, Node
  <2>2. Bare(n) = v /\ Fits(n, t)
    BY <2>1 DEF Bare, Fits
  <2>3. Types(n.operands)[1] = v.type /\ Types(n.operands)[2] = v.type
    <3>1. Literal(v.type).type = v.type
      BY DEF Literal, Node
    <3>2. n.operands[2].type = v.type
      BY <2>1, <3>1
    <3>3. DOMAIN n.operands = 1 .. 2
      BY ONLY <2>1
    <3> QED
      BY <2>1, <3>2, <3>3 DEF Types
  <2>4. Types(n.operands) = <<v.type, v.type>> /\ Kind(v.type) \in Numeric
    <3>1. Types(n.operands) = <<v.type, v.type>>
      BY <2>1, <2>3 DEF Types
    <3> QED
      BY <1>3, <3>1, Kinds DEF IsInteger
  <2>5. CompareFits(n)
    BY <2>3, <2>4 DEF CompareFits
  <2>6. NodeFits(n)
    BY <2>1, <2>5 DEF NodeFits
  <2> QED
    BY <2>1, <2>2, <2>6 DEF SoundNode, Accepted
<1> QED
  BY <1>1, <1>2, <1>3 DEF Stands

LEMMA KindFacts ==
  ASSUME NEW t \in AllTypes
  PROVE  /\ Kind(t) \in Numeric => t = <<Kind(t)>>
         /\ Kind(t) = "BOOL" <=> t = Bool
         /\ Kind(t) = "STRING" <=> t = Str
         /\ Kind(t) = "VOID" <=> t = Void
         /\ Kind(t) = "OBJECT" => t = ObjectOf(t[2]) /\ t[2] \in Classes \cup {NoClass}
         /\ Kind(t) = "ARRAY" => t = ArrayOf(t[2]) /\ t[2] \in AllTypes
         /\ Kind(t) \notin {"ARRAY", "BLOCKREF"} =>
              \A r \in AllTypes : Equivalent[t][r] = IF t = r THEN "yes" ELSE "no"
<1>1. Form(AllTypes, t)
  BY FormOfTypes
<1>2. Kind(Bool) = "BOOL" /\ Kind(Str) = "STRING" /\ Kind(Void) = "VOID"
  BY DEF Kind, Bool, Str, Void
<1>3. ASSUME Kind(t) \notin {"ARRAY", "BLOCKREF"}, NEW r \in AllTypes
      PROVE  Equivalent[t][r] = IF t = r THEN "yes" ELSE "no"
  <2>1. Equivalent[t][r] = Compared(Equivalent, t, r)
    BY EquivalentIs
  <2> QED
    BY <1>3, <2>1 DEF Compared
<1> QED
  BY <1>1, <1>2, <1>3 DEF Form, Bool, Str, Void, OtherKinds

(* implicit_cast of the head of a chain.                                      *)
LEMMA ImplicitCastIs ==
  ASSUME NEW chain, NEW v \in LeafNodes, Head(chain) = v, NEW t \in AllTypes,
         NEW r, r = ImplicitCast(chain, t), r.end = "done"
  PROVE  \/ r = Done(chain) /\ Fits(v, t)
         \/ \E m : r = Done(<<Cast(m, t, chain)>>) /\ Inserted(m, t, v.type)
         \/ r = Done(<<NotZero(v)>>) /\ t = Bool /\ IsInteger(v.type)
<1> DEFINE to == Kind(t)
           from == Kind(v.type)
           same == Equivalent[v.type][t]
<1>1. v.type \in AllTypes /\ (same = "yes" <=> v.type = t)
  <2>1. v.type \in AllTypes
    BY LeafIs
  <2> QED
    BY ONLY <2>1, t \in AllTypes, EquivalentIsEqual
<1>2. /\ from \notin {"ARRAY", "BLOCKREF"} => same = IF v.type = t THEN "yes" ELSE "no"
      /\ from \in Numeric => v.type = <<from>>
      /\ to \in Numeric => t = <<to>>
      /\ to = "BOOL" => t = Bool
      /\ to = "STRING" => t = Str
      /\ v.op = "LITERAL" /\ from = "OBJECT" => v.type = NullType
  BY <1>1, KindFacts, LeafIs
<1>3. /\ Kind(NullType) = "OBJECT"
      /\ \A k \in Integral : k \in Numeric
      /\ \A k \in Numeric : k \notin {"BOOL", "STRING", "OBJECT", "ARRAY", "BLOCKREF"}
  BY NumericKinds DEF NullType, ObjectOf, Kind, Numeric, OtherKinds
<1> HIDE DEF to, from, same
<1>4. CASE same = "yes"
  <2>1. v.type = t /\ from = to
    BY <1>1, <1>4 DEF from, to
  <2>2. r = Done(chain)
    BY <1>3, <1>4, <2>1 DEF ImplicitCast, from, to, same
  <2> QED
    BY <2>1, <2>2 DEF Fits
<1>5. CASE same # "yes" /\ from \in Numeric
  <2>1. same = "no" /\ v.type # t
    BY <1>1, <1>2, <1>3, <1>5
  <2>2. CASE to \in Numeric
    <3>1. to # from
      BY <1>2, <1>5, <2>1, <2>2
    <3>2. CASE ImplicitMethod(to, from) # "none"
      <4>1. r = Done(<<Cast(ImplicitMethod(to, from), t, chain)>>)
        BY <1>3, <1>5, <2>1, <2>2, <3>2 DEF ImplicitCast, from, to, same
      <4>2. Inserted(ImplicitMethod(to, from), t, v.type)
        BY <1>5, <2>2, <3>1, <3>2, ImplicitIsExplicit DEF Inserted, from, to
      <4> QED
        BY <4>1, <4>2
    <3>3. CASE ImplicitMethod(to, from) = "none"
      <4>1. r = Ends("fail")
        BY <1>3, <1>5, <2>1, <2>2, <3>3 DEF ImplicitCast, from, to, same
      <4> QED
        BY <4>1 DEF Ends
    <3> QED
      BY <3>2, <3>3
  <2>3. CASE to = "BOOL" /\ from \in Integral
    <3>1. r = Done(<<NotZero(v)>>)
      BY <1>3, <1>5, <2>1, <2>3 DEF ImplicitCast, from, to, same
    <3> QED
      BY <1>2, <2>3, <3>1 DEF IsInteger, from
  <2>4. CASE to \notin Numeric /\ ~(to = "BOOL" /\ from \in Integral)
    <3>1. v.type # NullType
      BY <1>3, <1>5 DEF from
    <3>2. r = Ends("fail")
      BY <1>3, <1>5, <2>1, <2>4, <3>1 DEF ImplicitCast, from, to, same
    <3> QED
      BY <3>2 DEF Ends
  <2> QED
    BY <1>3, <2>2, <2>3, <2>4
<1>6. CASE same # "yes" /\ from = "OBJECT"
  <2>1. same = "no" /\ from \notin Numeric /\ from \notin Integral
    BY <1>1, <1>2, <1>3, <1>6
  <2>2. CASE v.type = NullType /\ to \in {"ARRAY", "OBJECT"}
    <3>1. r = Done(chain)
      BY <1>3, <1>6, <2>1, <2>2 DEF ImplicitCast, from, to, same
    <3> QED
      BY <2>2, <3>1 DEF Fits, to
  <2>3. CASE v.type # NullType /\ to = "OBJECT"
    <3>1. r = IF Inherits[v.type[2]][t[2]] THEN Done(<<Cast("UPCAST", t, chain)>>)
                ELSE Ends(IF t = NullType THEN "crash" ELSE "fail")
      BY <1>3, <1>6, <2>1, <2>3 DEF ImplicitCast, from, to, same
    <3>2. Inherits[v.type[2]][t[2]]
      BY <3>1 DEF Ends
    <3> QED
      BY <1>6, <2>3, <3>1, <3>2 DEF Inserted, from, to
  <2>4. CASE to = "STRING" /\ v.op = "LITERAL"
    <3>1. r = Done(chain)
      BY <1>3, <1>6, <2>1, <2>4 DEF ImplicitCast, from, to, same
    <3> QED
      BY <1>2, <1>6, <2>4, <3>1 DEF Fits, IsNullLiteral
  <2>5. CASE (to \notin {"ARRAY", "OBJECT"} /\ ~(to = "STRING" /\ v.op = "LITERAL")) \/ (v.type # NullType /\ to = "ARRAY")
    <3>1. r = Ends("fail")
      BY <1>3, <1>6, <2>1, <2>5 DEF ImplicitCast, from, to, same
    <3> QED
      BY <3>1 DEF Ends
  <2> QED
    BY <2>2, <2>3, <2>4, <2>5
<1>7. CASE same # "yes" /\ from \notin Numeric \cup {"OBJECT"}
  <2>1. v.type # NullType /\ from \notin Integral
    BY <1>3, <1>7 DEF from
  <2>2. r = IF same = "undefined" THEN Ends("undefined") ELSE Ends("fail")
    BY <1>3, <1>7, <2>1 DEF ImplicitCast, from, to, same
  <2> QED
    BY <2>2 DEF Ends
<1> QED
  BY <1>4, <1>5, <1>6, <1>7

-----------------------------------------------------------------------------
(* The value of an operand that is cut off its chain.                         *)
LEMMA ConvertedStands ==
  ASSUME NEW v \in LeafNodes, NEW t \in AllTypes, Converted(v, t).end = "done"
  PROVE  Converted(v, t) = Done(Converted(v, t).e) /\ Stands(Converted(v, t).e, v, t)
<1> DEFINE r == ImplicitCast(<<v>>, t)
           c == Converted(v, t)
<1>1. Head(<<v>>) = v
  OBVIOUS
<1>2. r.end = "done" /\ c = Done(Head(r.e))
  BY DEF Converted, Then
<1>3. c.e = Head(r.e)
  BY <1>2 DEF Done
<1>4. \/ r = Done(<<v>>) /\ Fits(v, t)
      \/ \E m : r = Done(<<Cast(m, t, <<v>>)>>) /\ Inserted(m, t, v.type)
      \/ r = Done(<<NotZero(v)>>) /\ t = Bool /\ IsInteger(v.type)
  <2> HIDE DEF r
  <2>1. r = ImplicitCast(<<v>>, t)
    BY DEF r
  <2> QED
    BY ONLY v \in LeafNodes, t \in AllTypes, <1>1, <1>2, <2>1, ImplicitCastIs
<1>5. \A x : Head(Done(<<x>>).e) = x
  BY DEF Done
<1>6. Stands(c.e, v, t)
  BY <1>3, <1>4, <1>5 DEF Stands
<1> QED
  BY <1>2, <1>3, <1>6

\* An operand of another kind is cast to the kind.
Wrapped(k, v) == IF Kind(v.type) = k THEN v ELSE Cast(ExplicitMethod(k, Kind(v.type)), <<k>>, <<v>>)

LEMMA WrappedStands ==
  ASSUME NEW v \in LeafNodes, NEW k \in Numeric, Kind(v.type) \in Numeric
  PROVE  Stands(Wrapped(k, v), v, <<k>>) /\ Wrapped(k, v).type = <<k>> /\ <<k>> \in AllTypes
<1>1. v.type \in AllTypes /\ v.type = <<Kind(v.type)>>
  BY LeafIs, KindFacts
<1>2. <<k>> \in AllTypes /\ Kind(<<k>>) = k
  BY TypesAssumption DEF Simple, Kind
<1>3. CASE Kind(v.type) = k
  BY <1>1, <1>2, <1>3 DEF Wrapped, Stands, Fits
<1>4. CASE Kind(v.type) # k
  BY <1>1, <1>2, <1>4 DEF Wrapped, Stands, Inserted, Cast, Node
<1> QED
  BY <1>2, <1>3, <1>4

LEMMA PromotionStands ==
  ASSUME NEW v \in LeafNodes, NEW allowed \in BOOLEAN, NEW r, r = NumericPromotion(v, allowed), r.end = "done"
  PROVE  /\ r = Done(r.e) /\ r.e.type \in AllTypes /\ Stands(r.e, v, r.e.type) /\ r.e.type = <<Kind(r.e.type)>>
         /\ Kind(r.e.type) \in IF allowed THEN Large(Integral) \cup Floats ELSE Large(Integral)
<1> DEFINE k == Kind(v.type)
<1>1. v.type \in AllTypes /\ (k \in Numeric => v.type = <<k>>)
  BY LeafIs, KindFacts
<1>2. \A K, j : /\ j \in Small(K) <=> j \in K /\ Width[j] < 32
                /\ j \in Large(K) <=> j \in K /\ ~(Width[j] < 32)
  BY DEF Small, Large
<1>3. \A x : Done(x).e = x /\ Done(x).end = "done"
  BY DEF Done
<1>4. CASE k \in Floats \/ k \in Large(Integral)
  <2>1. r = Done(v) /\ (k \in Floats => allowed)
    BY <1>2, <1>4, Kinds DEF NumericPromotion, Ends
  <2> QED
    <3>1. k \in Numeric /\ v.type = <<k>> /\ (k \in IF allowed THEN Large(Integral) \cup Floats ELSE Large(Integral))
      BY <1>1, <1>2, <1>4, <2>1, Kinds
    <3>2. r.e = v /\ r.end = "done"
      BY <1>3, <2>1
    <3> QED
      BY <1>1, <2>1, <3>1, <3>2 DEF Stands, Fits
<1>5. CASE k \in Small(Integral)
  <2> DEFINE to == IF k \in Signed THEN "S32" ELSE "U32"
  <2>1. /\ Width["S32"] = 32 /\ Width["U32"] = 32 /\ "S32" \in Signed /\ "U32" \in Unsigned
    BY Widths DEF Signed, Unsigned
  <2>2. to \in Large(Integral) /\ to \in Numeric /\ Width[k] < Width[to] /\ to # k /\ k \in Integral
    BY <1>2, <1>5, <2>1, Kinds
  <2>3. r = Done(Cast(Extend(k), <<to>>, <<v>>))
    BY <1>2, <1>5, Kinds DEF NumericPromotion, Extend
  <2>4. Extend(k) = ExplicitMethod(to, k)
    <3>1. CASE k \in Signed
      BY <2>1, <2>2, <3>1, Kinds, Methods DEF Extend
    <3>2. CASE k \notin Signed
      BY <2>1, <2>2, <3>2, Kinds, Methods DEF Extend
    <3> QED
      BY <3>1, <3>2
  <2> HIDE DEF to
  <2>5. r = Done(Wrapped(to, v))
    BY <2>2, <2>3, <2>4 DEF Wrapped
  <2>6. /\ Stands(Wrapped(to, v), v, <<to>>) /\ Wrapped(to, v).type = <<to>> /\ <<to>> \in AllTypes
    BY <2>2, WrappedStands, Kinds
  <2>7. Kind(<<to>>) = to
    BY DEF Kind
  <2> QED
    BY <1>3, <2>2, <2>5, <2>6, <2>7
<1>6. CASE k \notin Numeric
  BY <1>2, <1>6, Kinds DEF NumericPromotion, Ends
<1> QED
  BY <1>2, <1>4, <1>5, <1>6, Kinds

(* The calls of a row, on the two operands from the place after skip on.       *)
LEMMA CallsOfRow ==
  ASSUME NEW k, NEW l, NEW r, NEW skip \in 0 .. 1, NEW i \in 1 .. 3
  PROVE  LET calls == Regular(k, l, r).calls
             called == {c \in ToSet(calls) : c[1] + skip = i}
         IN /\ ~ \E a, b \in DOMAIN calls : a < b /\ calls[a][1] < calls[b][1]
            /\ Regular(k, l, r).kind = k
            /\ i = skip + 1 => called = IF l = k THEN {} ELSE {<<1, ExplicitMethod(k, l)>>}
            /\ i = skip + 2 => called = IF r = k THEN {} ELSE {<<2, ExplicitMethod(k, r)>>}
            /\ i \notin {skip + 1, skip + 2} => called = {}
<1> DEFINE calls == Regular(k, l, r).calls
           L == <<1, ExplicitMethod(k, l)>>
           R == <<2, ExplicitMethod(k, r)>>
<1>1. /\ l = k /\ r = k => calls = <<>>
      /\ l # k /\ r = k => calls = <<L>>
      /\ l = k /\ r # k => calls = <<R>>
      /\ l # k /\ r # k => calls = <<R, L>>
  <2>1. /\ Row(k, <<>>).calls = <<>> /\ Left(ExplicitMethod(k, l)) = <<L>>
        /\ Right(ExplicitMethod(k, r)) = <<R>> /\ \A c : Row(k, c).calls = c
    BY DEF Row, Left, Right
  <2>2. ASSUME NEW x, NEW y
        PROVE  <<x>> \o <<y>> = <<x, y>>
    <3> DEFINE s == <<x>> \o <<y>>
    <3>1. s \in Seq({x, y}) /\ Len(s) = 2 /\ s[1] = x /\ s[2] = y
      OBVIOUS
    <3> HIDE DEF s
    <3>2. s = <<x, y>>
      BY <3>1
    <3> QED
      BY <3>2 DEF s
  <2> HIDE DEF L, R
  <2> QED
    BY <2>1, <2>2 DEF Regular
<1>2. Regular(k, l, r).kind = k
  BY DEF Regular, Row
<1>3. L[1] = 1 /\ R[1] = 2
  OBVIOUS
<1>4. ToSet(<<>>) = {} /\ ToSet(<<L>>) = {L} /\ ToSet(<<R>>) = {R} /\ ToSet(<<R, L>>) = {R, L}
  BY DEF ToSet
<1> HIDE DEF calls, L, R
<1>5. ~ \E a, b \in DOMAIN calls : a < b /\ calls[a][1] < calls[b][1]
  BY <1>1, <1>3
<1>6. ToSet(calls) = (IF l = k THEN {} ELSE {L}) \cup (IF r = k THEN {} ELSE {R})
  BY <1>1, <1>4
<1>7. {c \in ToSet(calls) : c[1] + skip = i} =
        (IF i = skip + 1 /\ l # k THEN {L} ELSE {}) \cup (IF i = skip + 2 /\ r # k THEN {R} ELSE {})
  BY <1>3, <1>6
<1> QED
  BY <1>2, <1>5, <1>7 DEF calls, L, R


LEMMA ReplacedOne ==
  ASSUME NEW k, NEW l, NEW r, NEW skip \in 0 .. 1, NEW ops, NEW n \in {2, 3}, DOMAIN ops = 1 .. n,
         l = Kind(ops[skip + 1].type), r = Kind(ops[skip + 2].type), skip + 2 = n
  PROVE  Replaced(ops, Regular(k, l, r), skip) =
           Done([i \in 1 .. n |-> IF i <= skip THEN ops[i] ELSE Wrapped(k, ops[i])])
<1> DEFINE row == Regular(k, l, r)
           Calls(i) == {c \in ToSet(row.calls) : c[1] + skip = i}
           Made(i) == IF Calls(i) = {} THEN ops[i]
                        ELSE Cast((CHOOSE c \in Calls(i) : TRUE)[2], <<row.kind>>, <<ops[i]>>)
<1>1. ~ \E a, b \in DOMAIN row.calls : a < b /\ row.calls[a][1] < row.calls[b][1]
  BY CallsOfRow
<1>2. Replaced(ops, row, skip) = Done([i \in DOMAIN ops |-> Made(i)])
  BY ONLY <1>1 DEF Replaced
<1>3. ASSUME NEW i \in 1 .. n
      PROVE  Made(i) = IF i <= skip THEN ops[i] ELSE Wrapped(k, ops[i])
  <2>1. i \in 1 .. 3
    OBVIOUS
  <2>2. /\ row.kind = k
        /\ i = skip + 1 => Calls(i) = IF l = k THEN {} ELSE {<<1, ExplicitMethod(k, l)>>}
        /\ i = skip + 2 => Calls(i) = IF r = k THEN {} ELSE {<<2, ExplicitMethod(k, r)>>}
        /\ i \notin {skip + 1, skip + 2} => Calls(i) = {}
    BY <2>1, CallsOfRow
  <2> HIDE DEF Calls, row
  <2>3. ASSUME NEW j, NEW side, j # k, Calls(i) = {<<side, ExplicitMethod(k, j)>>}
        PROVE  Made(i) = Cast(ExplicitMethod(k, j), <<k>>, <<ops[i]>>)
    <3>1. Calls(i) # {}
      BY <2>3
    <3>2. (CHOOSE c \in Calls(i) : TRUE)[2] = ExplicitMethod(k, j)
      <4> DEFINE c == CHOOSE c \in Calls(i) : TRUE
      <4>1. c \in Calls(i)
        BY ONLY <3>1
      <4> HIDE DEF c
      <4>2. c = <<side, ExplicitMethod(k, j)>>
        BY ONLY <2>3, <4>1
      <4>3. c[2] = ExplicitMethod(k, j)
        BY ONLY <4>2
      <4> QED
        BY ONLY <4>3 DEF c
    <3> QED
      BY ONLY <2>2, <3>1, <3>2
  <2>4. Calls(i) = {} => Made(i) = ops[i]
    OBVIOUS
  <2> HIDE DEF Made
  <2>5. CASE i <= skip
    BY <2>2, <2>4, <2>5
  <2>6. CASE i = skip + 1
    <3>1. l = Kind(ops[i].type) /\ ~(i <= skip)
      BY <2>6
    <3> QED
      BY ONLY <2>2, <2>3, <2>4, <2>6, <3>1 DEF Wrapped
  <2>7. CASE i = skip + 2
    <3>1. r = Kind(ops[i].type) /\ ~(i <= skip)
      BY <2>7
    <3> QED
      BY ONLY <2>2, <2>3, <2>4, <2>7, <3>1 DEF Wrapped
  <2> QED
    BY <2>5, <2>6, <2>7
<1> HIDE DEF Made
<1> QED
  BY <1>2, <1>3

LEMMA ReplacedPair ==
  ASSUME NEW k, NEW a, NEW b
  PROVE  Replaced(<<a, b>>, Regular(k, Kind(a.type), Kind(b.type)), 0) = Done(<<Wrapped(k, a), Wrapped(k, b)>>)
<1> DEFINE ops == <<a, b>>
<1>1. DOMAIN ops = 1 .. 2 /\ ops[1] = a /\ ops[2] = b
  OBVIOUS
<1> HIDE DEF ops
<1>2. Replaced(ops, Regular(k, Kind(a.type), Kind(b.type)), 0) =
        Done([i \in 1 .. 2 |-> IF i <= 0 THEN ops[i] ELSE Wrapped(k, ops[i])])
  BY <1>1, ReplacedOne
<1>3. [i \in 1 .. 2 |-> IF i <= 0 THEN ops[i] ELSE Wrapped(k, ops[i])] = <<Wrapped(k, a), Wrapped(k, b)>>
  BY ONLY <1>1
<1> QED
  BY <1>2, <1>3 DEF ops

LEMMA ReplacedBranches ==
  ASSUME NEW k, NEW a, NEW b, NEW c
  PROVE  Replaced(<<c, a, b>>, Regular(k, Kind(a.type), Kind(b.type)), 1) =
           Done(<<c, Wrapped(k, a), Wrapped(k, b)>>)
<1> DEFINE ops == <<c, a, b>>
<1>1. DOMAIN ops = 1 .. 3 /\ ops[1] = c /\ ops[2] = a /\ ops[3] = b
  OBVIOUS
<1> HIDE DEF ops
<1>2. Replaced(ops, Regular(k, Kind(a.type), Kind(b.type)), 1) =
        Done([i \in 1 .. 3 |-> IF i <= 1 THEN ops[i] ELSE Wrapped(k, ops[i])])
  BY <1>1, ReplacedOne
<1>3. [i \in 1 .. 3 |-> IF i <= 1 THEN ops[i] ELSE Wrapped(k, ops[i])] = <<c, Wrapped(k, a), Wrapped(k, b)>>
  BY ONLY <1>1
<1> QED
  BY <1>2, <1>3 DEF ops

LEMMA ReplacedNone ==
  ASSUME NEW k, NEW ops, NEW n \in Nat, ops \in [1 .. n -> ToSet(ops)], NEW skip
  PROVE  Replaced(ops, Row(k, <<>>), skip) = Done(ops)
<1> DEFINE calls == Row(k, <<>>).calls
<1>1. calls = <<>>
  BY DEF Row
<1>2. ToSet(calls) = {} /\ ~ \E i, j \in DOMAIN calls : i < j /\ calls[i][1] < calls[j][1]
  BY <1>1 DEF ToSet
<1>3. Replaced(ops, Row(k, <<>>), skip) = Done([i \in DOMAIN ops |-> ops[i]])
  BY ONLY <1>2 DEF Replaced
<1>4. [i \in DOMAIN ops |-> ops[i]] = ops
  OBVIOUS
<1> QED
  BY <1>3, <1>4

\* The kind of the operands of a binary operation, if it has one.
Taken(l, r, allowFloats) == {l, r} \subseteq IF allowFloats THEN Numeric ELSE Integral
Common(l, r, allowFloats) ==
  IF ~allowFloats THEN Joint(l, r)
    ELSE IF {l, r} \subseteq Integral THEN Promoted(l, r) ELSE Floated(l, r)
Concatenated(a, b, allowFloats) ==
  allowFloats /\ Kind(a.type) = "STRING" /\ Kind(b.type) = "OBJECT" /\ b.op = "LITERAL"

LEMMA CommonKind ==
  ASSUME NEW l, NEW r, NEW allow \in BOOLEAN, Taken(l, r, allow)
  PROVE  Common(l, r, allow) = Common(r, l, allow) /\ Common(l, r, allow) \in Numeric /\ Taken(r, l, allow)
<1>1. l \in Numeric /\ r \in Numeric /\ Taken(r, l, allow)
  BY Kinds DEF Taken
<1>2. CASE l \in Integral /\ r \in Integral
  <2>1. /\ Common(l, r, allow) = IF allow THEN Promoted(l, r) ELSE Joint(l, r)
        /\ Common(r, l, allow) = IF allow THEN Promoted(r, l) ELSE Joint(r, l)
    BY <1>2 DEF Common
  <2> QED
    BY <1>1, <1>2, <2>1, JointKind, PromotedKind, Kinds
<1>3. CASE ~(l \in Integral /\ r \in Integral)
  <2>1. allow /\ (l \in Floats \/ r \in Floats)
    BY <1>1, <1>3, Kinds DEF Taken
  <2>2. Common(l, r, allow) = Floated(l, r) /\ Common(r, l, allow) = Floated(r, l)
    BY <1>3, <2>1 DEF Common
  <2> QED
    <3>1. Floated(l, r) = Floated(r, l) /\ Floated(l, r) \in Floats
      BY ONLY <1>1, <2>1, FloatedKind
    <3>2. \A k \in Floats : k \in Numeric
      BY Kinds
    <3> QED
      BY ONLY <1>1, <2>2, <3>1, <3>2
<1> QED
  BY <1>2, <1>3

LEMMA CommonRowIs ==
  ASSUME NEW a, NEW b, NEW allow \in BOOLEAN, NEW l, NEW r, l = Kind(a.type), r = Kind(b.type)
  PROVE  /\ Taken(l, r, allow) => CommonRow(a, b, allow) = Regular(Common(l, r, allow), l, r)
         /\ Concatenated(a, b, allow) => CommonRow(a, b, allow) = Row("STRING", <<>>)
         /\ ~Taken(l, r, allow) /\ ~Concatenated(a, b, allow) => CommonRow(a, b, allow) = Unsupported
<1>1. /\ "STRING" \notin Numeric /\ "OBJECT" \notin Numeric
      /\ Integral \subseteq Numeric /\ \A k \in Numeric : k \in Integral \/ k \in Floats
      /\ {l, r} \subseteq Integral <=> l \in Integral /\ r \in Integral
      /\ {l, r} \subseteq Numeric <=> l \in Numeric /\ r \in Numeric
  BY Kinds, NumericKinds DEF OtherKinds
<1>2. ASSUME Taken(l, r, allow)
      PROVE  CommonRow(a, b, allow) = Regular(Common(l, r, allow), l, r)
  <2>1. CASE ~allow
    BY <1>1, <1>2, <2>1, ConversionRegular DEF CommonRow, Taken, Common
  <2>2. CASE allow /\ {l, r} \subseteq Integral
    <3>1. CommonRow(a, b, allow) = PromotionRow(l, r)
      BY <1>1, <2>2 DEF CommonRow
    <3> QED
      BY <1>1, <2>2, <3>1, PromotionRegular DEF Common
  <2>3. CASE allow /\ ~({l, r} \subseteq Integral)
    <3>1. {l, r} \subseteq Numeric /\ (l \in Floats \/ r \in Floats)
      BY <1>1, <1>2, <2>3 DEF Taken
    <3>2. CommonRow(a, b, allow) = FloatRow(l, r)
      BY <1>1, <2>3, <3>1 DEF CommonRow
    <3> QED
      BY <1>1, <2>3, <3>1, <3>2, FloatRegular DEF Common
  <2> QED
    BY <2>1, <2>2, <2>3
<1>3. ASSUME Concatenated(a, b, allow)
      PROVE  CommonRow(a, b, allow) = Row("STRING", <<>>)
  <2>1. allow /\ l = "STRING" /\ r = "OBJECT" /\ b.op = "LITERAL"
    BY <1>3 DEF Concatenated
  <2>2. ~({l, r} \subseteq Integral) /\ ~({l, r} \subseteq Numeric)
    BY <1>1, <2>1
  <2> QED
    BY <2>1, <2>2 DEF CommonRow
<1>4. ASSUME ~Taken(l, r, allow), ~Concatenated(a, b, allow)
      PROVE  CommonRow(a, b, allow) = Unsupported
  BY <1>1, <1>4 DEF CommonRow, Taken, Concatenated
<1> QED
  BY <1>2, <1>3, <1>4

BinarySays(a, b, allow, d) ==
  LET l == Kind(a.type)
      r == Kind(b.type)
      k == Common(l, r, allow)
  IN /\ Taken(l, r, allow) => d = Done(<<Wrapped(k, a), Wrapped(k, b)>>)
     /\ Concatenated(a, b, allow) => d = Done(<<a, b>>)
     /\ ~Taken(l, r, allow) /\ ~Concatenated(a, b, allow) => d = Ends("fail")

LEMMA BinaryIs ==
  ASSUME NEW e, NEW a, NEW b, e.operands = <<a, b>>, NEW allow \in BOOLEAN
  PROVE  BinarySays(a, b, allow, BinaryOperands(e, allow))
<1> DEFINE l == Kind(a.type)
           r == Kind(b.type)
           row == CommonRow(a, b, allow)
<1>1. BinaryOperands(e, allow) = IF row = Unsupported THEN Ends("fail") ELSE Replaced(<<a, b>>, row, 0)
  BY DEF BinaryOperands, Chosen
<1>2. \A k, c : k # "VOID" => Row(k, c) # Unsupported
  <2>1. \A k, c : Row(k, c).kind = k
    BY DEF Row
  <2> QED
    BY <2>1 DEF Unsupported
<1>3. "VOID" \notin Numeric
  BY NumericKinds DEF OtherKinds
<1> HIDE DEF row
<1>4. ASSUME Taken(l, r, allow)
      PROVE  BinaryOperands(e, allow) = Done(<<Wrapped(Common(l, r, allow), a), Wrapped(Common(l, r, allow), b)>>)
  <2>1. row = Regular(Common(l, r, allow), l, r)
    BY <1>4, CommonRowIs DEF row
  <2>2. Common(l, r, allow) \in Numeric
    BY <1>4, CommonKind
  <2>3. row # Unsupported
    BY <1>2, <1>3, <2>1, <2>2 DEF Regular
  <2> QED
    BY <1>1, <2>1, <2>3, ReplacedPair
<1>5. ASSUME Concatenated(a, b, allow)
      PROVE  BinaryOperands(e, allow) = Done(<<a, b>>)
  <2>1. row = Row("STRING", <<>>) /\ row # Unsupported
    BY <1>2, <1>5, CommonRowIs DEF row
  <2>2. 2 \in Nat /\ <<a, b>> \in [1 .. 2 -> ToSet(<<a, b>>)]
    BY DEF ToSet
  <2> QED
    BY <1>1, <2>1, <2>2, ReplacedNone
<1>6. ASSUME ~Taken(l, r, allow), ~Concatenated(a, b, allow)
      PROVE  BinaryOperands(e, allow) = Ends("fail")
  <2>1. row = Unsupported
    BY <1>6, CommonRowIs DEF row
  <2> QED
    BY <1>1, <2>1
<1> QED
  BY <1>4, <1>5, <1>6 DEF BinarySays

-----------------------------------------------------------------------------
(* What an analysis makes of a node whose operands are analysed.              *)

\* Node x is operand v, converted or as it was.
OperandOf(x, v) == SoundNode(x) /\ Bare(x) = v

Outcome(e, n) ==
  /\ e.op \notin Statements => n.type \in AllTypes /\ n.op # "LITERAL"
  /\ \A x \in {n} \cup ToSet(n.operands) : x.op = "CAST" => SoundCast(x)
  /\ ~IntegerForBoolean(e) =>
       /\ \A x \in {n} \cup ToSet(n.operands) : Accepted(x)
       /\ [i \in DOMAIN n.operands |-> Bare(n.operands[i])] = Expected(e)

IsNode(e) == e = Node(e.op, e.how, e.type, e.operands)
Plain == {"LITERAL", "VALUE", "NATIVE"}

LEMMA PlainNode ==
  ASSUME NEW n, n.op \in Plain
  PROVE  SoundNode(n)
BY DEF SoundNode, Accepted, NodeFits, Plain

LEMMA OtherNode ==
  ASSUME NEW n, n.op # "CAST", NodeFits(n)
  PROVE  SoundNode(n)
BY DEF SoundNode, Accepted

LEMMA TypesAre ==
  ASSUME NEW n
  PROVE  /\ \A x : n.operands = <<x>> => Types(n.operands) = <<x.type>>
         /\ \A x, y : n.operands = <<x, y>> => Types(n.operands) = <<x.type, y.type>>
         /\ \A x, y, z : n.operands = <<x, y, z>> => Types(n.operands) = <<x.type, y.type, z.type>>
BY DEF Types

LEMMA StandsOperand ==
  ASSUME NEW v \in LeafNodes, NEW t \in AllTypes, NEW x, Stands(x, v, t)
  PROVE  OperandOf(x, v)
BY StandsIs DEF OperandOf

LEMMA LeafOperand ==
  ASSUME NEW v \in LeafNodes
  PROVE  OperandOf(v, v)
<1>1. v.op \in {"LITERAL", "VALUE"}
  BY LeafIs
<1>2. SoundNode(v)
  BY <1>1, PlainNode DEF Plain
<1>3. Bare(v) = v
  BY <1>1 DEF Bare
<1> QED
  BY <1>2, <1>3 DEF OperandOf

LEMMA LiteralOperand ==
  ASSUME NEW t
  PROVE  OperandOf(Literal(t), Literal(t)) /\ Literal(t).type = t
<1>1. Literal(t).op = "LITERAL" /\ Literal(t).type = t
  BY DEF Literal, Node
<1>2. SoundNode(Literal(t))
  BY <1>1, PlainNode DEF Plain
<1>3. Bare(Literal(t)) = Literal(t)
  BY <1>1 DEF Bare
<1> QED
  BY <1>1, <1>2, <1>3 DEF OperandOf

LEMMA OutcomeFrom ==
  ASSUME NEW e, NEW n, NEW k \in Nat, NEW ex, ex = Expected(e), ex = [i \in 1 .. k |-> ex[i]],
         DOMAIN n.operands = 1 .. k, \A i \in 1 .. k : OperandOf(n.operands[i], ex[i]),
         SoundNode(n), e.op \notin Statements => n.type \in AllTypes /\ n.op # "LITERAL"
  PROVE  Outcome(e, n)
<1>1. \A x \in {n} \cup ToSet(n.operands) : SoundNode(x)
  BY DEF ToSet, OperandOf
<1>2. [i \in DOMAIN n.operands |-> Bare(n.operands[i])] = Expected(e)
  <2>1. \A i \in 1 .. k : Bare(n.operands[i]) = ex[i]
    BY DEF OperandOf
  <2> QED
    BY <2>1
<1> QED
  BY <1>1, <1>2 DEF Outcome, SoundNode

LEMMA OutcomeOfOne ==
  ASSUME NEW e, NEW n, NEW x, NEW v, n.operands = <<x>>, Expected(e) = <<v>>, OperandOf(x, v),
         SoundNode(n), e.op \notin Statements => n.type \in AllTypes /\ n.op # "LITERAL"
  PROVE  Outcome(e, n)
<1> DEFINE ex == <<v>>
<1>1. ex = [i \in 1 .. 1 |-> ex[i]] /\ DOMAIN n.operands = 1 .. 1 /\ 1 \in Nat
  OBVIOUS
<1>2. \A i \in 1 .. 1 : OperandOf(n.operands[i], ex[i])
  OBVIOUS
<1>3. ex = Expected(e)
  OBVIOUS
<1> HIDE DEF ex
<1> QED
  BY <1>1, <1>2, <1>3, OutcomeFrom

LEMMA OutcomeOfTwo ==
  ASSUME NEW e, NEW n, NEW x, NEW v, NEW y, NEW w, n.operands = <<x, y>>, Expected(e) = <<v, w>>,
         OperandOf(x, v), OperandOf(y, w),
         SoundNode(n), e.op \notin Statements => n.type \in AllTypes /\ n.op # "LITERAL"
  PROVE  Outcome(e, n)
<1> DEFINE ex == <<v, w>>
<1>1. ex = [i \in 1 .. 2 |-> ex[i]] /\ DOMAIN n.operands = 1 .. 2 /\ 2 \in Nat
  OBVIOUS
<1>2. \A i \in 1 .. 2 : OperandOf(n.operands[i], ex[i])
  OBVIOUS
<1>3. ex = Expected(e)
  OBVIOUS
<1> HIDE DEF ex
<1> QED
  BY <1>1, <1>2, <1>3, OutcomeFrom

LEMMA OutcomeOfThree ==
  ASSUME NEW e, NEW n, NEW x, NEW v, NEW y, NEW w, NEW z, NEW u,
         n.operands = <<x, y, z>>, Expected(e) = <<v, w, u>>, OperandOf(x, v), OperandOf(y, w), OperandOf(z, u),
         SoundNode(n), e.op \notin Statements => n.type \in AllTypes /\ n.op # "LITERAL"
  PROVE  Outcome(e, n)
<1> DEFINE ex == <<v, w, u>>
<1>1. ex = [i \in 1 .. 3 |-> ex[i]] /\ DOMAIN n.operands = 1 .. 3 /\ 3 \in Nat
  OBVIOUS
<1>2. \A i \in 1 .. 3 : OperandOf(n.operands[i], ex[i])
  OBVIOUS
<1>3. ex = Expected(e)
  OBVIOUS
<1> HIDE DEF ex
<1> QED
  BY <1>1, <1>2, <1>3, OutcomeFrom

\* The node with another type, or with other operands.
LEMMA NodeExcept ==
  ASSUME NEW e, IsNode(e), NEW t, NEW ops
  PROVE  /\ LET n == [e EXCEPT !.type = t]
            IN  n.op = e.op /\ n.type = t /\ n.operands = e.operands /\ n.how = e.how
         /\ LET n == [e EXCEPT !.operands = ops]
            IN  n.op = e.op /\ n.type = e.type /\ n.operands = ops /\ n.how = e.how
         /\ LET n == [e EXCEPT !.operands = ops, !.type = t]
            IN  n.op = e.op /\ n.type = t /\ n.operands = ops /\ n.how = e.how
         /\ LET n == [e EXCEPT !.how = t]
            IN  n.op = e.op /\ n.type = e.type /\ n.operands = e.operands /\ n.how = t
         /\ LET n == [e EXCEPT !.op = t]
            IN  n.op = t /\ n.type = e.type /\ n.operands = e.operands /\ n.how = e.how
BY DEF IsNode, Node

\* What is expected of a node that is rebuilt around its operands.
LEMMA ExpectedSame ==
  ASSUME NEW e, e.op \notin {"NOT", "LOGIC"}, ~(e.op = "CAST" /\ e.type = Bool)
  PROVE  Expected(e) = e.operands
BY DEF Expected

LEMMA StandsBool ==
  ASSUME NEW v, NEW x, Stands(x, v, Bool)
  PROVE  x.type = Bool
<1>1. Kind(Bool) = "BOOL" /\ Bool # Str /\ "BOOL" \notin Numeric
  BY NumericKinds DEF Bool, Str, Kind, OtherKinds
<1>2. \A m : ~Inserted(m, Bool, v.type)
  BY <1>1 DEF Inserted
<1>3. NotZero(v).type = Bool
  BY DEF NotZero, Node
<1> QED
  BY <1>1, <1>2, <1>3 DEF Stands, Fits

(* The operations on one operand.                                             *)
LEMMA BitwiseNotOutcome ==
  ASSUME NEW e, IsNode(e), NEW a \in LeafNodes, e.operands = <<a>>, e.op = "BITWISE_NOT", BitwiseNot(e).end = "done"
  PROVE  Outcome(e, BitwiseNot(e).e)
<1> DEFINE n == [e EXCEPT !.type = a.type]
<1>1. BitwiseNot(e).e = n /\ IsInteger(a.type)
  BY DEF BitwiseNot, Done, Ends
<1>2. n.op = e.op /\ n.type = a.type /\ n.operands = e.operands
  BY NodeExcept
<1> HIDE DEF n
<1>3. SoundNode(n) /\ OperandOf(a, a) /\ a.type \in AllTypes /\ Expected(e) = <<a>>
  <2>1. Types(n.operands) = <<n.type>>
    BY <1>2, TypesAre
  <2>2. NodeFits(n)
    BY <1>1, <1>2, <2>1 DEF NodeFits
  <2> QED
    BY <1>2, <2>2, OtherNode, LeafOperand, LeafIs, ExpectedSame
<1>4. Outcome(e, n)
  BY <1>2, <1>3, OutcomeOfOne
<1> QED
  BY <1>1, <1>4

LEMMA NegateOutcome ==
  ASSUME NEW e, IsNode(e), NEW a \in LeafNodes, e.operands = <<a>>, e.op = "NEGATE", Negate(e).end = "done"
  PROVE  Outcome(e, Negate(e).e)
<1> DEFINE p == NumericPromotion(a, TRUE)
           n == [e EXCEPT !.operands = <<p.e>>, !.type = p.e.type]
<1>1. e.operands[1] = a
  OBVIOUS
<1>2. Negate(e) = IF p.end = "done" THEN Done(n) ELSE p
  BY <1>1 DEF Negate, Then
<1> HIDE DEF n, p
<1>3. p.end = "done" /\ Negate(e).e = n
  BY <1>2 DEF Done
<1>4. p.e.type \in AllTypes /\ OperandOf(p.e, a) /\ Kind(p.e.type) \in Large(Integral) \cup Floats
  <2>1. p.e.type \in AllTypes /\ Stands(p.e, a, p.e.type) /\ Kind(p.e.type) \in Large(Integral) \cup Floats
    BY <1>3, PromotionStands DEF p
  <2> QED
    BY <2>1, StandsOperand
<1>5. n.op = e.op /\ n.type = p.e.type /\ n.operands = <<p.e>>
  BY NodeExcept DEF n
<1>6. SoundNode(n) /\ Expected(e) = <<a>>
  <2>1. Types(n.operands) = <<n.type>>
    BY <1>5, TypesAre
  <2>2. NodeFits(n)
    BY <1>4, <1>5, <2>1 DEF NodeFits
  <2> QED
    BY <1>5, <2>2, OtherNode, ExpectedSame
<1>7. Outcome(e, n)
  BY <1>4, <1>5, <1>6, OutcomeOfOne
<1> QED
  BY <1>3, <1>7

LEMMA NotOutcome ==
  ASSUME NEW e, IsNode(e), NEW a \in LeafNodes, e.operands = <<a>>, e.op = "NOT", Not(e).end = "done"
  PROVE  Outcome(e, Not(e).e)
<1> DEFINE c == Converted(a, Bool)
           n == Node("COMPARE", "EQ", Bool, <<c.e, Literal(Bool)>>)
<1>1. e.operands[1] = a /\ Bool \in AllTypes
  BY TypesAssumption DEF Simple, Bool
<1>2. Not(e) = IF c.end = "done" THEN Done(n) ELSE c
  BY <1>1 DEF Not, Then
<1>3. c.end = "done" /\ Not(e).e = n
  BY <1>2 DEF Done
<1>4. Stands(c.e, a, Bool)
  BY <1>1, <1>3, ConvertedStands
<1>5. OperandOf(c.e, a) /\ c.e.type = Bool
  BY <1>1, <1>4, StandsOperand, StandsBool
<1> HIDE DEF c
<1>6. n.op = "COMPARE" /\ n.type = Bool /\ n.operands = <<c.e, Literal(Bool)>>
  BY DEF Node
<1> HIDE DEF n
<1>7. Types(n.operands) = <<Bool, Bool>> /\ Kind(Bool) = "BOOL"
  BY <1>5, <1>6, LiteralOperand, TypesAre DEF Bool, Kind
<1>8. SoundNode(n)
  <2>1. CompareFits(n)
    BY <1>7 DEF CompareFits
  <2> QED
    BY <1>6, <2>1, OtherNode DEF NodeFits
<1>9. Expected(e) = <<a, Literal(Bool)>>
  BY <1>1 DEF Expected
<1>10. Outcome(e, n)
  BY <1>1, <1>5, <1>6, <1>8, <1>9, LiteralOperand, OutcomeOfTwo
<1> QED
  BY <1>3, <1>10

(* A cast that was asked for.                                                 *)
LEMMA CastOutcome ==
  ASSUME NEW e, IsNode(e), NEW a \in LeafNodes, e.operands = <<a>>, e.op = "CAST", e.type \in AllTypes,
         ExplicitCast(e).end = "done"
  PROVE  Outcome(e, ExplicitCast(e).e)
<1> DEFINE to == Kind(e.type)
           from == Kind(a.type)
           same == Equivalent[a.type][e.type]
           up == Inherits[a.type[2]][e.type[2]]
           Via(m) == [e EXCEPT !.how = m]
           r == ExplicitCast(e)
<1>1. e.operands[1] = a /\ a.type \in AllTypes
  <2>1. e.operands[1] = a
    OBVIOUS
  <2> QED
    BY <2>1, LeafIs
<1>2. \A m : Via(m).op = "CAST" /\ Via(m).type = e.type /\ Via(m).operands = <<a>> /\ Via(m).how = m
  BY NodeExcept
<1>3. /\ \A x : Done(x).e = x /\ Done(x).end = "done"
      /\ \A x : Ends(x).end = x
  BY DEF Done, Ends
<1>4. same = "yes" <=> a.type = e.type
  BY <1>1, EquivalentIsEqual
<1>5. /\ \A k \in Integral : k \in Numeric
      /\ \A k \in Numeric : k \notin {"BOOL", "STRING", "OBJECT", "ARRAY", "BLOCKREF"}
      /\ to \in Numeric => e.type = <<to>>
      /\ from \in Numeric => a.type = <<from>>
      /\ to = "BOOL" <=> e.type = Bool
      /\ Kind(ArrayOf(<<"U8">>)) = "ARRAY"
  BY <1>1, NumericKinds, KindFacts DEF Numeric, OtherKinds, ArrayOf, Kind
<1>5a. r.end = "done"
  OBVIOUS
<1> SUFFICES Outcome(e, r.e)
  OBVIOUS
<1>6. CASE same # "yes" /\ to \in Numeric /\ from \in Numeric /\ ExplicitMethod(to, from) # "none" /\ r = Done(Via(ExplicitMethod(to, from)))
  <2> DEFINE n == Via(ExplicitMethod(to, from))
  <2>1. n.op = "CAST" /\ n.type = e.type /\ n.operands = <<a>> /\ n.how = ExplicitMethod(to, from)
    BY <1>2
  <2> HIDE DEF n
  <2>2. CastFits(n) /\ SoundCast(n)
    BY <1>4, <1>5, <1>6, <2>1, MethodFits
  <2>3. SoundNode(n)
    BY <2>1, <2>2 DEF SoundNode, Accepted, NodeFits
  <2>4. Expected(e) = <<a>> /\ OperandOf(a, a)
    BY <1>5, <1>6, ExpectedSame, LeafOperand
  <2>5. Outcome(e, n)
    BY <2>1, <2>3, <2>4, OutcomeOfOne
  <2> QED
    BY <1>3, <1>6, <2>5 DEF n
<1>7. ASSUME NEW m, r = Done(Via(m)), from \notin Numeric \/ to \notin Numeric, to # "BOOL",
             \/ m = "UPCAST" /\ Inherits[a.type[2]][e.type[2]]
             \/ m = "DOWNCAST" /\ Inherits[e.type[2]][a.type[2]]
             \/ m = "REINTERPRET" /\ <<from, to>> = <<"ARRAY", "STRING">>
      PROVE  Outcome(e, r.e)
  <2> DEFINE n == Via(m)
  <2>1. n.op = "CAST" /\ n.type = e.type /\ n.operands = <<a>> /\ n.how = m /\ n.operands[1] = a /\ Len(n.operands) = 1
    BY <1>2
  <2> HIDE DEF n
  <2>2. SoundCast(n)
    BY <1>7, <2>1 DEF SoundCast
  <2>3. CastFits(n)
    BY <1>7, <2>1 DEF CastFits
  <2>4. SoundNode(n)
    BY <2>1, <2>2, <2>3 DEF SoundNode, Accepted, NodeFits
  <2>5. Expected(e) = <<a>> /\ OperandOf(a, a)
    BY <1>5, <1>7, ExpectedSame, LeafOperand
  <2>6. Outcome(e, n)
    BY <2>1, <2>4, <2>5, OutcomeOfOne
  <2> QED
    BY <1>3, <1>7, <2>6 DEF n
<1>8. CASE r = Done(NotZero(a)) /\ to = "BOOL" /\ from \in Integral
  <2> DEFINE n == NotZero(a)
  <2>1. n.op = "COMPARE" /\ n.type = Bool /\ n.operands = <<a, Literal(a.type)>> /\ Bool \in AllTypes
    BY TypesAssumption DEF NotZero, Node, Simple, Bool
  <2> HIDE DEF n
  <2>2. Types(n.operands) = <<a.type, a.type>> /\ Kind(a.type) \in Numeric
    BY <1>5, <1>8, <2>1, LiteralOperand, TypesAre
  <2>3. SoundNode(n)
    <3>1. CompareFits(n)
      BY <2>2 DEF CompareFits
    <3> QED
      BY <2>1, <3>1, OtherNode DEF NodeFits
  <2>4. Expected(e) = <<a, Literal(a.type)>> /\ OperandOf(a, a)
    BY <1>1, <1>5, <1>8, LeafOperand DEF Expected
  <2>5. Outcome(e, n)
    BY <2>1, <2>3, <2>4, LiteralOperand, OutcomeOfTwo
  <2> QED
    BY <1>3, <1>8, <2>5 DEF n
<1> HIDE DEF to, from, same, up, Via
<1>9. r = CASE same = "undefined" -> Ends("undefined")
            [] same = "yes" -> Ends("fail")
            [] same = "no" /\ to \in Numeric /\ from \in Numeric /\ ExplicitMethod(to, from) # "none" ->
                 Done(Via(ExplicitMethod(to, from)))
            [] same = "no" /\ to = "OBJECT" /\ from = "OBJECT" ->
                 (CASE a.type = NullType -> Ends("crash")
                    [] a.type # NullType /\ up -> Done(Via("UPCAST"))
                    [] a.type # NullType /\ ~up /\ Inherits[e.type[2]][a.type[2]] -> Done(Via("DOWNCAST"))
                    [] OTHER -> Ends("fail"))
            [] to = "BOOL" /\ from \in Integral -> Done(NotZero(a))
            [] to = "STRING" /\ a.type = ArrayOf(<<"U8">>) -> Done(Via("REINTERPRET"))
            [] OTHER -> Ends("fail")
  BY <1>1 DEF ExplicitCast, to, from, same, up, Via
<1> HIDE DEF r
<1>10. /\ to = "BOOL" /\ from \in Integral => same = "no"
       /\ to = "STRING" /\ a.type = ArrayOf(<<"U8">>) => same = "no"
  <2>1. ASSUME to = "BOOL", from \in Integral
        PROVE  same = "no"
    <3>1. same = IF a.type = e.type THEN "yes" ELSE "no"
      BY <1>1, <1>5, <2>1, KindFacts DEF same, from
    <3> QED
      BY <1>5, <2>1, <3>1 DEF to, from
  <2>2. ASSUME to = "STRING", a.type = ArrayOf(<<"U8">>)
        PROVE  same = "no"
    <3>1. Kind(a.type) = "ARRAY" /\ Kind(e.type) # "ARRAY"
      BY <1>5, <2>2 DEF to
    <3>2. same = Compared(Equivalent, a.type, e.type)
      BY <1>1, EquivalentIs DEF same
    <3> QED
      BY <3>1, <3>2 DEF Compared
  <2> QED
    BY <2>1, <2>2
<1>11. a.type = ArrayOf(<<"U8">>) => from = "ARRAY"
  BY <1>5 DEF from
<1>12. CASE same = "no" /\ to \in Numeric
  <2>1. CASE from \in Numeric /\ ExplicitMethod(to, from) # "none"
    BY <1>5, <1>6, <1>9, <1>12, <2>1
  <2>2. CASE ~(from \in Numeric /\ ExplicitMethod(to, from) # "none")
    BY <1>3, <1>5a, <1>5, <1>9, <1>12, <2>2
  <2> QED
    BY <2>1, <2>2
<1>13. CASE same = "no" /\ to = "OBJECT"
  <2>1. CASE from = "OBJECT"
    <3>1. r = CASE a.type = NullType -> Ends("crash")
                [] a.type # NullType /\ up -> Done(Via("UPCAST"))
                [] a.type # NullType /\ ~up /\ Inherits[e.type[2]][a.type[2]] -> Done(Via("DOWNCAST"))
                [] OTHER -> Ends("fail")
      BY ONLY <1>5, <1>9, <1>13, <2>1
    <3>2. CASE a.type # NullType /\ up
      <4>1. r = Done(Via("UPCAST"))
        BY ONLY <3>1, <3>2
      <4> QED
        BY <1>5, <1>7, <1>13, <3>2, <4>1 DEF up
    <3>3. CASE a.type # NullType /\ ~up /\ Inherits[e.type[2]][a.type[2]]
      <4>1. r = Done(Via("DOWNCAST"))
        BY ONLY <3>1, <3>3
      <4> QED
        BY <1>5, <1>7, <1>13, <3>3, <4>1
    <3>4. CASE a.type = NullType
      BY <1>3, <1>5a, <3>1, <3>4
    <3>5. CASE a.type # NullType /\ ~up /\ ~Inherits[e.type[2]][a.type[2]]
      BY <1>3, <1>5a, <3>1, <3>5
    <3> QED
      BY <3>2, <3>3, <3>4, <3>5
  <2>2. CASE from # "OBJECT"
    BY <1>3, <1>5a, <1>5, <1>9, <1>13, <2>2
  <2> QED
    BY <2>1, <2>2
<1>14. CASE same = "no" /\ to \notin Numeric \cup {"OBJECT"}
  <2>1. CASE to = "BOOL" /\ from \in Integral
    BY <1>8, <1>9, <1>14, <2>1
  <2>2. CASE to = "STRING" /\ a.type = ArrayOf(<<"U8">>)
    <3>1. r = Done(Via("REINTERPRET"))
      BY <1>9, <1>14, <2>2
    <3> QED
      BY <1>7, <1>11, <1>14, <2>2, <3>1
  <2>3. CASE ~(to = "BOOL" /\ from \in Integral) /\ ~(to = "STRING" /\ a.type = ArrayOf(<<"U8">>))
    BY <1>3, <1>5a, <1>9, <1>14, <2>3
  <2> QED
    BY <2>1, <2>2, <2>3
<1>15. CASE same # "no"
  <2>1. CASE same \in {"yes", "undefined"}
    BY <1>3, <1>5a, <1>9, <1>10, <2>1
  <2>2. CASE same \notin {"yes", "undefined"}
    BY <1>3, <1>5a, <1>9, <1>10, <1>15, <2>2
  <2> QED
    BY <2>1, <2>2
<1> QED
  BY <1>12, <1>13, <1>14, <1>15

(* The operations that leave their operands as they are.                      *)
LEMMA SameOperands ==
  ASSUME NEW e, NEW n, e.operands \in Seq(LeafNodes), n.operands = e.operands, e.op \notin {"NOT", "LOGIC", "CAST"},
         SoundNode(n), e.op \notin Statements => n.type \in AllTypes /\ n.op # "LITERAL"
  PROVE  Outcome(e, n)
<1> DEFINE ex == e.operands
           k == Len(ex)
<1>1. ex = Expected(e)
  BY ExpectedSame
<1>2. k \in Nat /\ ex = [i \in 1 .. k |-> ex[i]] /\ DOMAIN n.operands = 1 .. k /\ \A i \in 1 .. k : ex[i] \in LeafNodes
  OBVIOUS
<1>3. \A i \in 1 .. k : OperandOf(n.operands[i], ex[i])
  BY <1>2, LeafOperand
<1> HIDE DEF ex, k
<1> QED
  BY <1>1, <1>2, <1>3, OutcomeFrom

LEMMA LeafSequences ==
  ASSUME NEW a \in LeafNodes, NEW b \in LeafNodes
  PROVE  <<a>> \in Seq(LeafNodes) /\ <<a, b>> \in Seq(LeafNodes)
OBVIOUS

LEMMA OneTypes ==
  /\ Bool \in AllTypes /\ Str \in AllTypes /\ Void \in AllTypes /\ <<"U8">> \in AllTypes /\ <<"U32">> \in AllTypes
  /\ NullType \in AllTypes /\ \A k \in Numeric : <<k>> \in AllTypes
<1>1. /\ Bool \in Simple /\ Str \in Simple /\ Void \in Simple /\ NullType \in Objects
      /\ \A k \in Numeric : <<k>> \in Simple
  BY DEF Simple, Bool, Str, Void, Objects, NullType
<1>2. "U8" \in Numeric /\ "U32" \in Numeric
  BY DEF Numeric, Integral, Unsigned
<1> QED
  BY <1>1, <1>2, TypesAssumption

LEMMA PlainOutcome ==
  ASSUME NEW e, IsNode(e), e.operands \in Seq(LeafNodes),
         e.op # "CONDITION" => e.type \in AllTypes,
         \/ e.op = "NATIVE"
         \/ e.op = "NEW_ARRAY" /\ NewArray(e).end = "done"
         \/ e.op \in {"STR_CONCAT", "STR_CONCAT_ASSIGN"} /\ StrConcat(e).end = "done"
         \/ e.op = "CONDITION" /\ Condition(e).end = "done",
         e.op \in {"NEW_ARRAY", "CONDITION"} => \E a : e.operands = <<a>>
  PROVE  Outcome(e, e)
<1>1. SoundNode(e)
  <2>1. Ends("fail").end # "done"
    BY DEF Ends
  <2>2. CASE e.op = "NATIVE"
    BY <2>2, PlainNode DEF Plain
  <2>3. CASE e.op \in {"STR_CONCAT", "STR_CONCAT_ASSIGN"}
    <3>1. Types(e.operands) = <<Str, Str>>
      BY <2>1, <2>3 DEF StrConcat
    <3>2. NodeFits(e)
      BY <2>3, <3>1 DEF NodeFits
    <3> QED
      BY <2>3, <3>2, OtherNode
  <2>4. CASE e.op \in {"NEW_ARRAY", "CONDITION"}
    <3>1. PICK a : e.operands = <<a>>
      BY <2>4
    <3>2. Types(e.operands)[1] = a.type /\ e.operands[1] = a
      BY <3>1, TypesAre
    <3>3. CASE e.op = "NEW_ARRAY"
      <4>1. IsInteger(a.type)
        BY <2>1, <3>2, <3>3 DEF NewArray
      <4>2. NodeFits(e)
        BY <3>2, <3>3, <4>1 DEF NodeFits
      <4> QED
        BY <3>3, <4>2, OtherNode
    <3>4. CASE e.op = "CONDITION"
      <4>1. a.type = Bool \/ IsInteger(a.type)
        BY <2>1, <3>2, <3>4 DEF Condition
      <4>2. NodeFits(e)
        BY <3>2, <3>4, <4>1 DEF NodeFits
      <4> QED
        BY <3>4, <4>2, OtherNode
    <3> QED
      BY <2>4, <3>3, <3>4
  <2> QED
    BY <2>2, <2>3, <2>4
<1>2. e.op \notin Statements => e.type \in AllTypes /\ e.op # "LITERAL"
  BY DEF Statements
<1> QED
  BY <1>1, <1>2, SameOperands

LEMMA TypedOutcome ==
  ASSUME NEW e, IsNode(e), NEW a \in LeafNodes, e.operands = <<a>>, e.op \in {"POSTFIX", "LET"},
         e.op = "LET" => a.type # Void, NEW n,
         n = [e EXCEPT !.type = a.type]
  PROVE  Outcome(e, n)
<1>1. n.op = e.op /\ n.type = a.type /\ n.operands = e.operands
  BY NodeExcept
<1>2. SoundNode(n) /\ a.type \in AllTypes /\ e.operands \in Seq(LeafNodes)
  <2>1. Types(n.operands) = <<n.type>>
    BY <1>1, TypesAre
  <2>2. CASE e.op = "POSTFIX"
    BY <1>1, <2>1, <2>2, LeafIs, LeafSequences DEF SoundNode, Accepted, Unchecked
  <2>3. CASE e.op = "LET"
    <3>1. NodeFits(n)
      BY <1>1, <2>1, <2>3 DEF NodeFits
    <3> QED
      BY <1>1, <2>3, <3>1, OtherNode, LeafIs, LeafSequences
  <2> QED
    BY <2>2, <2>3
<1> QED
  BY <1>1, <1>2, SameOperands

LEMMA IdentityOutcome ==
  ASSUME NEW e, IsNode(e), e.operands \in Seq(LeafNodes), Len(e.operands) \in {1, 2}, e.type \in AllTypes, e.op = "IDENTITY", Identity(e).end = "done"
  PROVE  Outcome(e, Identity(e).e)
<1> DEFINE n == [e EXCEPT !.op = "INSTANCEOF"]
<1>1. /\ Identity(e).e = n /\ Len(e.operands) = 1 /\ Kind(e.operands[1].type) = "OBJECT"
      \/ /\ Identity(e).e = e /\ \A i \in 1 .. 2 : Kind(e.operands[i].type) = "OBJECT"
  BY DEF Identity, Done, Ends
<1>2. n.op = "INSTANCEOF" /\ n.type = e.type /\ n.operands = e.operands
  BY NodeExcept
<1> HIDE DEF n
<1>3. \A i \in DOMAIN e.operands : Types(e.operands)[i] = e.operands[i].type
  BY DEF Types
<1>4. DOMAIN Types(e.operands) = 1 .. Len(e.operands) /\ DOMAIN e.operands = 1 .. Len(e.operands)
  BY DEF Types
<1>5. CASE Identity(e).e = n /\ Len(e.operands) = 1 /\ Kind(e.operands[1].type) = "OBJECT"
  <2>1. \A i \in DOMAIN Types(n.operands) : Kind(Types(n.operands)[i]) = "OBJECT"
    BY <1>2, <1>3, <1>4, <1>5
  <2>2. NodeFits(n)
    BY <1>2, <2>1 DEF NodeFits
  <2>3. Outcome(e, n)
    BY <1>2, <2>2, OtherNode, SameOperands
  <2> QED
    BY <1>5, <2>3
<1>6. CASE Identity(e).e = e /\ \A i \in 1 .. 2 : Kind(e.operands[i].type) = "OBJECT"
  <2>1. \A i \in DOMAIN Types(e.operands) : Kind(Types(e.operands)[i]) = "OBJECT"
    BY <1>3, <1>4, <1>6, Len(e.operands) \in {1, 2}
  <2>2. NodeFits(e)
    BY <2>1 DEF NodeFits
  <2>3. Outcome(e, e)
    BY <2>2, OtherNode, SameOperands
  <2> QED
    BY <1>6, <2>3
<1> QED
  BY <1>1, <1>5, <1>6

CompareSays(e, a, b, c) ==
  LET l == Kind(a.type)
      r == Kind(b.type)
      k == Common(l, r, TRUE)
  IN /\ l = r /\ l = "ARRAY" => c = Ends("fail")
     /\ l = r /\ l \in {"BLOCKREF", "OBJECT", "STRING"} => c = IF e.how \in {"EQ", "NE"} THEN Done(e) ELSE Ends("fail")
     /\ l = "BOOL" \/ r = "BOOL" => c = Done(e)
     /\ Taken(l, r, TRUE) => c = Done([e EXCEPT !.operands = <<Wrapped(k, a), Wrapped(k, b)>>])
     /\ l # "BOOL" /\ r # "BOOL" /\ (l # r \/ l \in Numeric \cup {"VOID"}) =>
          /\ Concatenated(a, b, TRUE) => c = Done(e)
          /\ ~Taken(l, r, TRUE) /\ ~Concatenated(a, b, TRUE) => c = Ends("fail")

LEMMA CompareIs ==
  ASSUME NEW e, IsNode(e), NEW a, NEW b, e.operands = <<a, b>>
  PROVE  CompareSays(e, a, b, Compare(e))
<1> DEFINE l == Kind(a.type)
           r == Kind(b.type)
           k == Common(l, r, TRUE)
           c == Compare(e)
           kinds == <<l, r>>
           made == BinaryOperands(e, TRUE)
<1>1. e.operands[1] = a /\ e.operands[2] = b /\ kinds[1] = l /\ kinds[2] = r
  OBVIOUS
<1>2. /\ kinds = <<"ARRAY", "ARRAY">> <=> l = "ARRAY" /\ r = "ARRAY"
      /\ kinds = <<"BLOCKREF", "BLOCKREF">> \/ kinds = <<"OBJECT", "OBJECT">> \/ kinds = <<"STRING", "STRING">>
           <=> l = r /\ l \in {"BLOCKREF", "OBJECT", "STRING"}
      /\ (\E i \in 1 .. 2 : kinds[i] = "BOOL") <=> l = "BOOL" \/ r = "BOOL"
  OBVIOUS
<1>3. kinds = <<Kind(e.operands[1].type), Kind(e.operands[2].type)>>
  BY <1>1
<1> HIDE DEF kinds, l, r, c, k
<1>4. c = CASE kinds = <<"ARRAY", "ARRAY">> -> Ends("fail")
            [] kinds = <<"BLOCKREF", "BLOCKREF">> \/ kinds = <<"OBJECT", "OBJECT">> \/ kinds = <<"STRING", "STRING">> ->
                 IF e.how \notin {"EQ", "NE"} THEN Ends("fail") ELSE Done(e)
            [] \E i \in 1 .. 2 : kinds[i] = "BOOL" -> Done(e)
            [] OTHER -> IF made.end = "done" THEN Done([e EXCEPT !.operands = made.e]) ELSE made
  BY <1>3 DEF Compare, Then, l, r, c
<1>5. c = CASE l = "ARRAY" /\ r = "ARRAY" -> Ends("fail")
            [] l = r /\ l \in {"BLOCKREF", "OBJECT", "STRING"} ->
                 IF e.how \notin {"EQ", "NE"} THEN Ends("fail") ELSE Done(e)
            [] l = "BOOL" \/ r = "BOOL" -> Done(e)
            [] OTHER -> IF made.end = "done" THEN Done([e EXCEPT !.operands = made.e]) ELSE made
  BY ONLY <1>2, <1>4
<1>6. /\ Taken(l, r, TRUE) => made = Done(<<Wrapped(k, a), Wrapped(k, b)>>)
      /\ Concatenated(a, b, TRUE) => made = Done(<<a, b>>)
      /\ ~Taken(l, r, TRUE) /\ ~Concatenated(a, b, TRUE) => made = Ends("fail")
  <2>1. BinarySays(a, b, TRUE, made)
    BY BinaryIs
  <2> QED
    BY <2>1 DEF BinarySays, l, r, k
<1>7. /\ \A x : Done(x).e = x /\ Done(x).end = "done" /\ Ends("fail").end = "fail"
      /\ [e EXCEPT !.operands = <<a, b>>] = e
  BY DEF Done, Ends, IsNode, Node
<1>8. /\ Taken(l, r, TRUE) => l \in Numeric /\ r \in Numeric
      /\ \A x \in Numeric : x \notin {"BOOL", "STRING", "VOID", "OBJECT", "ARRAY", "BLOCKREF"}
  BY NumericKinds DEF Taken, OtherKinds
<1> HIDE DEF made
<1>9. ASSUME l # "BOOL", r # "BOOL", l # r \/ l \in Numeric \cup {"VOID"}
      PROVE  c = IF made.end = "done" THEN Done([e EXCEPT !.operands = made.e]) ELSE made
  BY ONLY <1>5, <1>8, <1>9
<1>10. Taken(l, r, TRUE) => l # "BOOL" /\ r # "BOOL" /\ (l # r \/ l \in Numeric \cup {"VOID"})
  BY ONLY <1>8
<1>11. /\ Taken(l, r, TRUE) => c = Done([e EXCEPT !.operands = <<Wrapped(k, a), Wrapped(k, b)>>])
       /\ l # "BOOL" /\ r # "BOOL" /\ (l # r \/ l \in Numeric \cup {"VOID"}) =>
              /\ Concatenated(a, b, TRUE) => c = Done(e)
              /\ ~Taken(l, r, TRUE) /\ ~Concatenated(a, b, TRUE) => c = Ends("fail")
  <2>1. Taken(l, r, TRUE) => c = Done([e EXCEPT !.operands = <<Wrapped(k, a), Wrapped(k, b)>>])
    BY ONLY <1>6, <1>7, <1>9, <1>10
  <2>2. ASSUME l # "BOOL", r # "BOOL", l # r \/ l \in Numeric \cup {"VOID"}
        PROVE  /\ Concatenated(a, b, TRUE) => c = Done(e)
               /\ ~Taken(l, r, TRUE) /\ ~Concatenated(a, b, TRUE) => c = Ends("fail")
    <3>1. c = IF made.end = "done" THEN Done([e EXCEPT !.operands = made.e]) ELSE made
      BY <1>9, <2>2
    <3> QED
      BY ONLY <1>6, <1>7, <3>1
  <2> QED
    BY <2>1, <2>2
<1>12. /\ l = r /\ l = "ARRAY" => c = Ends("fail")
       /\ l = r /\ l \in {"BLOCKREF", "OBJECT", "STRING"} => c = IF e.how \in {"EQ", "NE"} THEN Done(e) ELSE Ends("fail")
       /\ l = "BOOL" \/ r = "BOOL" => c = Done(e)
  BY ONLY <1>5
<1> QED
  BY <1>11, <1>12 DEF CompareSays, l, r, c, k

LEMMA CompareOutcome ==
  ASSUME NEW e, IsNode(e), NEW a \in LeafNodes, NEW b \in LeafNodes, e.operands = <<a, b>>, e.op = "COMPARE",
         e.type \in AllTypes, Compare(e).end = "done"
  PROVE  Outcome(e, Compare(e).e)
<1> DEFINE l == Kind(a.type)
           r == Kind(b.type)
           k == Common(l, r, TRUE)
           x == Wrapped(k, a)
           y == Wrapped(k, b)
           n == [e EXCEPT !.operands = <<x, y>>]
           c == Compare(e)
<1>1. e.operands[1] = a /\ e.operands[2] = b /\ e.operands \in Seq(LeafNodes)
  BY LeafSequences
<1>2. a.type \in AllTypes /\ b.type \in AllTypes
  BY LeafIs
<1>3. (\A z : Done(z).e = z) /\ Ends("fail").end = "fail" /\ c.end = "done"
  BY DEF Done, Ends
<1>4. Types(e.operands) = <<a.type, b.type>>
  BY TypesAre
<1>5. ASSUME CompareFits(e) \/ Unchecked(e)
      PROVE  Outcome(e, e)
  <2>1. SoundNode(e)
    BY <1>5 DEF SoundNode, Accepted, NodeFits
  <2> QED
    BY <1>1, <2>1, SameOperands
<1>6. ASSUME Taken(l, r, TRUE)
      PROVE  Outcome(e, n)
  <2>1. k \in Numeric /\ l \in Numeric /\ r \in Numeric
    <3>1. l \in Numeric /\ r \in Numeric
      BY <1>6 DEF Taken
    <3>2. Common(l, r, TRUE) \in Numeric
      <4> HIDE DEF l, r
      <4> QED
        BY <1>6, CommonKind
    <3> QED
      BY <3>1, <3>2
  <2>2. n.op = "COMPARE" /\ n.type = e.type /\ n.operands = <<x, y>>
    <3> HIDE DEF x, y
    <3> QED
      BY NodeExcept
  <2> HIDE DEF n, k
  <2>3. Stands(x, a, <<k>>) /\ Stands(y, b, <<k>>) /\ x.type = <<k>> /\ y.type = <<k>> /\ <<k>> \in AllTypes
    BY <2>1, WrappedStands
  <2> HIDE DEF x, y
  <2>4. OperandOf(x, a) /\ OperandOf(y, b)
    BY <2>3, StandsOperand
  <2>5. CompareFits(n)
    <3>1. Types(n.operands) = <<<<k>>, <<k>>>> /\ Kind(<<k>>) = k
      BY <2>2, <2>3, TypesAre DEF Kind
    <3> QED
      BY <2>1, <3>1 DEF CompareFits
  <2>6. SoundNode(n)
    BY <2>2, <2>5, OtherNode DEF NodeFits
  <2>7. Expected(e) = <<a, b>>
    BY ExpectedSame
  <2> QED
    BY <2>2, <2>4, <2>6, <2>7, OutcomeOfTwo
<1>7. /\ l = "BOOL" <=> a.type = Bool
      /\ r = "BOOL" <=> b.type = Bool
      /\ l = "STRING" <=> a.type = Str
      /\ b.op = "LITERAL" /\ r = "OBJECT" => b.type = NullType
  BY <1>2, KindFacts, LeafIs
<1> HIDE DEF n, c
<1>7a. CompareSays(e, a, b, c)
  BY CompareIs DEF c
<1> HIDE DEF l, r, k
<1>8. CASE l = "BOOL" \/ r = "BOOL"
  <2>1. CompareFits(e) \/ Unchecked(e)
    <3>1. CASE a.type = Bool /\ b.type = Bool
      BY <1>4, <1>7, <3>1 DEF CompareFits, l
    <3>2. CASE ~(a.type = Bool /\ b.type = Bool)
      <4>1. OneBoolean(Types(e.operands))
        BY <1>4, <1>7, <1>8, <3>2 DEF OneBoolean
      <4> QED
        BY <4>1 DEF Unchecked
    <3> QED
      BY <3>1, <3>2
  <2>2. c = Done(e)
    BY <1>7a, <1>8 DEF CompareSays, l, r
  <2> QED
    BY <1>3, <1>5, <2>1, <2>2 DEF c
<1>9. CASE l # "BOOL" /\ r # "BOOL" /\ (l # r \/ l \in Numeric \cup {"VOID"})
  <2>1. /\ Taken(l, r, TRUE) => c = Done(n)
        /\ Concatenated(a, b, TRUE) => c = Done(e)
        /\ ~Taken(l, r, TRUE) /\ ~Concatenated(a, b, TRUE) => c = Ends("fail")
    BY <1>7a, <1>9 DEF CompareSays, l, r, k, n, x, y
  <2>2. Concatenated(a, b, TRUE) => Unchecked(e)
    BY <1>1, <1>4, <1>7 DEF Concatenated, Unchecked, IsNullLiteral, l, r
  <2> QED
    BY <1>3, <1>5, <1>6, <2>1, <2>2 DEF c
<1>10. CASE l = r /\ l \in {"ARRAY", "BLOCKREF", "OBJECT", "STRING"}
  <2>1. \/ c = Done(e) /\ e.how \in {"EQ", "NE"} /\ l \in {"BLOCKREF", "OBJECT", "STRING"}
        \/ c = Ends("fail")
    BY <1>7a, <1>10 DEF CompareSays, l, r
  <2>2. e.how \in {"EQ", "NE"} /\ l \in {"BLOCKREF", "OBJECT", "STRING"} => CompareFits(e)
    BY <1>4, <1>10 DEF CompareFits, l, r
  <2> QED
    BY <1>3, <1>5, <2>1, <2>2 DEF c
<1>11. l \in Numeric \cup {"BOOL", "STRING", "VOID", "OBJECT", "ARRAY", "BLOCKREF"}
  BY <1>2, FormOfTypes DEF Form, OtherKinds, l
<1> QED
  BY <1>8, <1>9, <1>10, <1>11

\* Operands that are of one type.
LEMMA ExactNumber ==
  ASSUME NEW v \in LeafNodes, NEW t \in AllTypes, Kind(t) \in Numeric, NEW x, Stands(x, v, t)
  PROVE  x.type = t
<1>1. Kind(t) \notin {"ARRAY", "OBJECT"} /\ t # Str
  BY NumericKinds, KindFacts DEF OtherKinds
<1>2. Fits(x, t)
  BY StandsIs
<1> QED
  BY <1>1, <1>2 DEF Fits

LEMMA LogicOutcome ==
  ASSUME NEW e, IsNode(e), NEW a \in LeafNodes, NEW b \in LeafNodes, e.operands = <<a, b>>, e.op = "LOGIC",
         e.how \in {"AND", "OR", "XOR"}, Logic(e).end = "done"
  PROVE  Outcome(e, Logic(e).e)
<1> DEFINE left == Converted(a, Bool)
           right == Converted(b, Bool)
           x == left.e
           y == right.e
           Made(op, how, ops) == Node(op, how, Bool, ops)
<1>1. e.operands[1] = a /\ e.operands[2] = b /\ Bool \in AllTypes
  BY OneTypes
<1>2. Logic(e) = CASE left.end # "done" -> left
                   [] left.end = "done" /\ right.end # "done" -> right
                   [] OTHER ->
                        CASE e.how = "XOR" -> Done(Made("NUMERIC", "BXOR", <<x, y>>))
                          [] e.how = "OR" -> Done(Made("TERNARY", "", <<x, Literal(Bool), y>>))
                          [] e.how = "AND" -> Done(Made("TERNARY", "", <<x, y, Literal(Bool)>>))
  BY <1>1 DEF Logic
<1>3. \A op, how, ops : /\ Made(op, how, ops).op = op /\ Made(op, how, ops).type = Bool
                        /\ Made(op, how, ops).operands = ops /\ Made(op, how, ops).how = how
  BY DEF Node
<1> HIDE DEF left, right, Made
<1>4. left.end = "done" /\ right.end = "done"
  BY <1>2
<1>5. OperandOf(x, a) /\ OperandOf(y, b) /\ x.type = Bool /\ y.type = Bool
  <2>1. Stands(x, a, Bool) /\ Stands(y, b, Bool)
    BY <1>1, <1>4, ConvertedStands DEF left, right
  <2> QED
    BY <1>1, <2>1, StandsOperand, StandsBool
<1> DEFINE z == Literal(Bool)
<1>6. OperandOf(z, z) /\ z.type = Bool
  BY LiteralOperand
<1>7. /\ e.how = "OR" => Expected(e) = <<a, z, b>>
      /\ e.how = "AND" => Expected(e) = <<a, b, z>>
      /\ e.how = "XOR" => Expected(e) = <<a, b>>
  BY <1>1 DEF Expected
<1> HIDE DEF x, y, z
<1>8. CASE e.how = "XOR"
  <2> DEFINE n == Made("NUMERIC", "BXOR", <<x, y>>)
  <2>1. n.op = "NUMERIC" /\ n.type = Bool /\ n.operands = <<x, y>> /\ n.how = "BXOR"
    BY <1>3
  <2> HIDE DEF n
  <2>2. SoundNode(n)
    <3>1. Types(n.operands) = <<n.type, n.type>>
      BY <1>5, <2>1, TypesAre
    <3> QED
      BY <2>1, <3>1, OtherNode DEF NodeFits
  <2>3. Outcome(e, n)
    BY <1>1, <1>5, <1>7, <1>8, <2>1, <2>2, OutcomeOfTwo
  <2>4. Logic(e) = Done(n)
    BY <1>2, <1>4, <1>8 DEF n, x, y
  <2> QED
    BY <2>3, <2>4 DEF Done
<1>9. ASSUME NEW v, NEW w, v.type = Bool, w.type = Bool
      PROVE  LET n == Made("TERNARY", "", <<x, v, w>>)
             IN  n.op = "TERNARY" /\ n.type = Bool /\ n.operands = <<x, v, w>> /\ SoundNode(n)
  <2> DEFINE n == Made("TERNARY", "", <<x, v, w>>)
  <2>1. n.op = "TERNARY" /\ n.type = Bool /\ n.operands = <<x, v, w>>
    BY DEF Made, Node
  <2> HIDE DEF n
  <2>2. Types(n.operands)[1] = Bool
    BY <1>5, <2>1 DEF Types
  <2>3. \A i \in 2 .. 3 : Fits(n.operands[i], n.type)
    BY <1>9, <2>1 DEF Fits
  <2>4. SoundNode(n)
    BY <2>1, <2>2, <2>3 DEF SoundNode, Accepted, NodeFits
  <2> QED
    BY <2>1, <2>4 DEF n
<1>10. CASE e.how = "OR"
  <2> DEFINE n == Made("TERNARY", "", <<x, z, y>>)
  <2>1. n.op = "TERNARY" /\ n.type = Bool /\ n.operands = <<x, z, y>> /\ SoundNode(n)
    BY <1>5, <1>6, <1>9
  <2> HIDE DEF n
  <2>2. Outcome(e, n)
    BY <1>1, <1>5, <1>6, <1>7, <1>10, <2>1, OutcomeOfThree
  <2>3. Logic(e) = Done(n)
    BY <1>2, <1>4, <1>10 DEF n, x, y, z
  <2> QED
    BY <2>2, <2>3 DEF Done
<1>11. CASE e.how = "AND"
  <2> DEFINE n == Made("TERNARY", "", <<x, y, z>>)
  <2>1. n.op = "TERNARY" /\ n.type = Bool /\ n.operands = <<x, y, z>> /\ SoundNode(n)
    BY <1>5, <1>6, <1>9
  <2> HIDE DEF n
  <2>2. Outcome(e, n)
    BY <1>1, <1>5, <1>6, <1>7, <1>11, <2>1, OutcomeOfThree
  <2>3. Logic(e) = Done(n)
    BY <1>2, <1>4, <1>11 DEF n, x, y, z
  <2> QED
    BY <2>2, <2>3 DEF Done
<1> QED
  BY <1>8, <1>10, <1>11

LEMMA NumbersOutcome ==
  ASSUME NEW e, IsNode(e), NEW a \in LeafNodes, NEW b \in LeafNodes, e.operands = <<a, b>>, e.op = "NUMERIC",
         Numbers(e).end = "done"
  PROVE  Outcome(e, Numbers(e).e)
<1> DEFINE allow == e.how = "ARITHMETIC"
           l == Kind(a.type)
           r == Kind(b.type)
           k == Common(l, r, allow)
           made == BinaryOperands(e, allow)
           kind == CommonRow(a, b, allow).kind
           n == [e EXCEPT !.operands = made.e, !.type = <<kind>>]
<1>1. e.operands[1] = a /\ e.operands[2] = b /\ allow \in BOOLEAN
  OBVIOUS
<1>2. Numbers(e) = IF made.end = "done" THEN Done(n) ELSE made
  BY <1>1 DEF Numbers, Then
<1>3. n.op = "NUMERIC" /\ n.type = <<kind>> /\ n.operands = made.e /\ n.how = e.how
  <2> HIDE DEF made, kind
  <2> QED
    BY NodeExcept
<1>4. BinarySays(a, b, allow, made) /\ (Taken(l, r, allow) => kind = k) /\ (Concatenated(a, b, allow) => kind = "STRING")
  <2>1. BinarySays(a, b, allow, made)
    BY <1>1, BinaryIs
  <2>2. /\ Taken(l, r, allow) => CommonRow(a, b, allow) = Regular(k, l, r)
        /\ Concatenated(a, b, allow) => CommonRow(a, b, allow) = Row("STRING", <<>>)
    <3> HIDE DEF allow
    <3> QED
      BY <1>1, CommonRowIs
  <2>3. \A p, q : Row(p, q).kind = p
    BY DEF Row
  <2> QED
    BY <2>1, <2>2, <2>3 DEF Regular
<1> HIDE DEF made, kind, n, allow
<1>5. made.end = "done" /\ Numbers(e).e = n
  BY <1>2 DEF Done
<1>6. \A z : Done(z).e = z /\ Ends("fail").end = "fail"
  BY DEF Done, Ends
<1>7. Expected(e) = <<a, b>>
  BY ExpectedSame
<1>8. CASE Taken(l, r, allow)
  <2>1. k \in Numeric /\ l \in Numeric /\ r \in Numeric
    <3>1. l \in Numeric /\ r \in Numeric
      BY <1>8, Kinds DEF Taken
    <3>2. k \in Numeric
      <4> HIDE DEF l, r
      <4> QED
        BY <1>1, <1>8, CommonKind
    <3> QED
      BY <3>1, <3>2
  <2> DEFINE x == Wrapped(k, a)
             y == Wrapped(k, b)
  <2>2. made.e = <<x, y>> /\ kind = k
    BY <1>4, <1>6, <1>8 DEF BinarySays
  <2> HIDE DEF k
  <2>3. Stands(x, a, <<k>>) /\ Stands(y, b, <<k>>) /\ x.type = <<k>> /\ y.type = <<k>> /\ <<k>> \in AllTypes
    BY <2>1, WrappedStands
  <2> HIDE DEF x, y
  <2>4. OperandOf(x, a) /\ OperandOf(y, b)
    BY <2>3, StandsOperand
  <2>4a. k \in IF allow THEN Numeric ELSE Integral
    <3>1. CASE ~allow
      <4>1. l \in Integral /\ r \in Integral
        BY <1>8, <3>1 DEF Taken
      <4>2. Joint(l, r) \in Integral
        <5> HIDE DEF l, r
        <5> QED
          BY ONLY <4>1, JointKind
      <4> QED
        BY <3>1, <4>2 DEF Common, k
    <3> QED
      BY <2>1, <3>1
  <2>5. SoundNode(n)
    <3>1. Types(n.operands) = <<n.type, n.type>> /\ Kind(n.type) = k
      BY <1>3, <2>2, <2>3, TypesAre DEF Kind
    <3>2. NodeFits(n)
      BY <1>3, <2>4a, <3>1 DEF NodeFits, allow
    <3> QED
      BY <1>3, <3>2, OtherNode
  <2>6. Outcome(e, n)
    BY <1>3, <1>7, <2>2, <2>3, <2>4, <2>5, OutcomeOfTwo
  <2> QED
    BY <1>5, <2>6
<1>9. CASE Concatenated(a, b, allow)
  <2>1. made.e = <<a, b>> /\ kind = "STRING" /\ Str = <<kind>>
    BY <1>4, <1>6, <1>9 DEF BinarySays, Str
  <2>2. a.type = Str /\ IsNullLiteral(b)
    BY <1>9, LeafIs, KindFacts DEF Concatenated, IsNullLiteral
  <2>3. SoundNode(n)
    <3>1. Types(n.operands) = <<a.type, b.type>> /\ n.operands[2] = b
      BY <1>3, <2>1, TypesAre
    <3>2. Unchecked(n)
      BY <1>3, <2>2, <3>1 DEF Unchecked
    <3> QED
      BY <1>3, <3>2 DEF SoundNode, Accepted
  <2>4. Outcome(e, n)
    BY <1>3, <1>7, <2>1, <2>3, LeafOperand, OneTypes, OutcomeOfTwo
  <2> QED
    BY <1>5, <2>4
<1>10. CASE ~Taken(l, r, allow) /\ ~Concatenated(a, b, allow)
  BY <1>4, <1>5, <1>6, <1>10 DEF BinarySays
<1> QED
  BY <1>8, <1>9, <1>10

LEMMA Replacing ==
  ASSUME NEW e, IsNode(e), NEW t, NEW v
  PROVE  /\ \A a, b : e.operands = <<a, b>> =>
              LET n == [e EXCEPT !.operands[2] = v, !.type = t]
              IN  n.op = e.op /\ n.how = e.how /\ n.type = t /\ n.operands = <<a, v>>
         /\ \A a, b, c : e.operands = <<a, b, c>> =>
              LET n == [e EXCEPT !.operands[3] = v, !.type = t]
              IN  n.op = e.op /\ n.how = e.how /\ n.type = t /\ n.operands = <<a, b, v>>
         /\ \A a, b, c : e.operands = <<a, b, c>> =>
              LET n == [e EXCEPT !.operands[1] = v, !.type = t]
              IN  n.op = e.op /\ n.how = e.how /\ n.type = t /\ n.operands = <<v, b, c>>
<1>1. DOMAIN e = {"op", "how", "type", "operands"}
  BY DEF IsNode, Node
<1>2. ASSUME NEW i
      PROVE  LET n == [e EXCEPT !.operands[i] = v, !.type = t]
             IN  n.op = e.op /\ n.how = e.how /\ n.type = t /\ n.operands = [e.operands EXCEPT ![i] = v]
  BY <1>1
<1>3. /\ \A a, b : [<<a, b>> EXCEPT ![2] = v] = <<a, v>>
      /\ \A a, b, c : [<<a, b, c>> EXCEPT ![3] = v] = <<a, b, v>>
      /\ \A a, b, c : [<<a, b, c>> EXCEPT ![1] = v] = <<v, b, c>>
  OBVIOUS
<1> QED
  BY <1>2, <1>3

LEMMA NumericAssignOutcome ==
  ASSUME NEW e, IsNode(e), NEW a \in LeafNodes, NEW b \in LeafNodes, e.operands = <<a, b>>, e.op = "NUMERIC_ASSIGN",
         NumericAssign(e).end = "done"
  PROVE  Outcome(e, NumericAssign(e).e)
<1> DEFINE c == Converted(b, a.type)
           n == [e EXCEPT !.operands[2] = c.e, !.type = a.type]
           numeric == IsInteger(a.type) \/ (e.how = "ARITHMETIC" /\ IsFloat(a.type))
<1>1. e.operands[1] = a /\ e.operands[2] = b
  OBVIOUS
<1>2. NumericAssign(e) = IF numeric THEN (IF c.end = "done" THEN Done(n) ELSE c) ELSE Ends("fail")
  BY <1>1 DEF NumericAssign, Then
<1>3. n.op = "NUMERIC_ASSIGN" /\ n.how = e.how /\ n.type = a.type /\ n.operands = <<a, c.e>>
  <2> HIDE DEF c
  <2> QED
    BY Replacing
<1> HIDE DEF c, n, numeric
<1>4. numeric /\ c.end = "done" /\ NumericAssign(e).e = n
  BY <1>2 DEF Done, Ends
<1>5. /\ a.type \in AllTypes /\ Kind(a.type) \in Numeric
      /\ Kind(a.type) \in IF e.how = "ARITHMETIC" THEN Numeric ELSE Integral
  BY <1>4, LeafIs DEF numeric, IsInteger, IsFloat, Numeric
<1>6. Stands(c.e, b, a.type)
  BY <1>4, <1>5, ConvertedStands DEF c
<1>7. OperandOf(c.e, b) /\ c.e.type = a.type
  BY <1>5, <1>6, StandsOperand, ExactNumber
<1>8. SoundNode(n)
  <2>1. Types(n.operands) = <<a.type, a.type>>
    BY <1>3, <1>7, TypesAre
  <2> QED
    BY <1>3, <1>5, <2>1, OtherNode DEF NodeFits
<1>9. Outcome(e, n)
  BY <1>3, <1>5, <1>7, <1>8, LeafOperand, ExpectedSame, OutcomeOfTwo
<1> QED
  BY <1>4, <1>9

LEMMA ShiftOutcome ==
  ASSUME NEW e, IsNode(e), NEW a \in LeafNodes, NEW b \in LeafNodes, e.operands = <<a, b>>, e.op = "SHIFT",
         Shift(e).end = "done"
  PROVE  Outcome(e, Shift(e).e)
<1> DEFINE p == NumericPromotion(a, FALSE)
           q == NumericPromotion(b, FALSE)
           n == [e EXCEPT !.operands = <<p.e, q.e>>, !.type = p.e.type]
<1>1. e.operands[1] = a /\ e.operands[2] = b
  OBVIOUS
<1>2. Shift(e) = IF p.end = "done" THEN (IF q.end = "done" THEN Done(n) ELSE q) ELSE p
  BY <1>1 DEF Shift, Then
<1>3. n.op = "SHIFT" /\ n.type = p.e.type /\ n.operands = <<p.e, q.e>>
  <2> HIDE DEF p, q
  <2> QED
    BY NodeExcept
<1> HIDE DEF n, p, q
<1>4. p.end = "done" /\ q.end = "done" /\ Shift(e).e = n
  BY <1>2 DEF Done
<1>5. /\ p.e.type \in AllTypes /\ Stands(p.e, a, p.e.type) /\ Kind(p.e.type) \in Large(Integral)
      /\ q.e.type \in AllTypes /\ Stands(q.e, b, q.e.type) /\ Kind(q.e.type) \in Large(Integral)
  BY <1>4, PromotionStands DEF p, q
<1>6. OperandOf(p.e, a) /\ OperandOf(q.e, b)
  BY <1>5, StandsOperand
<1>7. SoundNode(n)
  <2>1. Types(n.operands) = <<p.e.type, q.e.type>>
    BY <1>3, TypesAre
  <2> QED
    <3> DEFINE types == Types(n.operands)
    <3>1. types[1] = n.type /\ \A i \in 1 .. 2 : Kind(types[i]) \in Large(Integral)
      BY <1>3, <1>5, <2>1
    <3> HIDE DEF types
    <3>2. NodeFits(n)
      BY <1>3, <3>1 DEF NodeFits, types
    <3> QED
      BY <1>3, <3>2, OtherNode
<1>8. Outcome(e, n)
  BY <1>3, <1>5, <1>6, <1>7, ExpectedSame, OutcomeOfTwo
<1> QED
  BY <1>4, <1>8

LEMMA ShiftAssignOutcome ==
  ASSUME NEW e, IsNode(e), NEW a \in LeafNodes, NEW b \in LeafNodes, e.operands = <<a, b>>, e.op = "SHIFT_ASSIGN",
         ShiftAssign(e).end = "done"
  PROVE  Outcome(e, ShiftAssign(e).e)
<1> DEFINE q == NumericPromotion(b, FALSE)
           n == [e EXCEPT !.operands[2] = q.e, !.type = a.type]
<1>1. e.operands[1] = a /\ e.operands[2] = b /\ a.type \in AllTypes
  <2>1. e.operands[1] = a /\ e.operands[2] = b
    OBVIOUS
  <2> QED
    BY <2>1, LeafIs
<1>2. ShiftAssign(e) = IF IsInteger(a.type) THEN (IF q.end = "done" THEN Done(n) ELSE q) ELSE Ends("fail")
  BY <1>1 DEF ShiftAssign, Then
<1>3. n.op = "SHIFT_ASSIGN" /\ n.type = a.type /\ n.operands = <<a, q.e>>
  <2> HIDE DEF q
  <2> QED
    BY <1>1, Replacing
<1> HIDE DEF n, q
<1>4. q.end = "done" /\ ShiftAssign(e).e = n /\ IsInteger(a.type)
  BY <1>2 DEF Done, Ends
<1>5. q.e.type \in AllTypes /\ Stands(q.e, b, q.e.type) /\ Kind(q.e.type) \in Large(Integral)
  BY <1>4, PromotionStands DEF q
<1>6. OperandOf(a, a) /\ OperandOf(q.e, b)
  BY <1>5, StandsOperand, LeafOperand
<1>7. SoundNode(n)
  <2>1. Types(n.operands) = <<a.type, q.e.type>>
    BY <1>3, TypesAre
  <2> QED
    <3> DEFINE types == Types(n.operands)
    <3>1. types[1] = n.type /\ IsInteger(n.type) /\ Kind(types[2]) \in Large(Integral)
      BY <1>3, <1>4, <1>5, <2>1
    <3> HIDE DEF types
    <3>2. NodeFits(n)
      BY <1>3, <3>1 DEF NodeFits, types
    <3> QED
      BY <1>3, <3>2, OtherNode
<1>8. Outcome(e, n)
  BY <1>1, <1>3, <1>6, <1>7, ExpectedSame, OutcomeOfTwo
<1> QED
  BY <1>4, <1>8

LEMMA AssignOutcome ==
  ASSUME NEW e, IsNode(e), NEW a \in LeafNodes, e.operands = <<a>>, e.op \in {"SET_SYMBOL", "DEFINE", "RETURN"},
         e.type \in AllTypes, Assign(e).end = "done"
  PROVE  Outcome(e, Assign(e).e)
<1> DEFINE c == Converted(a, e.type)
           n == [e EXCEPT !.operands = <<c.e>>]
<1>1. e.operands[1] = a
  OBVIOUS
<1>2. Assign(e) = IF c.end = "done" THEN Done(n) ELSE c
  BY <1>1 DEF Assign, Then
<1>3. n.op = e.op /\ n.type = e.type /\ n.operands = <<c.e>>
  <2> HIDE DEF c
  <2> QED
    BY NodeExcept
<1> HIDE DEF n, c
<1>4. c.end = "done" /\ Assign(e).e = n
  BY <1>2 DEF Done
<1>5. Stands(c.e, a, e.type)
  BY <1>4, ConvertedStands DEF c
<1>6. OperandOf(c.e, a) /\ Fits(c.e, e.type)
  BY <1>5, StandsOperand, StandsIs
<1>7. n.operands[1] = c.e
  BY <1>3
<1>8. SoundNode(n)
  BY <1>3, <1>6, <1>7 DEF SoundNode, Accepted, NodeFits
<1>9. Outcome(e, n)
  BY <1>3, <1>6, <1>8, ExpectedSame, OutcomeOfOne
<1> QED
  BY <1>4, <1>9

\* A node, its operands and its type exchanged for others.
Remade(e, t, ops) == Node(e.op, e.how, t, ops)

LEMMA FieldsOfNode ==
  ASSUME NEW o, NEW h, NEW y, NEW p, NEW n, n = Node(o, h, y, p)
  PROVE  n = [i \in {"op", "how", "type", "operands"} |-> n[i]]
BY DEF Node

LEMMA RemadeBoth ==
  ASSUME NEW e, IsNode(e), NEW t, NEW ops
  PROVE  [e EXCEPT !.operands = ops, !.type = t] = Remade(e, t, ops)
<1> DEFINE m == [e EXCEPT !.operands = ops]
           n == [e EXCEPT !.operands = ops, !.type = t]
<1>1. e = [i \in {"op", "how", "type", "operands"} |-> e[i]]
  BY FieldsOfNode DEF IsNode
<1>2. m = Remade(e, e.type, ops)
  BY ONLY <1>1 DEF Node, Remade
<1>3. m = [i \in {"op", "how", "type", "operands"} |-> m[i]] /\ m.op = e.op /\ m.how = e.how /\ m.operands = ops
  BY <1>2, FieldsOfNode DEF Remade, Node
<1>4. n = [m EXCEPT !.type = t]
  OBVIOUS
<1> HIDE DEF m, n
<1>5. [m EXCEPT !.type = t] = Remade(e, t, ops)
  BY ONLY <1>3 DEF Node, Remade
<1> QED
  BY <1>4, <1>5 DEF n

LEMMA RemadeOperands ==
  ASSUME NEW e, IsNode(e), NEW ops
  PROVE  [e EXCEPT !.operands = ops] = Remade(e, e.type, ops)
<1>1. e = [i \in {"op", "how", "type", "operands"} |-> e[i]]
  BY FieldsOfNode DEF IsNode
<1> QED
  BY ONLY <1>1 DEF Node, Remade

LEMMA RemadeFields ==
  ASSUME NEW e, NEW t, NEW ops, NEW n, n = Remade(e, t, ops)
  PROVE  IsNode(n) /\ n.op = e.op /\ n.how = e.how /\ n.type = t /\ n.operands = ops
BY DEF IsNode, Node, Remade

\* The kind of the branches of a ternary of numbers.
Branched(l, r) == IF {l, r} \subseteq Integral THEN Joint(l, r) ELSE Floated(l, r)

LEMMA BranchedKind ==
  ASSUME NEW l \in Numeric, NEW r \in Numeric
  PROVE  Branched(l, r) = Branched(r, l) /\ Branched(l, r) \in Numeric
<1>1. CASE l \in Integral /\ r \in Integral
  <2>1. Branched(l, r) = Joint(l, r) /\ Branched(r, l) = Joint(r, l)
    BY <1>1 DEF Branched
  <2> QED
    BY <1>1, <2>1, JointKind, Kinds
<1>2. CASE ~(l \in Integral /\ r \in Integral)
  <2>1. Branched(l, r) = Floated(l, r) /\ Branched(r, l) = Floated(r, l) /\ (l \in Floats \/ r \in Floats)
    BY <1>2, Kinds DEF Branched
  <2>2. Floated(l, r) = Floated(r, l) /\ Floated(l, r) \in Floats
    BY ONLY <2>1, l \in Numeric, r \in Numeric, FloatedKind
  <2>3. \A k \in Floats : k \in Numeric
    BY Kinds
  <2> QED
    BY ONLY <2>1, <2>2, <2>3
<1> QED
  BY <1>1, <1>2

NullPair(a, b) ==
  \/ a.type = Str /\ IsNullLiteral(b)
  \/ IsNullLiteral(a) /\ b.type = Str

\* How an analysis ends that compares two types of one kind that are not equal.
Refusal(p, q) == IF Equivalent[p][q] = "undefined" THEN "undefined" ELSE "fail"

TernarySays(e, c, a, b, t) ==
  LET l == Kind(a.type)
      r == Kind(b.type)
      k == Branched(l, r)
      Typed(type) == Done(Remade(e, type, <<c.e, a, b>>))
  IN /\ c.end # "done" => t = c
     /\ c.end = "done" /\ l = r /\ l \in {"OBJECT", "ARRAY", "BLOCKREF"} =>
          t = IF a.type = NullType THEN Typed(b.type)
                ELSE IF b.type = NullType \/ a.type = b.type THEN Typed(a.type) ELSE Ends(Refusal(a.type, b.type))
     /\ c.end = "done" /\ l \in Numeric /\ r \in Numeric =>
          t = Done(Remade(e, <<k>>, <<c.e, Wrapped(k, a), Wrapped(k, b)>>))
     /\ c.end = "done" /\ l = r /\ l \in {"BOOL", "STRING"} => t = Typed(<<l>>)
     /\ c.end = "done" /\ NullPair(a, b) => t = Typed(Str)
     /\ /\ c.end = "done" /\ ~(l \in Numeric /\ r \in Numeric) /\ ~NullPair(a, b)
        /\ l # r \/ l \notin {"OBJECT", "ARRAY", "BLOCKREF", "BOOL", "STRING"}
        => t = IF l = "VOID" \/ r = "VOID" THEN Typed(Void) ELSE Ends("fail")

LEMMA TernaryRowIs ==
  ASSUME NEW a, NEW b, NEW l, NEW r, l = Kind(a.type), r = Kind(b.type), NEW row, row = TernaryRow(a, b)
  PROVE  /\ l \in Numeric /\ r \in Numeric => row = Regular(Branched(l, r), l, r)
         /\ l = r /\ l \in {"BOOL", "STRING"} => row = Row(l, <<>>)
         /\ ~(l \in Numeric /\ r \in Numeric) /\ ~(l = r /\ l \in {"BOOL", "STRING"}) =>
              row = IF NullPair(a, b) THEN Row("STRING", <<>>) ELSE Unsupported
<1>1. /\ {l, r} \subseteq Integral <=> l \in Integral /\ r \in Integral
      /\ {l, r} \subseteq Numeric <=> l \in Numeric /\ r \in Numeric
      /\ \A k \in Integral : k \in Numeric
      /\ \A k \in Numeric : k \in Integral \/ k \in Floats
      /\ \A k \in Numeric : k \notin {"BOOL", "STRING"}
  BY Kinds, NumericKinds DEF OtherKinds
<1>2. ASSUME l \in Numeric, r \in Numeric
      PROVE  row = Regular(Branched(l, r), l, r)
  <2>1. CASE l \in Integral /\ r \in Integral
    <3>1. row = ConversionRow(l, r)
      BY <1>1, <2>1 DEF TernaryRow
    <3> QED
      BY <1>1, <2>1, <3>1, ConversionRegular DEF Branched
  <2>2. CASE ~(l \in Integral /\ r \in Integral)
    <3>1. row = FloatRow(l, r) /\ (l \in Floats \/ r \in Floats)
      BY <1>1, <1>2, <2>2 DEF TernaryRow
    <3> QED
      BY <1>1, <1>2, <2>2, <3>1, FloatRegular DEF Branched
  <2> QED
    BY <2>1, <2>2
<1>3. ASSUME l = r, l \in {"BOOL", "STRING"}
      PROVE  row = Row(l, <<>>)
  BY <1>1, <1>3 DEF TernaryRow
<1>4. ASSUME ~(l \in Numeric /\ r \in Numeric), ~(l = r /\ l \in {"BOOL", "STRING"})
      PROVE  row = IF NullPair(a, b) THEN Row("STRING", <<>>) ELSE Unsupported
  <2>1. row = NullRow(a, b)
    BY <1>1, <1>4 DEF TernaryRow
  <2> QED
    <3>1. CASE NullPair(a, b)
      BY ONLY <2>1, <3>1 DEF NullRow, NullPair
    <3>2. CASE ~NullPair(a, b)
      BY ONLY <2>1, <3>2 DEF NullRow, NullPair, IsNullLiteral
    <3> QED
      BY <3>1, <3>2
<1> QED
  BY <1>2, <1>3, <1>4

LEMMA TernaryIs ==
  ASSUME NEW e, IsNode(e), NEW c0, NEW a \in LeafNodes, NEW b \in LeafNodes, e.operands = <<c0, a, b>>
  PROVE  TernarySays(e, Converted(c0, Bool), a, b, Ternary(e))
<1> DEFINE l == Kind(a.type)
           r == Kind(b.type)
           k == Branched(l, r)
           c == Converted(c0, Bool)
           row == TernaryRow(a, b)
           same == Equivalent[a.type][b.type]
           refused == Refusal(a.type, b.type)
           kinds == <<l, r>>
           alike == kinds \in {<<j, j>> : j \in {"OBJECT", "ARRAY", "BLOCKREF"}}
           Typed(type) == Done(Remade(e, type, <<c.e, a, b>>))
           Given(type) == Done([e EXCEPT !.operands[1] = c.e, !.type = type])
           made == Replaced(<<c.e, a, b>>, row, 1)
           rebuilt == Then(made, LAMBDA ops : [e EXCEPT !.operands = ops, !.type = <<row.kind>>])
           t == Ternary(e)
<1>1. e.operands[1] = c0 /\ e.operands[2] = a /\ e.operands[3] = b
  OBVIOUS
<1>2. /\ alike <=> l = r /\ l \in {"OBJECT", "ARRAY", "BLOCKREF"}
      /\ "VOID" \in {kinds[1], kinds[2]} <=> l = "VOID" \/ r = "VOID"
  OBVIOUS
<1>3. same = "yes" <=> a.type = b.type
  <2>1. a.type \in AllTypes /\ b.type \in AllTypes
    BY LeafIs
  <2> QED
    BY ONLY <2>1, EquivalentIsEqual
<1>4. ASSUME NEW type
      PROVE  Given(type) = Typed(type)
  <2> HIDE DEF c
  <2>1. [e EXCEPT !.operands[1] = c.e, !.type = type] = Remade(e, type, <<c.e, a, b>>)
    <3> DEFINE w == [e.operands EXCEPT ![1] = c.e]
    <3>1. w = <<c.e, a, b>>
      OBVIOUS
    <3>2. [e EXCEPT !.operands = w, !.type = type] = Remade(e, type, w)
      BY ONLY IsNode(e), RemadeBoth
    <3>3. [e EXCEPT !.operands[1] = c.e, !.type = type] = [e EXCEPT !.operands = w, !.type = type]
      OBVIOUS
    <3> QED
      BY ONLY <3>1, <3>2, <3>3
  <2> QED
    BY ONLY <2>1
<1>5. t = CASE c.end # "done" -> c
            [] c.end = "done" /\ alike ->
                 (CASE a.type = NullType -> Given(b.type)
                    [] a.type # NullType /\ (b.type = NullType \/ same = "yes") -> Given(a.type)
                    [] OTHER -> Ends(refused))
            [] c.end = "done" /\ row # Unsupported -> rebuilt
            [] OTHER ->
                 IF c.end = "done" /\ "VOID" \in {kinds[1], kinds[2]} THEN Given(Void) ELSE Ends("fail")
  BY <1>1 DEF Ternary, Refusal
<1>6. rebuilt = IF made.end = "done" THEN Done([e EXCEPT !.operands = made.e, !.type = <<row.kind>>]) ELSE made
  BY DEF Then
<1>7. Done([e EXCEPT !.operands = made.e, !.type = <<row.kind>>]) = Done(Remade(e, <<row.kind>>, made.e))
  <2> HIDE DEF made, row
  <2>1. [e EXCEPT !.operands = made.e, !.type = <<row.kind>>] = Remade(e, <<row.kind>>, made.e)
    BY ONLY IsNode(e), RemadeBoth
  <2> QED
    BY ONLY <2>1
<1>8. /\ \A x : Done(x).e = x /\ Done(x).end = "done"
      /\ \A x, y : Row(x, y).kind = x
      /\ \A x, y : x # "VOID" => Row(x, y) # Unsupported
  <2>1. \A x, y : Row(x, y).kind = x
    BY DEF Row
  <2> QED
    BY <2>1 DEF Done, Unsupported
<1>9. /\ l \in Numeric /\ r \in Numeric => row = Regular(k, l, r)
      /\ l = r /\ l \in {"BOOL", "STRING"} => row = Row(l, <<>>)
      /\ ~(l \in Numeric /\ r \in Numeric) /\ ~(l = r /\ l \in {"BOOL", "STRING"}) =>
           row = IF NullPair(a, b) THEN Row("STRING", <<>>) ELSE Unsupported
  <2> HIDE DEF row, l, r
  <2>1. l = Kind(a.type) /\ r = Kind(b.type) /\ row = TernaryRow(a, b)
    BY DEF row, l, r
  <2> QED
    BY <2>1, TernaryRowIs
<1>10. /\ l \in Numeric /\ r \in Numeric => made = Done(<<c.e, Wrapped(k, a), Wrapped(k, b)>>)
       /\ \A j : row = Row(j, <<>>) => made = Done(<<c.e, a, b>>)
  <2>1. ASSUME NEW j, row = Row(j, <<>>)
        PROVE  made = Done(<<c.e, a, b>>)
    <3> HIDE DEF row, c
    <3>1. <<c.e, a, b>> \in [1 .. 3 -> ToSet(<<c.e, a, b>>)] /\ 3 \in Nat
      BY DEF ToSet
    <3> QED
      BY <2>1, <3>1, ReplacedNone
  <2>2. ASSUME l \in Numeric, r \in Numeric
        PROVE  made = Done(<<c.e, Wrapped(k, a), Wrapped(k, b)>>)
    <3>1. row = Regular(k, l, r)
      BY <1>9, <2>2
    <3> HIDE DEF row, c, k
    <3> QED
      BY <3>1, ReplacedBranches
  <2> QED
    BY <2>1, <2>2
<1>11. NullPair(a, b) => l # r /\ "STRING" \in {l, r} /\ "OBJECT" \in {l, r}
  BY DEF NullPair, IsNullLiteral, NullType, Str, Kind, ObjectOf
<1>12. \A j \in Numeric : j \notin {"BOOL", "STRING", "VOID", "OBJECT", "ARRAY", "BLOCKREF"}
  BY NumericKinds DEF OtherKinds
<1>13. l \in Numeric /\ r \in Numeric => k \in Numeric
  BY BranchedKind
<1>14. Regular(k, l, r).kind = k /\ (k # "VOID" => Regular(k, l, r) # Unsupported)
  BY <1>8 DEF Regular
<1> HIDE DEF t, c, row, same, refused, kinds, l, r, k, alike, made, rebuilt, Typed, Given
<1>15. c.end # "done" => t = c
  BY ONLY <1>5
<1>16. ASSUME c.end = "done", l = r, l \in {"OBJECT", "ARRAY", "BLOCKREF"}
       PROVE  t = IF a.type = NullType THEN Typed(b.type)
                    ELSE IF b.type = NullType \/ a.type = b.type THEN Typed(a.type) ELSE Ends(refused)
  <2>1. row = Unsupported
    BY <1>9, <1>11, <1>12, <1>16
  <2>2. t = CASE a.type = NullType -> Given(b.type)
              [] a.type # NullType /\ (b.type = NullType \/ same = "yes") -> Given(a.type)
              [] OTHER -> Ends(refused)
    BY ONLY <1>2, <1>5, <1>16, <2>1
  <2> QED
    BY ONLY <1>3, <1>4, <2>2
<1>17. ASSUME c.end = "done", ~alike, NEW j, j # "VOID", row # Unsupported, row.kind = j, NEW ops, made = Done(ops)
       PROVE  t = Done(Remade(e, <<j>>, ops))
  <2>1. t = rebuilt
    BY ONLY <1>5, <1>17
  <2>2. made.end = "done" /\ made.e = ops
    BY <1>8, <1>17
  <2> QED
    BY ONLY <1>6, <1>7, <1>17, <2>1, <2>2
<1>18. ASSUME c.end = "done", l \in Numeric, r \in Numeric
       PROVE  t = Done(Remade(e, <<k>>, <<c.e, Wrapped(k, a), Wrapped(k, b)>>))
  BY <1>2, <1>9, <1>10, <1>12, <1>13, <1>14, <1>17, <1>18
<1>19. ASSUME c.end = "done", l = r, l \in {"BOOL", "STRING"}
       PROVE  t = Typed(<<l>>)
  BY <1>2, <1>8, <1>9, <1>10, <1>17, <1>19 DEF Typed
<1>20. ASSUME c.end = "done", NullPair(a, b)
       PROVE  t = Typed(Str)
  BY <1>2, <1>8, <1>9, <1>10, <1>11, <1>12, <1>17, <1>20 DEF Typed, Str
<1>21. ASSUME c.end = "done", ~(l \in Numeric /\ r \in Numeric), ~NullPair(a, b),
              l # r \/ l \notin {"OBJECT", "ARRAY", "BLOCKREF", "BOOL", "STRING"}
       PROVE  t = IF l = "VOID" \/ r = "VOID" THEN Typed(Void) ELSE Ends("fail")
  <2>1. row = Unsupported /\ ~alike
    BY <1>2, <1>9, <1>21
  <2> QED
    BY ONLY <1>2, <1>4, <1>5, <1>21, <2>1
<1>22. TernarySays(e, c, a, b, t)
  BY <1>15, <1>16, <1>18, <1>19, <1>20, <1>21 DEF TernarySays, l, r, k, refused, Typed
<1> QED
  BY <1>22 DEF c, t

LEMMA TernaryOutcome ==
  ASSUME NEW e, IsNode(e), NEW c0 \in LeafNodes, NEW a \in LeafNodes, NEW b \in LeafNodes, e.operands = <<c0, a, b>>,
         e.op = "TERNARY", Ternary(e).end = "done"
  PROVE  Outcome(e, Ternary(e).e)
<1> DEFINE l == Kind(a.type)
           r == Kind(b.type)
           k == Branched(l, r)
           c == Converted(c0, Bool)
           t == Ternary(e)
<1>1. TernarySays(e, c, a, b, t) /\ t.end = "done"
  BY TernaryIs
<1> SUFFICES Outcome(e, t.e)
  OBVIOUS
<1>2. a.type \in AllTypes /\ b.type \in AllTypes /\ Bool \in AllTypes
  BY LeafIs, OneTypes
<1>3. (\A x : Done(x).e = x) /\ Ends("fail").end = "fail"
  BY DEF Done, Ends
<1> HIDE DEF t, c
<1>4. c.end = "done"
  BY <1>1 DEF TernarySays
<1>5. OperandOf(c.e, c0) /\ c.e.type = Bool
  <2>1. Stands(c.e, c0, Bool)
    BY <1>2, <1>4, ConvertedStands DEF c
  <2> QED
    BY <1>2, <2>1, StandsOperand, StandsBool
<1>6. Expected(e) = <<c0, a, b>>
  BY ExpectedSame
<1>7. ASSUME NEW type \in AllTypes, NEW x, NEW y, OperandOf(x, a), OperandOf(y, b),
             type = Void \/ (Fits(x, type) /\ Fits(y, type)), t = Done(Remade(e, type, <<c.e, x, y>>))
      PROVE  Outcome(e, t.e)
  <2> DEFINE n == Remade(e, type, <<c.e, x, y>>)
  <2>1. n.op = "TERNARY" /\ n.type = type /\ n.operands = <<c.e, x, y>>
    BY DEF Remade, Node
  <2> HIDE DEF n
  <2>2. Types(n.operands)[1] = Bool
    BY <1>5, <2>1 DEF Types
  <2>3. n.type # Void => \A i \in 2 .. 3 : Fits(n.operands[i], n.type)
    BY <1>7, <2>1
  <2>4. SoundNode(n)
    BY <2>1, <2>2, <2>3 DEF SoundNode, Accepted, NodeFits
  <2>5. Outcome(e, n)
    BY <1>5, <1>6, <1>7, <2>1, <2>4, OutcomeOfThree
  <2> QED
    BY <1>3, <1>7, <2>5 DEF n
<1>8. OperandOf(a, a) /\ OperandOf(b, b)
  BY LeafOperand
<1>9. ASSUME NEW type \in AllTypes, type = Void \/ (Fits(a, type) /\ Fits(b, type)), t = Done(Remade(e, type, <<c.e, a, b>>))
      PROVE  Outcome(e, t.e)
  BY <1>7, <1>8, <1>9
<1>10. CASE l = r /\ l \in {"OBJECT", "ARRAY", "BLOCKREF"}
  <2>1. t = IF a.type = NullType THEN Done(Remade(e, b.type, <<c.e, a, b>>))
              ELSE IF b.type = NullType \/ a.type = b.type THEN Done(Remade(e, a.type, <<c.e, a, b>>))
                ELSE Ends(Refusal(a.type, b.type))
    BY <1>1, <1>4, <1>10 DEF TernarySays
  <2>1a. Ends(Refusal(a.type, b.type)).end # "done"
    BY DEF Ends, Refusal
  <2>2. Kind(NullType) = "OBJECT"
    BY DEF NullType, ObjectOf, Kind
  <2>3. a.type = NullType => Fits(a, b.type) /\ Fits(b, b.type)
    BY <1>10, <2>2 DEF Fits
  <2>4. b.type = NullType \/ a.type = b.type => Fits(a, a.type) /\ Fits(b, a.type)
    BY <1>10, <2>2 DEF Fits
  <2> QED
    BY <1>1, <1>2, <1>3, <1>9, <2>1, <2>1a, <2>3, <2>4
<1>11. CASE l \in Numeric /\ r \in Numeric
  <2> DEFINE x == Wrapped(k, a)
             y == Wrapped(k, b)
  <2>1. t = Done(Remade(e, <<k>>, <<c.e, x, y>>))
    BY <1>1, <1>4, <1>11 DEF TernarySays
  <2>2. k \in Numeric
    BY <1>11, BranchedKind
  <2> HIDE DEF k
  <2>3. Stands(x, a, <<k>>) /\ Stands(y, b, <<k>>) /\ <<k>> \in AllTypes
    BY <1>11, <2>2, WrappedStands
  <2> HIDE DEF x, y
  <2>4. OperandOf(x, a) /\ OperandOf(y, b) /\ Fits(x, <<k>>) /\ Fits(y, <<k>>)
    BY <2>3, StandsOperand, StandsIs
  <2> QED
    BY <1>7, <2>1, <2>3, <2>4
<1>12. CASE l = r /\ l \in {"BOOL", "STRING"}
  <2>1. t = Done(Remade(e, <<l>>, <<c.e, a, b>>))
    BY <1>1, <1>4, <1>12 DEF TernarySays
  <2>2. a.type = <<l>> /\ b.type = <<l>>
    BY <1>2, <1>12, KindFacts DEF Bool, Str
  <2> QED
    BY <1>2, <1>9, <2>1, <2>2 DEF Fits
<1>13. CASE NullPair(a, b)
  <2>1. t = Done(Remade(e, Str, <<c.e, a, b>>))
    BY <1>1, <1>4, <1>13 DEF TernarySays
  <2>2. Fits(a, Str) /\ Fits(b, Str)
    BY <1>13 DEF NullPair, Fits
  <2> QED
    BY <1>9, <2>1, <2>2, OneTypes
<1>14. CASE /\ ~(l \in Numeric /\ r \in Numeric) /\ ~NullPair(a, b)
            /\ l # r \/ l \notin {"OBJECT", "ARRAY", "BLOCKREF", "BOOL", "STRING"}
  <2>1. t = IF l = "VOID" \/ r = "VOID" THEN Done(Remade(e, Void, <<c.e, a, b>>)) ELSE Ends("fail")
    BY <1>1, <1>4, <1>14 DEF TernarySays
  <2>2. Void \in AllTypes
    BY OneTypes
  <2> QED
    BY <1>1, <1>3, <1>9, <2>1, <2>2
<1> QED
  BY <1>10, <1>11, <1>12, <1>13, <1>14

LEMMA IndexOutcome ==
  ASSUME NEW e, IsNode(e), NEW a \in LeafNodes, NEW b \in LeafNodes,
         \/ e.op = "GET_INDEX" /\ e.operands = <<a, b>>
         \/ e.op = "SET_INDEX" /\ \E d \in LeafNodes : e.operands = <<a, b, d>>,
         Index(e).end = "done"
  PROVE  Outcome(e, Index(e).e)
<1> DEFINE array == a.type
           element == IF array = Str THEN <<"U8">> ELSE array[2]
           fits == Kind(array) \in {"ARRAY", "STRING"} /\ IsInteger(b.type)
           x == Index(e)
           got == [e EXCEPT !.type = element]
           v == Converted(e.operands[3], element)
           set == [e EXCEPT !.operands[3] = v.e, !.type = element]
<1>1. e.operands[1] = a /\ e.operands[2] = b
  OBVIOUS
<1>2. x = CASE ~fits -> Ends("fail")
            [] fits -> (CASE e.op = "GET_INDEX" -> Done(got)
                          [] e.op = "SET_INDEX" /\ array = Str -> Ends("fail")
                          [] e.op = "SET_INDEX" /\ array # Str -> IF v.end = "done" THEN Done(set) ELSE v)
  BY <1>1 DEF Index, Then
<1>3. (\A y : Done(y).e = y) /\ Ends("fail").end = "fail" /\ x.end = "done"
  BY DEF Done, Ends
<1>4. fits => element \in AllTypes /\ (array # Str => array = ArrayOf(element))
  <2>1. a.type \in AllTypes
    BY LeafIs
  <2>2. /\ Kind(array) = "STRING" <=> array = Str
        /\ Kind(array) = "ARRAY" => array = ArrayOf(array[2]) /\ array[2] \in AllTypes
    BY <2>1, KindFacts
  <2> QED
    BY <2>2, OneTypes
<1>5. got.op = e.op /\ got.type = element /\ got.operands = e.operands
  <2> HIDE DEF element
  <2> QED
    BY NodeExcept
<1> SUFFICES Outcome(e, x.e)
  OBVIOUS
<1>6. CASE e.op = "GET_INDEX"
  <2> HIDE DEF x, got, set, v, element, fits
  <2>1. fits /\ x = Done(got)
    BY <1>2, <1>3, <1>6
  <2>2. SoundNode(got)
    <3>1. Types(got.operands) = <<array, b.type>>
      BY <1>5, <1>6, TypesAre
    <3>2. IsInteger(b.type) /\ (array = ArrayOf(element) \/ (array = Str /\ element = <<"U8">>))
      BY <1>4, <2>1 DEF fits, element
    <3>3. NodeFits(got)
      BY <1>5, <1>6, <3>1, <3>2 DEF NodeFits
    <3> QED
      BY <1>5, <1>6, <3>3, OtherNode
  <2>3. e.operands \in Seq(LeafNodes)
    BY <1>6, LeafSequences
  <2>4. Outcome(e, got)
    BY <1>4, <1>5, <1>6, <2>1, <2>2, <2>3, SameOperands
  <2> QED
    BY <1>3, <2>1, <2>4
<1>7. CASE e.op = "SET_INDEX"
  <2>1. PICK d \in LeafNodes : e.operands = <<a, b, d>>
    BY <1>7
  <2>2. set.op = e.op /\ set.type = element /\ set.operands = <<a, b, v.e>>
    <3> HIDE DEF element, v
    <3> QED
      BY ONLY <2>1, IsNode(e), Replacing
  <2>3. v = Converted(d, element)
    <3>1. e.operands[3] = d
      BY <2>1
    <3> QED
      BY <3>1
  <2> HIDE DEF x, got, set, v, element, fits
  <2>4. fits /\ array # Str /\ v.end = "done" /\ x = Done(set)
    BY <1>2, <1>3, <1>7
  <2>5. Stands(v.e, d, element) /\ element \in AllTypes
    BY <1>4, <2>3, <2>4, ConvertedStands
  <2>6. OperandOf(v.e, d) /\ Fits(v.e, element) /\ OperandOf(a, a) /\ OperandOf(b, b)
    BY <2>5, StandsOperand, StandsIs, LeafOperand
  <2>7. Types(set.operands) = <<array, b.type, v.e.type>> /\ IsInteger(b.type)
    BY <2>2, <2>4, TypesAre DEF fits
  <2>8. set.operands[3] = v.e
    BY <2>2
  <2>9. SoundNode(set)
    <3> DEFINE types == Types(set.operands)
    <3>1. types[1] = ArrayOf(set.type) /\ IsInteger(types[2]) /\ Fits(set.operands[3], set.type)
      BY <1>4, <2>2, <2>4, <2>6, <2>7, <2>8
    <3> HIDE DEF types
    <3>2. NodeFits(set)
      BY <1>7, <2>2, <3>1 DEF NodeFits, types
    <3> QED
      BY <1>7, <2>2, <3>2, OtherNode
  <2>10. Expected(e) = <<a, b, d>>
    BY <1>7, <2>1, ExpectedSame
  <2>11. Outcome(e, set)
    BY <1>7, <2>2, <2>5, <2>6, <2>9, <2>10, OutcomeOfThree
  <2> QED
    BY <1>3, <2>4, <2>11
<1> QED
  BY <1>6, <1>7

-----------------------------------------------------------------------------
(* The walks through the classes that a class extends.                        *)
Ancestors == Classes \cup {NoClass}

LEMMA ClassInduction ==
  ASSUME NEW V, NEW f, NEW base \in SUBSET Ancestors, NoClass \in base,
         \A c \in base : f[c] \in V,
         \A c \in Ancestors \ base : f[Parent[c]] \in V => f[c] \in V
  PROVE  \A c \in Ancestors : f[c] \in V
<1>1. PICK depth \in [Classes -> 0 .. Cardinality(Classes)] :
         \A c \in Classes : Parent[c] \in Classes => depth[Parent[c]] < depth[c]
  BY ClassesAssumption
<1>2. IsFiniteSet(Classes) /\ Cardinality(Classes) \in Nat /\ \A c \in Classes : Parent[c] \in Ancestors /\ depth[c] \in Nat
  <2>1. Cardinality(Classes) \in Nat
    BY ClassesAssumption, FS_CardinalityType
  <2> QED
    BY <2>1, ClassesAssumption DEF Ancestors
<1> DEFINE S == {depth[c] : c \in {c \in Classes : f[c] \notin V}}
<1>3. S \in SUBSET Nat
  BY <1>2
<1>4. ASSUME NEW n \in S
      PROVE  \E m \in S : m < n
  <2>1. PICK c \in Classes : f[c] \notin V /\ n = depth[c]
    OBVIOUS
  <2>2. c \in Ancestors \ base
    BY <2>1 DEF Ancestors
  <2>3. f[Parent[c]] \notin V
    BY <2>1, <2>2
  <2>4. Parent[c] \in Classes
    <3>1. Parent[c] # NoClass
      BY <2>3
    <3> QED
      BY <1>2, <3>1 DEF Ancestors
  <2>5. depth[Parent[c]] < depth[c] /\ depth[Parent[c]] \in S
    BY <1>1, <2>3, <2>4
  <2> QED
    BY <2>1, <2>5
<1>5. S = {}
  <2> HIDE DEF S
  <2> QED
    BY ONLY <1>3, <1>4, NoLeastNoElement
<1>6. \A c \in Classes : f[c] \in V
  BY <1>5
<1>7. f[NoClass] \in V
  OBVIOUS
<1> QED
  BY <1>6, <1>7 DEF Ancestors

LEMMA ClassRecursion ==
  ASSUME NEW V, NEW base \in SUBSET Ancestors, NoClass \in base,
         NEW val \in [base -> V], NEW g \in [Classes -> [V -> V]]
  PROVE  \E f \in [Ancestors -> V] :
           \A c \in Ancestors : f[c] = IF c \in base THEN val[c] ELSE g[c][f[Parent[c]]]
<1>1. PICK depth \in [Classes -> 0 .. Cardinality(Classes)] :
         \A c \in Classes : Parent[c] \in Classes => depth[Parent[c]] < depth[c]
  BY ClassesAssumption
<1> DEFINE N == Cardinality(Classes)
           Step(f, c) == IF c \in base THEN val[c] ELSE g[c][f[Parent[c]]]
           Upto(k) == base \cup {c \in Classes : depth[c] < k}
           Fine(f, k) == \A c \in Upto(k) : f[c] = Step(f, c)
           F == [Ancestors -> V]
           S == {k \in 0 .. N + 1 : ~ \E f \in F : Fine(f, k)}
<1>2. N \in Nat /\ \A c \in Classes : Parent[c] \in Ancestors /\ depth[c] \in Nat /\ depth[c] <= N
  <2>1. Cardinality(Classes) \in Nat
    BY ClassesAssumption, FS_CardinalityType
  <2> QED
    BY <2>1, ClassesAssumption DEF Ancestors
<1>3. ASSUME NEW f \in F, NEW c \in Ancestors
      PROVE  Step(f, c) \in V
  <2>1. CASE c \in base
    BY <2>1
  <2>2. CASE c \notin base
    <3>1. c \in Classes
      BY <2>2 DEF Ancestors
    <3>2. f[Parent[c]] \in V
      BY <1>2, <3>1
    <3>3. g[c] \in [V -> V]
      BY <3>1
    <3> QED
      BY <2>2, <3>2, <3>3
  <2> QED
    BY <2>1, <2>2
<1>4. \E f \in F : Fine(f, 0)
  <2> DEFINE f == [c \in Ancestors |-> IF c \in base THEN val[c] ELSE val[NoClass]]
  <2>1. f \in F
    OBVIOUS
  <2>2. Upto(0) = base
    BY <1>2
  <2>3. \A c \in base : f[c] = Step(f, c)
    OBVIOUS
  <2> QED
    BY <2>1, <2>2, <2>3
<1>5. ASSUME NEW k \in 0 .. N, NEW f \in F, Fine(f, k)
      PROVE  \E h \in F : Fine(h, k + 1)
  <2> DEFINE h == [c \in Ancestors |-> Step(f, c)]
  <2>1. h \in F
    BY <1>3
  <2>2. \A c \in Upto(k) : h[c] = f[c]
    <3>1. Upto(k) \subseteq Ancestors
      BY DEF Ancestors
    <3> HIDE DEF Step, Upto
    <3> QED
      BY <1>5, <3>1
  <2>3. ASSUME NEW c \in Upto(k + 1)
        PROVE  h[c] = Step(h, c)
    <3>1. c \in Ancestors /\ h[c] = Step(f, c)
      BY DEF Ancestors
    <3>2. CASE c \in base
      BY <3>1, <3>2
    <3>3. CASE c \notin base
      <4>1. c \in Classes /\ depth[c] < k + 1
        BY <3>3
      <4>2. Parent[c] \in Upto(k)
        <5>1. CASE Parent[c] = NoClass
          BY <5>1
        <5>2. CASE Parent[c] # NoClass
          <6>1. Parent[c] \in Classes
            BY <1>2, <4>1, <5>2 DEF Ancestors
          <6>2. depth[Parent[c]] < depth[c] /\ depth[Parent[c]] \in Nat /\ depth[c] \in Nat
            BY <1>1, <1>2, <4>1, <6>1
          <6>3. depth[Parent[c]] < k
            BY <4>1, <6>2
          <6> QED
            BY <6>1, <6>3
        <5> QED
          BY <5>1, <5>2
      <4> HIDE DEF h, Upto
      <4>3. h[Parent[c]] = f[Parent[c]]
        BY <2>2, <4>2
      <4> QED
        BY <3>1, <4>3
    <3> QED
      BY <3>2, <3>3
  <2> HIDE DEF h, Step, Upto, F
  <2> QED
    BY <2>1, <2>3
<1> HIDE DEF Fine, F
<1>6. ASSUME NEW n \in S
      PROVE  \E m \in S : m < n
  <2>1. n \in 0 .. N + 1 /\ ~ \E f \in F : Fine(f, n)
    OBVIOUS
  <2>2. n # 0
    BY <1>4, <2>1
  <2>3. n - 1 \in 0 .. N /\ (n - 1) + 1 = n /\ n - 1 < n /\ n - 1 \in 0 .. N + 1
    BY <1>2, <2>1, <2>2
  <2>4. n - 1 \in S
    BY <1>5, <2>1, <2>3
  <2> QED
    BY <2>3, <2>4
<1>7. S = {}
  <2> HIDE DEF S
  <2>1. S \in SUBSET Nat
    BY <1>2 DEF S
  <2> QED
    BY ONLY <1>6, <2>1, NoLeastNoElement
<1>8. N + 1 \in 0 .. N + 1
  BY <1>2
<1>9. PICK f \in F : Fine(f, N + 1)
  BY <1>7, <1>8
<1>10. Upto(N + 1) = Ancestors
  BY <1>2 DEF Ancestors
<1> HIDE DEF Upto
<1> QED
  BY <1>9, <1>10 DEF Fine, F

LEMMA OwnerHas ==
  ASSUME NEW name, NEW class \in Ancestors
  PROVE  /\ Owner(class, name) \in Ancestors
         /\ Owner(class, name) # NoClass => Has(Owner(class, name), name)
         /\ Owner(class, name) = IF class = NoClass \/ Has(class, name) THEN class ELSE Owner(Parent[class], name)
<1> DEFINE D == Classes \cup {NoClass}
           Walk(f, c) == IF c = NoClass \/ Has(c, name) THEN c ELSE f[Parent[c]]
           IsOwner(f) == f = [c \in D |-> Walk(f, c)]
           owner == CHOOSE f : IsOwner(f)
           base == {c \in Ancestors : c = NoClass \/ Has(c, name)}
<1>1. \A c : Owner(c, name) = owner[c]
  BY DEF Owner
<1>2. \A c \in Classes : Parent[c] \in Ancestors
  BY ClassesAssumption DEF Ancestors
<1>3. \E f : IsOwner(f)
  <2> DEFINE val == [c \in base |-> c]
             g == [c \in Classes |-> [v \in Ancestors |-> v]]
  <2>1. val \in [base -> Ancestors] /\ g \in [Classes -> [Ancestors -> Ancestors]] /\ base \in SUBSET Ancestors /\ NoClass \in base
    BY DEF Ancestors
  <2>2. PICK f \in [Ancestors -> Ancestors] :
          \A c \in Ancestors : f[c] = IF c \in base THEN val[c] ELSE g[c][f[Parent[c]]]
    <3> HIDE DEF val, g, base
    <3> QED
      <4> DEFINE V == Ancestors
      <4>1. val \in [base -> V] /\ g \in [Classes -> [V -> V]] /\ base \in SUBSET Ancestors /\ NoClass \in base
        BY <2>1
      <4> HIDE DEF V
      <4>2. \E f \in [Ancestors -> V] :
              \A c \in Ancestors : f[c] = IF c \in base THEN val[c] ELSE g[c][f[Parent[c]]]
        BY ONLY <4>1, ClassRecursion
      <4> QED
        BY ONLY <4>2 DEF V
  <2>3. \A c \in D : f[c] = Walk(f, c)
    <3>1. SUFFICES ASSUME NEW c \in Ancestors
                   PROVE  f[c] = Walk(f, c)
      BY DEF Ancestors
    <3>2. CASE c \in base
      BY <2>2, <3>2
    <3>3. CASE c \notin base
      <4>1. c \in Classes /\ ~(c = NoClass \/ Has(c, name)) /\ f[Parent[c]] \in Ancestors
        BY <1>2, <3>3 DEF Ancestors
      <4>2. f[c] = g[c][f[Parent[c]]]
        BY <2>2, <3>3
      <4> QED
        BY <4>1, <4>2
    <3> QED
      BY <3>2, <3>3
  <2>4. IsOwner(f)
    <3> HIDE DEF Walk
    <3> QED
      BY ONLY <2>2, <2>3 DEF Ancestors
  <2> QED
    BY <2>4
<1>4. IsOwner(owner)
  <2> HIDE DEF IsOwner
  <2> QED
    BY <1>3
<1> HIDE DEF owner
<1>5. \A c \in Ancestors : owner[c] = Walk(owner, c)
  BY <1>4 DEF Ancestors
<1>6. /\ base \in SUBSET Ancestors /\ NoClass \in base /\ \A c \in base : owner[c] \in base
      /\ \A c \in Ancestors \ base : owner[Parent[c]] \in base => owner[c] \in base
  BY <1>5 DEF Ancestors
<1>7. \A c \in Ancestors : owner[c] \in base
  <2> HIDE DEF base
  <2> QED
    BY <1>6, ClassInduction
<1>8. owner[class] = IF class = NoClass \/ Has(class, name) THEN class ELSE owner[Parent[class]]
  BY <1>5
<1> QED
  BY <1>1, <1>7, <1>8

LEMMA InheritsIs ==
  ASSUME NEW class \in Classes, NEW from \in Ancestors
  PROVE  Inherits[class][from] =
           (Parent[class] # NoClass /\ (Parent[class] = from \/ Inherits[Parent[class]][from]))
<1> DEFINE D == Classes \cup {NoClass}
           Line(f, c) == [d \in D |-> Parent[c] # NoClass /\ (Parent[c] = d \/ f[Parent[c]][d])]
           IsInherits(f) == f = [c \in Classes |-> Line(f, c)]
           V == [Ancestors -> BOOLEAN]
           base == {NoClass}
           val == [c \in base |-> [d \in Ancestors |-> FALSE]]
           g == [c \in Classes |-> [v \in V |-> [d \in Ancestors |-> Parent[c] # NoClass /\ (Parent[c] = d \/ v[d])]]]
<1>1. Inherits = CHOOSE f : IsInherits(f)
  BY DEF Inherits
<1>2. base \in SUBSET Ancestors /\ NoClass \in base /\ val \in [base -> V] /\ g \in [Classes -> [V -> V]]
  BY DEF Ancestors
<1>3. \A c \in Classes : c # NoClass /\ Parent[c] \in Ancestors
  BY ClassesAssumption DEF Ancestors
<1>4. PICK f \in [Ancestors -> V] : \A c \in Ancestors : f[c] = IF c \in base THEN val[c] ELSE g[c][f[Parent[c]]]
  <2> DEFINE W == V
  <2>1. base \in SUBSET Ancestors /\ NoClass \in base /\ val \in [base -> W] /\ g \in [Classes -> [W -> W]]
    BY <1>2
  <2> HIDE DEF W, val, g, base
  <2>2. \E f \in [Ancestors -> W] : \A c \in Ancestors : f[c] = IF c \in base THEN val[c] ELSE g[c][f[Parent[c]]]
    <3>1. base \in SUBSET Ancestors
      BY ONLY <2>1
    <3>2. NoClass \in base
      BY ONLY <2>1
    <3>3. val \in [base -> W]
      BY ONLY <2>1
    <3>4. g \in [Classes -> [W -> W]]
      BY ONLY <2>1
    <3> QED
      BY ONLY <3>1, <3>2, <3>3, <3>4, ClassRecursion, SMTT(120)
  <2> QED
    BY ONLY <2>2 DEF W
<1>5. ASSUME NEW c \in Classes
      PROVE  f[c] = Line(f, c)
  <2>1. f[Parent[c]] \in V /\ c \notin base /\ c \in Ancestors
    BY <1>3 DEF Ancestors
  <2>2. f[c] = g[c][f[Parent[c]]]
    BY <1>4, <2>1
  <2>3. g[c][f[Parent[c]]] = Line(f, c)
    BY <2>1 DEF Ancestors
  <2> QED
    BY <2>2, <2>3
<1> DEFINE h == [c \in Classes |-> f[c]]
<1>6. IsInherits(h)
  <2>1. ASSUME NEW c \in Classes
        PROVE  h[c] = Line(h, c)
    <3>1. Parent[c] # NoClass => h[Parent[c]] = f[Parent[c]]
      BY <1>3 DEF Ancestors
    <3>2. Line(h, c) = Line(f, c)
      BY <3>1
    <3> QED
      BY <1>5, <3>2
  <2> HIDE DEF Line
  <2> QED
    BY <2>1
<1>7. IsInherits(Inherits)
  <2> HIDE DEF IsInherits
  <2> QED
    BY ONLY <1>1, <1>6
<1>8. Inherits[class] = Line(Inherits, class)
  <2> HIDE DEF Line
  <2> QED
    BY ONLY <1>7, class \in Classes
<1> QED
  BY <1>8 DEF Ancestors

\* The class that has a field is the one it is asked of, or one it extends.
LEMMA OwnerInherits ==
  ASSUME NEW name, NEW class \in Ancestors
  PROVE  Owner(class, name) # NoClass =>
           Owner(class, name) = class \/ (class \in Classes /\ Inherits[class][Owner(class, name)])
<1> DEFINE Fine(c) == LET o == Owner(c, name)
                       IN  o = NoClass \/ o = c \/ (c \in Classes /\ Inherits[c][o])
           f == [c \in Ancestors |-> Fine(c)]
           base == {NoClass}
           V == {TRUE}
<1>1. \A c \in Ancestors : /\ Owner(c, name) \in Ancestors
                           /\ Owner(c, name) = IF c = NoClass \/ Has(c, name) THEN c ELSE Owner(Parent[c], name)
  BY OwnerHas
<1>2. \A c \in Classes : c # NoClass /\ Parent[c] \in Ancestors /\ c \in Ancestors
  BY ClassesAssumption DEF Ancestors
<1>3. base \in SUBSET Ancestors /\ NoClass \in base /\ \A c \in base : f[c] \in V
  <2>1. NoClass \in Ancestors /\ Fine(NoClass)
    BY <1>1 DEF Ancestors
  <2> HIDE DEF Fine
  <2> QED
    BY <2>1
<1>4. ASSUME NEW c \in Ancestors \ base, f[Parent[c]] \in V
      PROVE  f[c] \in V
  <2>1. c \in Classes /\ Parent[c] \in Ancestors
    BY <1>2 DEF Ancestors
  <2>2. Fine(Parent[c])
    <3> HIDE DEF Fine
    <3> QED
      BY <1>4, <2>1
  <2>3. \A d \in Ancestors : Inherits[c][d] = (Parent[c] # NoClass /\ (Parent[c] = d \/ Inherits[Parent[c]][d]))
    BY <2>1, InheritsIs
  <2>4. Fine(c)
    BY <1>1, <1>2, <2>1, <2>2, <2>3
  <2> HIDE DEF Fine
  <2> QED
    BY <2>1, <2>4
<1>5. \A c \in Ancestors : f[c] \in V
  <2> HIDE DEF f, V, base
  <2> QED
    BY <1>3, <1>4, ClassInduction
<1>6. Fine(class)
  <2> HIDE DEF Fine
  <2> QED
    BY <1>5
<1> QED
  BY <1>6

LEMMA AllFieldsType ==
  ASSUME NEW class \in Ancestors
  PROVE  AllFields[class] \in Seq(STRING \X AllTypes)
<1> DEFINE D == Classes \cup {NoClass}
           V == Seq(STRING \X AllTypes)
           Collect(f, c) == IF c = NoClass THEN <<>> ELSE f[Parent[c]] \o FieldsOf[c]
           Collects(f) == f = [c \in D |-> Collect(f, c)]
           base == {NoClass}
<1>1. AllFields = CHOOSE f : Collects(f)
  BY DEF AllFields
<1>2. /\ \A c \in Classes : Parent[c] \in Ancestors /\ FieldsOf[c] \in V
      /\ NoClass \notin Classes /\ <<>> \in V
      /\ \A s, t \in V : s \o t \in V
  <2>1. \A c \in Classes : Parent[c] \in Ancestors /\ FieldsOf[c] \in V
    BY ClassesAssumption, OperandsAssumption DEF Ancestors
  <2> HIDE DEF V
  <2>2. <<>> \in V /\ \A s, t \in V : s \o t \in V
    BY DEF V
  <2> QED
    BY <2>1, <2>2, ClassesAssumption
<1> HIDE DEF V
<1>3. \E f : Collects(f)
  <2> DEFINE val == [c \in base |-> <<>>]
             g == [c \in Classes |-> [v \in V |-> v \o FieldsOf[c]]]
  <2>1. val \in [base -> V] /\ base \in SUBSET Ancestors /\ NoClass \in base
    BY <1>2 DEF Ancestors
  <2>2. g \in [Classes -> [V -> V]]
    BY <1>2
  <2>3. PICK f \in [Ancestors -> V] :
          \A c \in Ancestors : f[c] = IF c \in base THEN val[c] ELSE g[c][f[Parent[c]]]
    <3> HIDE DEF val, g, base
    <3> QED
      BY <2>1, <2>2, ClassRecursion
  <2>4. \A c \in D : f[c] = Collect(f, c)
    <3>1. SUFFICES ASSUME NEW c \in Ancestors
                   PROVE  f[c] = Collect(f, c)
      BY DEF Ancestors
    <3>2. CASE c = NoClass
      BY <2>3, <3>2
    <3>3. CASE c # NoClass
      <4>1. c \in Classes /\ f[Parent[c]] \in V
        BY <1>2, <3>3 DEF Ancestors
      <4>2. f[c] = g[c][f[Parent[c]]]
        BY <2>3, <3>3
      <4> QED
        BY <3>3, <4>1, <4>2
    <3> QED
      BY <3>2, <3>3
  <2>5. Collects(f)
    <3> HIDE DEF Collect
    <3> QED
      BY ONLY <2>3, <2>4 DEF Ancestors
  <2> QED
    BY <2>5
<1>4. Collects(AllFields)
  <2> HIDE DEF Collects
  <2> QED
    BY <1>1, <1>3
<1>5. \A c \in Ancestors : AllFields[c] = Collect(AllFields, c)
  <2> HIDE DEF Collect
  <2> QED
    BY ONLY <1>4 DEF Ancestors
<1>6. /\ base \in SUBSET Ancestors /\ NoClass \in base /\ \A c \in base : AllFields[c] \in V
      /\ \A c \in Ancestors \ base : AllFields[Parent[c]] \in V => AllFields[c] \in V
  BY <1>2, <1>5 DEF Ancestors
<1>7. AllFields[class] \in V
  <2> HIDE DEF base
  <2> QED
    BY <1>6, ClassInduction
<1> QED
  BY <1>7 DEF V

LEMMA FieldType ==
  ASSUME NEW class \in Classes, NEW name, Has(class, name)
  PROVE  LET i == Named(class, name)
             type == FieldsOf[class][i][2]
         IN  type \in AllTypes /\ i \in DOMAIN FieldsOf[class] /\ FieldsOf[class][i] = <<name, type>>
<1> DEFINE s == FieldsOf[class]
           I == {i \in 1 .. Len(s) : s[i][1] = name}
           i == Named(class, name)
<1>1. s \in Seq(STRING \X AllTypes)
  BY OperandsAssumption
<1>2. I # {} /\ I \in SUBSET Nat
  BY <1>1 DEF Has
<1>3. i = CHOOSE j \in I : \A k \in I : j <= k
  <2>1. i = IF I # {} THEN Min(I) ELSE 0
    BY DEF Named, SelectInSeq
  <2> QED
    BY <1>2, <2>1 DEF Min
<1>4. i \in I
  <2>1. \E j \in I : \A k \in I : j <= k
    <3> HIDE DEF I
    <3> QED
      BY <1>2, LeastElement
  <2> HIDE DEF i, I
  <2> QED
    BY <1>3, <2>1
<1> HIDE DEF i
<1> QED
  BY <1>1, <1>4 DEF i

LEMMA FieldOutcome ==
  ASSUME NEW e, IsNode(e), NEW a \in LeafNodes,
         \/ e.op = "GET_FIELD" /\ e.operands = <<a>>
         \/ e.op = "SET_FIELD" /\ \E d \in LeafNodes : e.operands = <<a, d>>,
         Field(e).end = "done"
  PROVE  Outcome(e, Field(e).e)
<1> DEFINE object == a.type
           owner == Owner(object[2], e.how)
           type == FieldsOf[owner][Named(owner, e.how)][2]
           get == e.op = "GET_FIELD"
           length == e.how = "length" /\ (Kind(object) = "ARRAY" \/ (object = Str /\ get))
           sized == [e EXCEPT !.op = IF get THEN "GET_LENGTH" ELSE "SET_LENGTH", !.type = <<"U32">>]
           got == [e EXCEPT !.type = type]
           v == Converted(e.operands[2], type)
           set == [e EXCEPT !.operands[2] = v.e, !.type = type]
           x == Field(e)
<1>1. e.operands[1] = a
  OBVIOUS
<1>2. x = CASE length -> Done(sized)
            [] object = NullType -> Ends("crash")
            [] Kind(object) = "OBJECT" /\ object # NullType ->
                 (CASE owner = NoClass -> Ends("fail")
                    [] owner # NoClass /\ get -> Done(got)
                    [] owner # NoClass /\ ~get -> IF v.end = "done" THEN Done(set) ELSE v)
            [] OTHER -> Ends("fail")
  BY <1>1 DEF Field, Then
<1>3. (\A y : Done(y).e = y) /\ (\A y : Ends(y).end = y) /\ x.end = "done"
  BY DEF Done, Ends
<1>4. object \in AllTypes /\ Kind(NullType) = "OBJECT" /\ Kind(Str) = "STRING"
  BY LeafIs DEF NullType, ObjectOf, Kind, Str
<1>5. Kind(object) = "OBJECT" => /\ owner \in Ancestors
                                 /\ owner # NoClass => type \in AllTypes /\ HasField(object[2], e.how, type)
  <2>1. ASSUME Kind(object) = "OBJECT"
        PROVE  /\ owner \in Ancestors
               /\ owner # NoClass => Has(owner, e.how) /\ (owner = object[2] \/ Inherits[object[2]][owner])
    <3>1. object[2] \in Ancestors
      BY <1>4, <2>1, KindFacts DEF Ancestors
    <3> QED
      BY <3>1, OwnerHas, OwnerInherits
  <2> HIDE DEF owner
  <2>2. ASSUME owner \in Ancestors, owner # NoClass, Has(owner, e.how), owner = object[2] \/ Inherits[object[2]][owner]
        PROVE  type \in AllTypes /\ HasField(object[2], e.how, type)
    <3>1. owner \in Classes
      BY <2>2 DEF Ancestors
    <3> DEFINE i == Named(owner, e.how)
    <3>2. type \in AllTypes /\ i \in DOMAIN FieldsOf[owner] /\ FieldsOf[owner][i] = <<e.how, type>>
      BY <2>2, <3>1, FieldType
    <3> HIDE DEF type, i
    <3> QED
      BY <2>2, <3>1, <3>2 DEF HasField
  <2> QED
    BY <2>1, <2>2
<1>6. got.op = e.op /\ got.type = type /\ got.operands = e.operands /\ got.how = e.how
  <2> HIDE DEF type
  <2> QED
    BY NodeExcept
<1>7. sized.op = (IF get THEN "GET_LENGTH" ELSE "SET_LENGTH") /\ sized.type = <<"U32">> /\ sized.operands = e.operands
  BY DEF IsNode, Node
<1>8. e.operands \in Seq(LeafNodes)
  BY LeafSequences
<1> SUFFICES Outcome(e, x.e)
  OBVIOUS
<1> HIDE DEF sized, x, got
<1>9. CASE length
  <2>1. object # NullType /\ Kind(object) # "OBJECT"
    BY <1>4, <1>9
  <2>2. x = Done(sized)
    <3> HIDE DEF length, object, owner, type, get, v, set
    <3> QED
      BY ONLY <1>2, <1>9, <2>1
  <2>3. SoundNode(sized)
    <3>1. Types(sized.operands)[1] = object
      BY <1>7, TypesAre
    <3>2. Kind(object) = "ARRAY" \/ (object = Str /\ sized.op = "GET_LENGTH")
      BY <1>7, <1>9
    <3>3. CASE sized.op = "GET_LENGTH"
      <4>1. NodeFits(sized)
        BY <3>1, <3>2, <3>3 DEF NodeFits
      <4> QED
        BY <3>3, <4>1, OtherNode
    <3>4. CASE sized.op = "SET_LENGTH"
      BY <3>1, <3>2, <3>4 DEF SoundNode, Accepted, Unchecked
    <3> QED
      BY <1>7, <3>3, <3>4
  <2>4. sized.op # "LITERAL"
    BY <1>7
  <2>5. Outcome(e, sized)
    BY <1>7, <1>8, <2>3, <2>4, OneTypes, SameOperands
  <2> QED
    BY <1>3, <2>2, <2>5
<1>10. CASE ~length
  <2> HIDE DEF length, owner, type, get, v, set
  <2>1. Kind(object) = "OBJECT" /\ object # NullType /\ owner # NoClass /\ (get \/ v.end = "done")
        /\ x = IF get THEN Done(got) ELSE Done(set)
    BY ONLY <1>2, <1>3, <1>10
  <2>2. owner \in Ancestors /\ type \in AllTypes /\ HasField(object[2], e.how, type)
    BY <1>5, <2>1
  <2>3. CASE get
    <3>1. e.op = "GET_FIELD"
      BY <2>3 DEF get
    <3>2. SoundNode(got)
      <4>1. Types(got.operands)[1] = object
        BY <1>6, TypesAre
      <4>2. NodeFits(got)
        BY <1>6, <2>1, <2>2, <3>1, <4>1 DEF NodeFits
      <4> QED
        BY <1>6, <3>1, <4>2, OtherNode
    <3>3. Outcome(e, got)
      BY <1>6, <1>8, <2>2, <3>1, <3>2, SameOperands
    <3> QED
      BY <1>3, <2>1, <2>3, <3>3
  <2>4. CASE ~get
    <3>1. e.op = "SET_FIELD"
      BY <2>4 DEF get
    <3>2. PICK d \in LeafNodes : e.operands = <<a, d>>
      BY <3>1
    <3>3. set.op = e.op /\ set.how = e.how /\ set.type = type /\ set.operands = <<a, v.e>>
      BY ONLY <3>2, IsNode(e), Replacing DEF set
    <3>4. e.operands[2] = d
      BY <3>2
    <3>5. Stands(v.e, d, type)
      BY <2>1, <2>2, <2>4, <3>4, ConvertedStands DEF v
    <3>6. OperandOf(v.e, d) /\ Fits(v.e, type) /\ OperandOf(a, a)
      BY <2>2, <3>5, StandsOperand, StandsIs, LeafOperand
    <3>7. set.operands[2] = v.e
      BY <3>3
    <3>8. SoundNode(set)
      <4>1. Types(set.operands)[1] = object
        BY <3>3, TypesAre
      <4>2. NodeFits(set)
        BY <2>1, <2>2, <3>1, <3>3, <3>6, <3>7, <4>1 DEF NodeFits
      <4> QED
        BY <3>1, <3>3, <4>2, OtherNode
    <3>9. Expected(e) = <<a, d>>
      BY <3>1, <3>2, ExpectedSame
    <3>10. Outcome(e, set)
      BY <2>2, <3>1, <3>3, <3>6, <3>8, <3>9, OutcomeOfTwo
    <3> QED
      BY <1>3, <2>1, <2>4, <3>10
  <2> QED
    BY <2>3, <2>4
<1> QED
  BY <1>9, <1>10

-----------------------------------------------------------------------------
(* The arguments of a call or a constructor, one parameter after another.     *)

\* Operand v becomes x where t is expected, the chain behind it r.
Argued(op, v, tail, t, x, r) ==
  \/ Stands(x, v, t) /\ r = tail
  \/ op = "CALL" /\ t = Bool /\ IsInteger(v.type) /\ x.op = "COMPARE" /\ r = <<Literal(v.type)>>

LEMMA ArgumentOfNewIs ==
  ASSUME NEW chain \in Seq(LeafNodes), chain # <<>>, NEW t \in AllTypes, NEW r,
         r = ArgumentOfNew(chain, t), r.end = "done"
  PROVE  \E x : r = Done(<<x>> \o Tail(chain)) /\ Stands(x, Head(chain), t)
<1> DEFINE v == Head(chain)
           c == Converted(v, t)
<1>1. v \in LeafNodes
  OBVIOUS
<1>2. c.end = "done" /\ r = Done(<<c.e>> \o Tail(chain))
  BY DEF ArgumentOfNew, Then
<1>3. Stands(c.e, v, t)
  BY <1>1, <1>2, ConvertedStands
<1> QED
  BY <1>2, <1>3

LEMMA ArgumentOfCallIs ==
  ASSUME NEW chain \in Seq(LeafNodes), chain # <<>>, NEW t \in AllTypes, NEW r,
         r = ArgumentOfCall(chain, t), r.end = "done"
  PROVE  \E x, rest : r = Done(<<x>> \o rest) /\ Argued("CALL", Head(chain), Tail(chain), t, x, rest)
<1> DEFINE v == Head(chain)
           c == ImplicitCast(chain, t)
           Relinked(list) == <<[list[1] EXCEPT !.operands = <<Head(@)>>]>> \o Tail(list[1].operands)
<1>1. v \in LeafNodes /\ Head(chain) = v /\ chain = <<v>> \o Tail(chain) /\ chain[1] = v
  OBVIOUS
<1>2. c.end = "done" /\ (c.e # chain => r = Done(Relinked(c.e))) /\ (c.e = chain => r = c)
  <2>1. r = IF c.end = "done" /\ c.e # chain THEN Done(Relinked(c.e)) ELSE c
    BY DEF ArgumentOfCall
  <2> HIDE DEF c, Relinked
  <2> QED
    BY <2>1 DEF Done
<1> HIDE DEF c
<1>3. \/ c = Done(chain) /\ Fits(v, t)
      \/ \E m : c = Done(<<Cast(m, t, chain)>>) /\ Inserted(m, t, v.type)
      \/ c = Done(<<NotZero(v)>>) /\ t = Bool /\ IsInteger(v.type)
  <2>1. c = ImplicitCast(chain, t)
    BY DEF c
  <2> HIDE DEF v
  <2> QED
    BY ONLY <1>1, <1>2, <2>1, t \in AllTypes, ImplicitCastIs
<1>4. v.op \in {"LITERAL", "VALUE"}
  BY <1>1, LeafIs
<1>5. CASE c = Done(chain) /\ Fits(v, t)
  <2>1. c.e = chain
    BY <1>5 DEF Done
  <2>2. r = Done(<<v>> \o Tail(chain)) /\ Stands(v, v, t)
    BY <1>1, <1>2, <1>5, <2>1 DEF Stands
  <2> QED
    BY <2>2 DEF Argued
<1>6. CASE \E m : c = Done(<<Cast(m, t, chain)>>) /\ Inserted(m, t, v.type)
  <2>1. PICK m : c = Done(<<Cast(m, t, chain)>>) /\ Inserted(m, t, v.type)
    BY <1>6
  <2> DEFINE n == Cast(m, t, chain)
             x == Cast(m, t, <<v>>)
  <2>2. c.e = <<n>> /\ n.op = "CAST" /\ n.operands = chain
    BY <2>1 DEF Done, Cast, Node
  <2>3. c.e # chain
    <3> HIDE DEF n
    <3>1. ASSUME c.e = chain PROVE n = v
      BY ONLY <1>1, <2>2, <3>1
    <3> QED
      BY <1>4, <2>2, <3>1
  <2>4. [n EXCEPT !.operands = <<v>>] = x
    BY DEF Cast, Node
  <2>5. Relinked(c.e) = <<x>> \o Tail(chain)
    <3> HIDE DEF n, x
    <3>1. c.e[1] = n
      BY ONLY <2>2
    <3>2. Head(n.operands) = v
      BY ONLY <1>1, <2>2
    <3> QED
      BY <2>2, <2>4, <3>1, <3>2
  <2>6. Stands(x, v, t)
    BY <2>1 DEF Stands
  <2> HIDE DEF x, Relinked
  <2> QED
    BY <1>2, <2>3, <2>5, <2>6 DEF Argued
<1>7. CASE c = Done(<<NotZero(v)>>) /\ t = Bool /\ IsInteger(v.type)
  <2> DEFINE n == NotZero(v)
             x == Node("COMPARE", "NE", Bool, <<v>>)
  <2>2. c.e = <<n>> /\ n.op = "COMPARE" /\ n.operands = <<v, Literal(v.type)>>
    BY <1>7 DEF Done, NotZero, Node
  <2>3. c.e # chain
    <3> HIDE DEF n
    <3>1. ASSUME c.e = chain PROVE n = v
      BY ONLY <1>1, <2>2, <3>1
    <3> QED
      BY <1>4, <2>2, <3>1
  <2>4. [n EXCEPT !.operands = <<v>>] = x /\ x.op = "COMPARE"
    BY DEF NotZero, Node
  <2>5. Relinked(c.e) = <<x>> \o <<Literal(v.type)>>
    <3> HIDE DEF n, x
    <3>1. c.e[1] = n
      BY ONLY <2>2
    <3>2. Head(n.operands) = v /\ Tail(n.operands) = <<Literal(v.type)>>
      BY ONLY <2>2
    <3> QED
      BY <2>2, <2>4, <3>1, <3>2
  <2> HIDE DEF x, Relinked
  <2> QED
    BY <1>2, <1>7, <2>3, <2>4, <2>5 DEF Argued
<1> QED
  BY <1>3, <1>5, <1>6, <1>7

LEMMA Prefixed ==
  ASSUME NEW V, NEW x, NEW s \in Seq(V)
  PROVE  Head(<<x>> \o s) = x /\ Tail(<<x>> \o s) = s
<1> DEFINE W == V \cup {x}
           p == <<x>> \o s
<1>1. <<x>> \in Seq(W) /\ s \in Seq(W) /\ Len(<<x>>) = 1
  OBVIOUS
<1>2. p \in Seq(W) /\ Len(p) = 1 + Len(s) /\ p[1] = x /\ \A i \in 1 .. Len(s) : p[i + 1] = s[i]
  <2> HIDE DEF W
  <2> QED
    BY <1>1
<1>3. Tail(p) = s
  <2> HIDE DEF p, W
  <2>1. Tail(p) \in Seq(W) /\ Len(Tail(p)) = Len(s) /\ \A i \in 1 .. Len(s) : Tail(p)[i] = p[i + 1]
    BY <1>1, <1>2
  <2> QED
    BY <1>1, <1>2, <2>1
<1> QED
  BY <1>2, <1>3

LEMMA NextArgumentIs ==
  ASSUME NEW op \in {"NEW", "CALL"}, NEW before, before.end = "done", before.e.rest \in Seq(LeafNodes), NEW t \in AllTypes,
         NEW r, r = NextArgument(op, before, t), r.end = "done"
  PROVE  LET rest == before.e.rest
         IN  /\ rest # <<>>
             /\ \E x, left : /\ r = Done([list |-> Append(before.e.list, x), rest |-> left])
                             /\ Argued(op, Head(rest), Tail(rest), t, x, left)
<1> DEFINE rest == before.e.rest
           first == IF op = "NEW" THEN ArgumentOfNew(rest, t) ELSE ArgumentOfCall(rest, t)
<1>1. rest # <<>>
  <2>1. ASSUME rest = <<>> PROVE r = Ends("fail")
    BY <2>1 DEF NextArgument
  <2> QED
    BY <2>1 DEF Ends
<1>2. r = IF first.end = "done" THEN Done([list |-> Append(before.e.list, Head(first.e)), rest |-> Tail(first.e)]) ELSE first
  BY <1>1 DEF NextArgument, Then
<1> HIDE DEF first, rest
<1>3. first.end = "done"
  BY <1>2
<1>4. \E x, left : first = Done(<<x>> \o left) /\ Argued(op, Head(rest), Tail(rest), t, x, left)
             /\ left \in Seq(LeafNodes)
  <2>0. Tail(rest) \in Seq(LeafNodes) /\ Head(rest) \in LeafNodes
    BY <1>1 DEF rest
  <2>1. CASE op = "NEW"
    <3>1. first = ArgumentOfNew(rest, t)
      BY <2>1 DEF first
    <3>2. \E x : first = Done(<<x>> \o Tail(rest)) /\ Stands(x, Head(rest), t)
      BY <1>1, <1>3, <3>1, ArgumentOfNewIs DEF rest
    <3> QED
      BY <2>0, <3>2 DEF Argued
  <2>2. CASE op = "CALL"
    <3>1. first = ArgumentOfCall(rest, t)
      BY <2>2 DEF first
    <3>2. \E x, left : first = Done(<<x>> \o left) /\ Argued("CALL", Head(rest), Tail(rest), t, x, left)
      BY <1>1, <1>3, <3>1, ArgumentOfCallIs DEF rest
    <3>3. ASSUME IsInteger(Head(rest).type) PROVE Literal(Head(rest).type) \in LeafNodes
      <4>1. Head(rest).type \in AllTypes /\ Kind(Head(rest).type) \in Numeric
        BY <2>0, <3>3, LeafIs DEF IsInteger, Numeric
      <4>2. Head(rest).type \in Simple \ {Void}
        BY <4>1, KindFacts, NumericKinds DEF Simple, Void, OtherKinds
      <4> QED
        BY <4>2 DEF LeafNodes
    <3>4. PICK x, left : first = Done(<<x>> \o left) /\ Argued("CALL", Head(rest), Tail(rest), t, x, left)
      BY <3>2
    <3>5. left \in Seq(LeafNodes)
      <4>1. CASE left = Tail(rest)
        BY <2>0, <4>1
      <4>2. CASE IsInteger(Head(rest).type) /\ left = <<Literal(Head(rest).type)>>
        <5>1. Literal(Head(rest).type) \in LeafNodes
          BY <3>3, <4>2
        <5> HIDE DEF rest
        <5> QED
          BY ONLY <4>2, <5>1
      <4> QED
        BY <3>4, <4>1, <4>2 DEF Argued
    <3> QED
      BY <2>2, <3>4, <3>5
  <2> QED
    BY <2>1, <2>2
<1>5. PICK x, left : first = Done(<<x>> \o left) /\ Argued(op, Head(rest), Tail(rest), t, x, left)
             /\ left \in Seq(LeafNodes)
  BY <1>4
<1>6. Head(first.e) = x /\ Tail(first.e) = left
  <2>1. first.e = <<x>> \o left
    BY <1>5 DEF Done
  <2> QED
    BY ONLY <1>5, <2>1, Prefixed
<1> QED
  BY <1>1, <1>2, <1>3, <1>5, <1>6 DEF rest

\* No integer is passed for a boolean where that takes the chain along.
Clean(op, chain, types) ==
  op = "NEW" \/ \A j \in 1 .. Len(types) : j <= Len(chain) => ~(types[j] = Bool /\ IsInteger(chain[j].type))

\* What a is after i parameters.
SuppliedUpTo(op, chain, types, a, i) ==
  LET list == a.e.list
      rest == a.e.rest
  IN /\ a = Done([list |-> list, rest |-> rest])
     /\ \E V : list \in Seq(V)
     /\ Len(list) = i /\ rest \in Seq(LeafNodes)
     /\ \A j \in 1 .. i : list[j].op = "CAST" => SoundCast(list[j])
     /\ Clean(op, chain, types) =>
          /\ Len(rest) = Len(chain) - i /\ \A j \in 1 .. Len(rest) : rest[j] = chain[i + j]
          /\ \A j \in 1 .. i : Stands(list[j], chain[j], types[j])

LEMMA Appended ==
  ASSUME NEW V, NEW list \in Seq(V), NEW x
  PROVE  /\ Append(list, x) \in Seq(V \cup {x}) /\ Len(Append(list, x)) = Len(list) + 1
         /\ Append(list, x)[Len(list) + 1] = x /\ \A j \in 1 .. Len(list) : Append(list, x)[j] = list[j]
<1> DEFINE W == V \cup {x}
<1>1. list \in Seq(W) /\ x \in W
  OBVIOUS
<1> HIDE DEF W
<1>2. /\ Append(list, x) \in Seq(W) /\ Len(Append(list, x)) = Len(list) + 1
      /\ Append(list, x)[Len(list) + 1] = x /\ \A j \in 1 .. Len(list) : Append(list, x)[j] = list[j]
  BY <1>1
<1> QED
  BY <1>2 DEF W

LEMMA SuppliedStep ==
  ASSUME NEW op \in {"NEW", "CALL"}, NEW chain \in Seq(LeafNodes), NEW types \in Seq(AllTypes), NEW i \in 1 .. Len(types),
         NEW a, SuppliedUpTo(op, chain, types, a, i - 1), NEW r, r = NextArgument(op, a, types[i]), r.end = "done"
  PROVE  SuppliedUpTo(op, chain, types, r, i)
<1> DEFINE list == a.e.list
           rest == a.e.rest
           t == types[i]
<1>1. a.end = "done" /\ rest \in Seq(LeafNodes) /\ t \in AllTypes /\ i \in Nat
  BY DEF SuppliedUpTo, Done
<1>2. rest # <<>> /\ \E x, left : /\ r = Done([list |-> Append(list, x), rest |-> left])
                                  /\ Argued(op, Head(rest), Tail(rest), t, x, left)
  BY <1>1, NextArgumentIs
<1>3. PICK x, left : /\ r = Done([list |-> Append(list, x), rest |-> left])
                     /\ Argued(op, Head(rest), Tail(rest), t, x, left)
  BY <1>2
<1>4. PICK V : list \in Seq(V)
  BY DEF SuppliedUpTo
<1> DEFINE more == Append(list, x)
           v == Head(rest)
<1>5. r.e.list = more /\ r.e.rest = left /\ r = Done([list |-> r.e.list, rest |-> r.e.rest])
  <2> HIDE DEF more
  <2>1. r = Done([list |-> more, rest |-> left])
    BY <1>3 DEF more
  <2>2. r.e = [list |-> more, rest |-> left]
    BY <2>1 DEF Done
  <2>3. r.e.list = more /\ r.e.rest = left
    BY ONLY <2>2
  <2> QED
    BY ONLY <2>1, <2>3
<1>6. Len(list) = i - 1 /\ \A j \in 1 .. i - 1 : list[j].op = "CAST" => SoundCast(list[j])
  BY DEF SuppliedUpTo
<1>7. Clean(op, chain, types) =>
        /\ Len(rest) = Len(chain) - (i - 1) /\ \A j \in 1 .. Len(rest) : rest[j] = chain[(i - 1) + j]
        /\ \A j \in 1 .. i - 1 : Stands(list[j], chain[j], types[j])
  BY DEF SuppliedUpTo
<1> HIDE DEF list, rest, t
<1>8. v \in LeafNodes /\ v = rest[1] /\ Tail(rest) \in Seq(LeafNodes) /\ Len(Tail(rest)) = Len(rest) - 1 /\ Len(rest) \in Nat
      /\ Len(rest) > 0 /\ \A j \in 1 .. Len(rest) - 1 : Tail(rest)[j] = rest[j + 1]
  BY <1>1, <1>2
<1>9. /\ more \in Seq(V \cup {x}) /\ Len(more) = i /\ more[i] = x /\ \A j \in 1 .. i - 1 : more[j] = list[j]
  <2>1. Len(list) + 1 = i
    BY <1>1, <1>6
  <2> QED
    BY <1>4, <1>6, <2>1, Appended
<1> HIDE DEF more, v
<1>10. left \in Seq(LeafNodes)
  <2>1. CASE left = Tail(rest)
    BY <1>8, <2>1
  <2>2. CASE IsInteger(v.type) /\ left = <<Literal(v.type)>>
    <3>1. v.type \in AllTypes /\ Kind(v.type) \in Numeric
      BY <1>8, <2>2, LeafIs DEF IsInteger, Numeric
    <3>2. v.type \in Simple \ {Void}
      BY <3>1, KindFacts, NumericKinds DEF Simple, Void, OtherKinds
    <3>3. Literal(v.type) \in LeafNodes
      BY <3>2 DEF LeafNodes
    <3> QED
      BY ONLY <2>2, <3>3
  <2> QED
    BY <1>3, <2>1, <2>2 DEF Argued, v
<1>11. x.op = "CAST" => SoundCast(x)
  <2>1. CASE Stands(x, v, t)
    BY <1>1, <1>8, <2>1, StandsIs DEF SoundNode
  <2>2. CASE x.op = "COMPARE"
    BY <2>2
  <2> QED
    BY <1>3, <2>1, <2>2 DEF Argued, v
<1>12. \A j \in 1 .. i : more[j].op = "CAST" => SoundCast(more[j])
  <2>1. \A j \in 1 .. i : j \in 1 .. i - 1 \/ j = i
    BY <1>1
  <2> QED
    BY <1>6, <1>9, <1>11, <2>1
<1>13. ASSUME Clean(op, chain, types)
       PROVE  /\ Len(left) = Len(chain) - i /\ \A j \in 1 .. Len(left) : left[j] = chain[i + j]
              /\ \A j \in 1 .. i : Stands(more[j], chain[j], types[j])
  <2>1. Len(chain) \in Nat /\ Len(rest) = Len(chain) - (i - 1) /\ \A j \in 1 .. Len(rest) : rest[j] = chain[(i - 1) + j]
    BY <1>7, <1>13
  <2>2. (i - 1) + 1 = i /\ v = chain[i] /\ i <= Len(chain)
    BY <1>1, <1>8, <2>1
  <2>3. ~(op = "CALL" /\ t = Bool /\ IsInteger(v.type))
    BY <1>13, <2>2 DEF Clean, t
  <2>4. Stands(x, v, t) /\ left = Tail(rest)
    BY <1>3, <2>3 DEF Argued, v
  <2>5. Len(left) = Len(chain) - i
    BY <1>1, <1>8, <2>1, <2>4
  <2>6. ASSUME NEW j \in 1 .. Len(left) PROVE left[j] = chain[i + j]
    <3>1. j \in 1 .. Len(rest) - 1 /\ j + 1 \in 1 .. Len(rest) /\ (i - 1) + (j + 1) = i + j
      BY <1>1, <1>8, <2>4, <2>6
    <3> QED
      BY <1>8, <2>1, <2>4, <3>1
  <2>7. ASSUME NEW j \in 1 .. i PROVE Stands(more[j], chain[j], types[j])
    <3>1. CASE j = i
      BY <1>9, <2>2, <2>4, <3>1 DEF t
    <3>2. CASE j # i
      <4>1. j \in 1 .. i - 1
        BY <1>1, <3>2
      <4> QED
        BY <1>7, <1>9, <1>13, <4>1
    <3> QED
      BY <3>1, <3>2
  <2> QED
    BY <2>5, <2>6, <2>7
<1> QED
  BY <1>5, <1>9, <1>10, <1>12, <1>13 DEF SuppliedUpTo

\* The recursion of Passed.
IsAfter(f, op, chain, types) ==
  f = [i \in 0 .. Len(types) |->
         IF i = 0 THEN Done([list |-> <<>>, rest |-> chain]) ELSE NextArgument(op, f[i - 1], types[i])]

LEMMA PassedExists ==
  ASSUME NEW op, NEW chain, NEW types \in Seq(AllTypes)
  PROVE  \E f : IsAfter(f, op, chain, types)
<1> DEFINE first == Done([list |-> <<>>, rest |-> chain])
           Step(f, i) == IF i = 0 THEN first ELSE NextArgument(op, f[i - 1], types[i])
           n == Len(types)
           Domain(f) == f = [i \in 0 .. n |-> f[i]]
           Steps(f, k) == \A i \in 0 .. k : f[i] = Step(f, i)
           S == {k \in 0 .. n : ~ \E f : Domain(f) /\ Steps(f, k)}
<1>1. n \in Nat
  OBVIOUS
<1> HIDE DEF n
<1>2. \E f : Domain(f) /\ Steps(f, 0)
  <2> DEFINE f == [i \in 0 .. n |-> first]
  <2>1. Domain(f)
    OBVIOUS
  <2>2. Steps(f, 0)
    BY <1>1
  <2> QED
    BY <2>1, <2>2
<1>3. ASSUME NEW k \in 1 .. n, NEW f, Domain(f), Steps(f, k - 1)
      PROVE  \E g : Domain(g) /\ Steps(g, k)
  <2> DEFINE g == [i \in 0 .. n |-> IF i = k THEN NextArgument(op, f[k - 1], types[k]) ELSE f[i]]
  <2>1. Domain(g)
    OBVIOUS
  <2>2. ASSUME NEW i \in 0 .. k PROVE g[i] = Step(g, i)
    <3>1. i \in 0 .. n /\ k \in 0 .. n /\ (i # 0 => i - 1 \in 0 .. n /\ i - 1 # k) /\ k # 0
      BY <1>1
    <3>2. g[k] = NextArgument(op, f[k - 1], types[k]) /\ \A j \in 0 .. n : j # k => g[j] = f[j]
      BY <3>1
    <3> HIDE DEF g
    <3>3. CASE i = k
      BY <3>1, <3>2, <3>3
    <3>4. CASE i # k
      <4>1. i \in 0 .. k - 1
        BY <1>1, <3>1, <3>4
      <4>2. f[i] = Step(f, i)
        BY <1>3, <4>1
      <4> QED
        BY <3>1, <3>2, <3>4, <4>2
    <3> QED
      BY <3>3, <3>4
  <2> HIDE DEF g, Domain, Step
  <2> QED
    BY <2>1, <2>2
<1> HIDE DEF Domain, Steps
<1>4. ASSUME NEW k \in S
      PROVE  \E j \in S : j < k
  <2>1. k \in 0 .. n /\ ~ \E f : Domain(f) /\ Steps(f, k)
    OBVIOUS
  <2>2. k # 0
    BY <1>2, <2>1
  <2>3. k \in 1 .. n /\ k - 1 \in 0 .. n /\ k - 1 < k
    BY <1>1, <2>1, <2>2
  <2>4. k - 1 \in S
    BY <1>3, <2>1, <2>3
  <2> QED
    BY <2>3, <2>4
<1>5. S = {}
  <2> HIDE DEF S
  <2>1. S \in SUBSET Nat
    BY <1>1 DEF S
  <2> QED
    BY ONLY <1>4, <2>1, NoLeastNoElement
<1>6. n \in 0 .. n
  BY <1>1
<1>7. PICK f : Domain(f) /\ Steps(f, n)
  BY <1>5, <1>6
<1>8. f = [i \in 0 .. n |-> Step(f, i)]
  <2> HIDE DEF Step
  <2> QED
    BY ONLY <1>7 DEF Domain, Steps
<1>9. \E g : g = [i \in 0 .. n |-> Step(g, i)]
  <2> HIDE DEF Step
  <2> QED
    BY ONLY <1>8
<1> QED
  BY ONLY <1>9 DEF n, IsAfter

LEMMA PassedIs ==
  ASSUME NEW op \in {"NEW", "CALL"}, NEW chain \in Seq(LeafNodes), NEW types \in Seq(AllTypes),
         NEW r, r = Passed(op, chain, types), r.end = "done"
  PROVE  /\ r = Done(r.e) /\ (\E V : r.e \in Seq(V)) /\ Len(r.e) = Len(types)
         /\ \A j \in 1 .. Len(types) : r.e[j].op = "CAST" => SoundCast(r.e[j])
         /\ Clean(op, chain, types) =>
              Len(chain) = Len(types) /\ \A j \in 1 .. Len(types) : Stands(r.e[j], chain[j], types[j])
<1> DEFINE first == Done([list |-> <<>>, rest |-> chain])
           Step(f, i) == IF i = 0 THEN first ELSE NextArgument(op, f[i - 1], types[i])
           n == Len(types)
           Recursive(f) == IsAfter(f, op, chain, types)
           after == CHOOSE f : Recursive(f)
           all == after[n]
           S == {k \in 0 .. n : after[k].end = "done" /\ ~SuppliedUpTo(op, chain, types, after[k], k)}
<1>1. n \in Nat /\ \E f : Recursive(f)
  <2>1. n \in Nat
    OBVIOUS
  <2>2. \E f : Recursive(f)
    BY ONLY types \in Seq(AllTypes), PassedExists
  <2> QED
    BY <2>1, <2>2
<1>2. r = IF all.end = "done" /\ all.e.rest # <<>> THEN Ends("fail") ELSE Then(all, LAMBDA v : v.list)
  BY DEF Passed, IsAfter
<1> HIDE DEF n
<1>3. Recursive(after)
  <2> HIDE DEF Recursive
  <2> QED
    BY <1>1
<1> HIDE DEF after
<1>4. \A i \in 0 .. n : after[i] = Step(after, i)
  <2>1. after = [i \in 0 .. n |-> Step(after, i)]
    BY ONLY <1>3 DEF IsAfter, n
  <2> HIDE DEF Step
  <2> QED
    BY ONLY <2>1
<1>5. SuppliedUpTo(op, chain, types, after[0], 0)
  <2>1. after[0] = first
    BY <1>1, <1>4
  <2>2. first.e.list = <<>> /\ first.e.rest = chain
    BY DEF Done
  <2>3. <<>> \in Seq({}) /\ Len(<<>>) = 0 /\ (\A j \in 1 .. 0 : FALSE) /\ Len(chain) \in Nat
        /\ Len(chain) = Len(chain) - 0 /\ \A j \in 1 .. Len(chain) : chain[j] = chain[0 + j]
    OBVIOUS
  <2> HIDE DEF first
  <2>4. first = Done([list |-> first.e.list, rest |-> first.e.rest])
    BY <2>2 DEF first
  <2>5. SuppliedUpTo(op, chain, types, first, 0)
    BY ONLY <2>2, <2>3, <2>4, chain \in Seq(LeafNodes) DEF SuppliedUpTo
  <2> QED
    BY <2>1, <2>5
<1>6. ASSUME NEW k \in S
      PROVE  \E j \in S : j < k
  <2>1. k \in 0 .. n /\ after[k].end = "done" /\ ~SuppliedUpTo(op, chain, types, after[k], k)
    OBVIOUS
  <2>2. k \in 1 .. n /\ k - 1 \in 0 .. n /\ k - 1 < k
    BY <1>1, <1>5, <2>1
  <2>3. after[k] = NextArgument(op, after[k - 1], types[k])
    BY <1>1, <1>4, <2>2
  <2>4. after[k - 1].end = "done"
    <3>1. ASSUME after[k - 1].end # "done" PROVE after[k] = after[k - 1]
      BY <2>3, <3>1 DEF NextArgument
    <3> QED
      BY <2>1, <3>1
  <2>5. k \in 1 .. Len(types)
    BY <2>2 DEF n
  <2>6. ~SuppliedUpTo(op, chain, types, after[k - 1], k - 1)
    BY ONLY op \in {"NEW", "CALL"}, chain \in Seq(LeafNodes), types \in Seq(AllTypes), <2>1, <2>3, <2>5, SuppliedStep
  <2>7. k - 1 \in S
    BY <2>2, <2>4, <2>6
  <2> QED
    BY <2>2, <2>7
<1>7. S = {}
  <2> HIDE DEF S
  <2>1. S \in SUBSET Nat
    BY <1>1 DEF S
  <2> QED
    BY ONLY <1>6, <2>1, NoLeastNoElement
<1>8. all.end = "done" /\ all.e.rest = <<>> /\ r = Done(all.e.list)
  <2> HIDE DEF all
  <2>1. all.end = "done"
    BY <1>2 DEF Then
  <2>2. all.e.rest = <<>>
    BY <1>2, <2>1 DEF Ends
  <2> QED
    BY <1>2, <2>1, <2>2 DEF Then
<1>9. SuppliedUpTo(op, chain, types, all, n)
  <2>1. n \in 0 .. n
    BY <1>1
  <2> QED
    BY <1>7, <1>8, <2>1
<1> HIDE DEF all
<1>10. r.e = all.e.list
  BY <1>8 DEF Done
<1>11. Len(<<>>) = 0 /\ Len(chain) \in Nat
  OBVIOUS
<1>12. Clean(op, chain, types) => Len(chain) = n
  <2>1. Clean(op, chain, types) => 0 = Len(chain) - n
    BY ONLY <1>8, <1>9, <1>11 DEF SuppliedUpTo
  <2> QED
    BY <1>1, <1>11, <2>1
<1>13. r = Done(r.e)
  BY <1>8, <1>10
<1> QED
  BY ONLY <1>9, <1>10, <1>12, <1>13 DEF SuppliedUpTo, n

LEMMA AllFitIs ==
  ASSUME NEW list, NEW types, NEW V, list \in Seq(V), types \in Seq(AllTypes), Len(list) = Len(types), NEW chain \in Seq(LeafNodes),
         Len(chain) = Len(types), \A j \in 1 .. Len(types) : Stands(list[j], chain[j], types[j])
  PROVE  \A j \in DOMAIN list : Fits(list[j], types[j]) /\ OperandOf(list[j], chain[j])
<1>1. SUFFICES ASSUME NEW j \in DOMAIN list
               PROVE  Fits(list[j], types[j]) /\ OperandOf(list[j], chain[j])
  OBVIOUS
<1>2. j \in 1 .. Len(types) /\ types[j] \in AllTypes /\ chain[j] \in LeafNodes
  OBVIOUS
<1> QED
  BY <1>2, StandsIs DEF OperandOf

LEMMA NewOutcome ==
  ASSUME NEW e, IsNode(e), e.op = "NEW", e.operands \in Seq(LeafNodes), NEW class \in Classes, e.type = ObjectOf(class),
         New(e).end = "done"
  PROVE  Outcome(e, New(e).e)
<1> DEFINE fields == AllFields[e.type[2]]
           types == [i \in DOMAIN fields |-> fields[i][2]]
           r == Passed("NEW", e.operands, types)
           n == [e EXCEPT !.operands = r.e]
           ex == e.operands
           k == Len(types)
<1>1. e.type[2] = class /\ e.type \in AllTypes
  <2>1. e.type \in Objects
    BY DEF Objects
  <2> QED
    BY <2>1, TypesAssumption DEF ObjectOf
<1>2. fields \in Seq(STRING \X AllTypes)
  BY <1>1, AllFieldsType DEF Ancestors
<1>3. types \in Seq(AllTypes)
  <2> HIDE DEF fields
  <2> QED
    BY <1>2
<1>4. r.end = "done" /\ New(e) = Done(n)
  <2>1. New(e) = IF r.end = "done" THEN Done(n) ELSE r
    BY DEF New, Then
  <2> HIDE DEF r, n
  <2> QED
    BY <2>1
<1>5. New(e).e = n
  BY <1>4 DEF Done
<1>6. /\ r = Done(r.e) /\ (\E V : r.e \in Seq(V)) /\ Len(r.e) = Len(types)
      /\ Len(ex) = Len(types) /\ \A j \in 1 .. Len(types) : Stands(r.e[j], ex[j], types[j])
  <2> HIDE DEF types
  <2>1. r = Passed("NEW", e.operands, types)
    OBVIOUS
  <2>2. Clean("NEW", ex, types)
    BY DEF Clean
  <2> HIDE DEF r
  <2> QED
    BY <1>3, <1>4, <2>1, <2>2, PassedIs
<1>7. n.op = "NEW" /\ n.type = e.type /\ n.operands = r.e
  BY NodeExcept
<1> HIDE DEF n, r, types
<1>8. PICK V : r.e \in Seq(V)
  BY <1>6
<1>9. \A j \in DOMAIN r.e : Fits(r.e[j], types[j]) /\ OperandOf(r.e[j], ex[j])
  BY ONLY <1>3, <1>6, <1>8, ex \in Seq(LeafNodes), AllFitIs
<1>10. SoundNode(n)
  BY <1>6, <1>7, <1>9 DEF SoundNode, Accepted, NodeFits, types
<1>11. ex = Expected(e)
  BY ExpectedSame
<1>12. k \in Nat /\ DOMAIN n.operands = 1 .. k /\ ex = [i \in 1 .. k |-> ex[i]]
  BY <1>3, <1>6, <1>7, <1>8
<1>13. \A i \in 1 .. k : OperandOf(n.operands[i], ex[i])
  BY <1>6, <1>7, <1>8, <1>9
<1> HIDE DEF k, ex
<1>14. Outcome(e, n)
  BY <1>1, <1>7, <1>10, <1>11, <1>12, <1>13, OutcomeFrom
<1> QED
  BY <1>5, <1>14

LEMMA CallOutcome ==
  ASSUME NEW e, IsNode(e), e.op = "CALL", NEW callee \in LeafNodes, NEW chain \in Seq(LeafNodes), e.operands = <<callee>> \o chain,
         Call(e).end = "done"
  PROVE  Outcome(e, Call(e).e)
<1> DEFINE signature == Tail(callee.type)
           types == Tail(signature)
           r == Passed("CALL", chain, types)
           n == [e EXCEPT !.operands = <<callee>> \o r.e, !.type = Head(signature)]
           ex == e.operands
           k == Len(types) + 1
<1>1. Head(e.operands) = callee /\ Tail(e.operands) = chain
  BY Prefixed
<1>2. /\ Kind(callee.type) = "BLOCKREF" /\ r.end = "done" /\ Call(e) = Done(n)
  <2>1. Call(e) = IF Kind(callee.type) = "BLOCKREF" THEN IF r.end = "done" THEN Done(n) ELSE r ELSE Ends("fail")
    BY <1>1 DEF Call, Then
  <2> HIDE DEF r, n
  <2> QED
    BY <2>1 DEF Ends
<1>3. Call(e).e = n
  BY <1>2 DEF Done
<1>4. /\ signature \in Seq(AllTypes) /\ signature # <<>> /\ callee.type \in Seq(AllTypes \cup {"BLOCKREF"})
      /\ Len(callee.type) >= 2
  <2>1. callee.type \in AllTypes
    BY LeafIs
  <2>2. callee.type \in Seq(AllTypes \cup {"BLOCKREF"}) /\ Len(callee.type) >= 2 /\ Tail(callee.type) \in Seq(AllTypes)
    BY <1>2, <2>1, FormOfTypes DEF Form
  <2>3. Tail(callee.type) # <<>>
    <3> DEFINE W == AllTypes \cup {"BLOCKREF"}
    <3>1. callee.type \in Seq(W) /\ Len(callee.type) >= 2
      BY <2>2
    <3> HIDE DEF W
    <3>2. Len(Tail(callee.type)) >= 1
      BY ONLY <3>1
    <3>3. Len(<<>>) = 0
      OBVIOUS
    <3> DEFINE rest == Tail(callee.type)
    <3>4. Len(rest) >= 1
      BY <3>2
    <3> HIDE DEF rest
    <3>5. rest # <<>>
      BY ONLY <3>3, <3>4
    <3> QED
      BY ONLY <3>5 DEF rest
  <2> QED
    BY <2>2, <2>3
<1>5. /\ Head(signature) \in AllTypes /\ types \in Seq(AllTypes) /\ Len(types) = Len(callee.type) - 2 /\ Len(types) \in Nat
      /\ \A j \in 1 .. Len(types) : types[j] = callee.type[j + 2]
  <2>1. Len(signature) = Len(callee.type) - 1 /\ \A j \in 1 .. Len(callee.type) - 1 : signature[j] = callee.type[j + 1]
    BY <1>4
  <2>2. /\ types \in Seq(AllTypes) /\ Head(signature) \in AllTypes /\ Len(types) = Len(signature) - 1 /\ Len(types) \in Nat
        /\ \A j \in 1 .. Len(signature) - 1 : types[j] = signature[j + 1]
    <3> HIDE DEF signature
    <3> QED
      BY <1>4
  <2> HIDE DEF signature, types
  <2>3. Len(callee.type) \in Nat
    BY <1>4
  <2>4. ASSUME NEW j \in 1 .. Len(types) PROVE types[j] = callee.type[j + 2]
    <3>1. j \in 1 .. Len(signature) - 1 /\ j + 1 \in 1 .. Len(callee.type) - 1 /\ (j + 1) + 1 = j + 2
      BY <2>1, <2>2, <2>3
    <3> QED
      BY <2>1, <2>2, <3>1
  <2> QED
    BY <2>1, <2>2, <2>3, <2>4
<1>6. /\ r = Done(r.e) /\ (\E V : r.e \in Seq(V)) /\ Len(r.e) = Len(types)
      /\ \A j \in 1 .. Len(types) : r.e[j].op = "CAST" => SoundCast(r.e[j])
      /\ Clean("CALL", chain, types) =>
           Len(chain) = Len(types) /\ \A j \in 1 .. Len(types) : Stands(r.e[j], chain[j], types[j])
  <2> HIDE DEF types
  <2>1. r = Passed("CALL", chain, types)
    OBVIOUS
  <2> HIDE DEF r
  <2> QED
    BY <1>2, <1>5, <2>1, PassedIs
<1>7. n.op = "CALL" /\ n.type = Head(signature) /\ n.operands = <<callee>> \o r.e
  <2> HIDE DEF r, signature
  <2> QED
    BY NodeExcept
<1> HIDE DEF n, r, types
<1>8. PICK V : r.e \in Seq(V)
  BY <1>6
<1>9. /\ Tail(n.operands) = r.e /\ DOMAIN n.operands = 1 .. k /\ n.operands[1] = callee /\ k \in Nat
      /\ \A j \in 1 .. Len(types) : n.operands[j + 1] = r.e[j]
  <2> DEFINE W == V \cup {callee}
  <2>1. <<callee>> \in Seq(W) /\ r.e \in Seq(W) /\ Len(<<callee>>) = 1
    BY <1>8
  <2> HIDE DEF W
  <2>2. n.operands \in Seq(W) /\ Len(n.operands) = k /\ n.operands[1] = callee
        /\ \A j \in 1 .. Len(types) : n.operands[j + 1] = r.e[j]
    <3> DEFINE l == r.e
    <3>1. n.operands = <<callee>> \o l /\ l \in Seq(W) /\ Len(l) = Len(types)
      BY <1>6, <1>7, <2>1
    <3> HIDE DEF l
    <3>2. \A j \in 1 .. Len(types) : n.operands[j + 1] = l[j]
      BY ONLY <1>5, <2>1, <3>1
    <3>3. n.operands \in Seq(W) /\ Len(n.operands) = 1 + Len(types) /\ n.operands[1] = callee
      BY ONLY <1>5, <2>1, <3>1
    <3> QED
      BY <1>5, <3>2, <3>3 DEF k, l
  <2>3. Tail(n.operands) = r.e
    BY <1>7, <1>8, Prefixed
  <2>4. DOMAIN n.operands = 1 .. k /\ k \in Nat
    BY <1>5, <2>2 DEF k
  <2> QED
    BY <2>2, <2>3, <2>4
<1>10. /\ ex \in Seq(LeafNodes) /\ Len(ex) = Len(chain) + 1 /\ ex[1] = callee /\ Len(chain) \in Nat
       /\ \A j \in 1 .. Len(chain) : ex[j + 1] = chain[j]
  OBVIOUS
<1> HIDE DEF k, ex
<1>11. \A i \in 1 .. k : i # 1 => i - 1 \in 1 .. Len(types) /\ (i - 1) + 1 = i
  BY <1>5 DEF k
<1>12. \A x \in {n} \cup ToSet(n.operands) : x.op = "CAST" => SoundCast(x)
  <2>1. SUFFICES ASSUME NEW i \in 1 .. k
                 PROVE  n.operands[i].op = "CAST" => SoundCast(n.operands[i])
    BY <1>7, <1>9 DEF ToSet
  <2>2. CASE i = 1
    BY <1>9, <2>2, LeafIs
  <2>3. CASE i # 1
    BY <1>6, <1>9, <1>11, <2>3
  <2> QED
    BY <2>2, <2>3
<1>13. ASSUME ~IntegerForBoolean(e)
       PROVE  Outcome(e, n)
  <2>1. Clean("CALL", chain, types)
    <3>1. SUFFICES ASSUME NEW j \in 1 .. Len(types), j <= Len(chain), types[j] = Bool, IsInteger(chain[j].type)
                   PROVE  FALSE
      BY DEF Clean
    <3>2. j \in DOMAIN Tail(e.operands)
      BY <1>1, <1>5, <1>10, <3>1
    <3>3. j + 2 \in DOMAIN e.operands[1].type /\ e.operands[1].type[j + 2] = Bool
      <4>1. j + 2 \in 1 .. Len(callee.type)
        BY <1>4, <1>5, <3>1
      <4> QED
        BY <1>4, <1>5, <1>10, <3>1, <4>1 DEF ex
    <3>4. IsInteger(e.operands[j + 1].type)
      <4>1. j \in 1 .. Len(chain)
        BY <1>5, <1>10, <3>1
      <4> QED
        BY <1>10, <3>1, <4>1 DEF ex
    <3> QED
      BY <1>13, <3>2, <3>3, <3>4 DEF IntegerForBoolean
  <2>2. Len(chain) = Len(types) /\ \A j \in 1 .. Len(types) : Stands(r.e[j], chain[j], types[j])
    BY <1>6, <2>1
  <2>3. \A j \in DOMAIN r.e : Fits(r.e[j], types[j]) /\ OperandOf(r.e[j], chain[j])
    BY ONLY <1>5, <1>6, <1>8, <2>2, chain \in Seq(LeafNodes), AllFitIs
  <2>4. SoundNode(n)
    <3>1. Types(n.operands)[1] = callee.type
      <4>1. 1 \in DOMAIN n.operands
        BY <1>5, <1>9 DEF k
      <4> QED
        BY <1>9, <4>1 DEF Types
    <3>2. Tail(Tail(Types(n.operands)[1])) = types
      BY <3>1 DEF types
    <3>3. n.type = Types(n.operands)[1][2]
      BY <1>4, <1>7, <3>1 DEF signature
    <3>4. NodeFits(n)
      BY <1>2, <1>6, <1>7, <1>9, <2>3, <3>1, <3>2, <3>3 DEF NodeFits
    <3> QED
      BY <1>7, <3>4, OtherNode
  <2>5. \A i \in 1 .. k : OperandOf(n.operands[i], ex[i])
    <3>1. OperandOf(callee, callee)
      BY LeafOperand
    <3>2. \A j \in 1 .. Len(types) : OperandOf(n.operands[j + 1], ex[j + 1])
      <4>1. \A j \in 1 .. Len(types) : j \in DOMAIN r.e
        BY <1>6, <1>8
      <4> QED
        BY <1>9, <1>10, <2>2, <2>3, <4>1
    <3> QED
      BY <1>9, <1>10, <1>11, <3>1, <3>2
  <2>6. ex = Expected(e)
    BY ExpectedSame DEF ex
  <2>7. ex = [i \in 1 .. k |-> ex[i]]
    BY <1>10, <2>2 DEF k
  <2> QED
    BY <1>5, <1>7, <1>9, <2>4, <2>5, <2>6, <2>7, OutcomeFrom
<1>14. Outcome(e, n)
  <2>1. e.op \notin Statements => n.type \in AllTypes /\ n.op # "LITERAL"
    BY <1>5, <1>7
  <2> QED
    BY <1>12, <1>13, <2>1 DEF Outcome
<1> QED
  BY <1>3, <1>14

-----------------------------------------------------------------------------
(* An expression as a step builds it.                                         *)

OneOperand == {"BITWISE_NOT", "NEGATE", "POSTFIX", "LET", "CONDITION", "NOT", "NEW_ARRAY", "IDENTITY", "NATIVE",
               "CAST", "SET_SYMBOL", "DEFINE", "RETURN", "GET_FIELD"}
TwoOperands == {"COMPARE", "LOGIC", "NUMERIC", "NUMERIC_ASSIGN", "SHIFT", "SHIFT_ASSIGN", "STR_CONCAT", "STR_CONCAT_ASSIGN",
                "IDENTITY", "SET_FIELD", "GET_INDEX"}
TypedBefore == {"NOT", "NEW_ARRAY", "IDENTITY", "NATIVE", "CAST", "SET_SYMBOL", "DEFINE", "RETURN", "COMPARE", "LOGIC",
                "STR_CONCAT", "STR_CONCAT_ASSIGN", "NEW"}

BuiltWith(e, v) ==
  \/ e.op \in OneOperand /\ e.operands = <<v>>
  \/ e.op \in TwoOperands /\ \E w \in LeafNodes : e.operands = <<v, w>>
  \/ e.op \in {"SET_INDEX", "TERNARY"} /\ \E w, x \in LeafNodes : e.operands = <<v, w, x>>
  \/ e.op \in {"CALL", "NEW"} /\ \E list \in Seq(LeafNodes) : e.operands = <<v>> \o list

Built(e) ==
  /\ IsNode(e)
  /\ \E v \in LeafNodes : BuiltWith(e, v)
  /\ e.op \in TypedBefore => e.type \in AllTypes
  /\ e.op = "LOGIC" => e.how \in {"AND", "OR", "XOR"}
  /\ e.op = "NEW" => \E class \in Classes : e.type = ObjectOf(class)

LEMMA AnalyzeIs ==
  ASSUME NEW e
  PROVE  /\ e.op = "BITWISE_NOT" => Analyze(e) = BitwiseNot(e)
         /\ e.op = "NEGATE" => Analyze(e) = Negate(e)
         /\ e.op = "CALL" => Analyze(e) = Call(e)
         /\ e.op = "CAST" => Analyze(e) = ExplicitCast(e)
         /\ e.op = "COMPARE" => Analyze(e) = Compare(e)
         /\ e.op = "IDENTITY" => Analyze(e) = Identity(e)
         /\ e.op = "LOGIC" => Analyze(e) = Logic(e)
         /\ e.op \in {"GET_FIELD", "SET_FIELD"} => Analyze(e) = Field(e)
         /\ e.op \in {"GET_INDEX", "SET_INDEX"} => Analyze(e) = Index(e)
         /\ e.op \in {"SET_SYMBOL", "DEFINE", "RETURN"} => Analyze(e) = Assign(e)
         /\ e.op = "LET" => Analyze(e) = Let(e)
         /\ e.op = "CONDITION" => Analyze(e) = Condition(e)
         /\ e.op = "NATIVE" => Analyze(e) = Done(e)
         /\ e.op = "NEW" => Analyze(e) = New(e)
         /\ e.op = "NEW_ARRAY" => Analyze(e) = NewArray(e)
         /\ e.op = "NOT" => Analyze(e) = Not(e)
         /\ e.op = "NUMERIC" => Analyze(e) = Numbers(e)
         /\ e.op = "NUMERIC_ASSIGN" => Analyze(e) = NumericAssign(e)
         /\ e.op = "POSTFIX" => Analyze(e) = Postfix(e)
         /\ e.op = "SHIFT" => Analyze(e) = Shift(e)
         /\ e.op = "SHIFT_ASSIGN" => Analyze(e) = ShiftAssign(e)
         /\ e.op \in {"STR_CONCAT", "STR_CONCAT_ASSIGN"} => Analyze(e) = StrConcat(e)
         /\ e.op = "TERNARY" => Analyze(e) = Ternary(e)
BY DEF Analyze

LEMMA PrefixedLeaf ==
  ASSUME NEW v \in LeafNodes, NEW list \in Seq(LeafNodes)
  PROVE  <<v>> \o list \in Seq(LeafNodes)
<1> DEFINE V == LeafNodes
<1>1. <<v>> \in Seq(V) /\ list \in Seq(V)
  OBVIOUS
<1> HIDE DEF V
<1>2. <<v>> \o list \in Seq(V)
  BY <1>1
<1> QED
  BY <1>2 DEF V

LEMMA BuiltOutcome ==
  ASSUME NEW e, Built(e), Analyze(e).end = "done"
  PROVE  Outcome(e, Analyze(e).e)
<1>1. IsNode(e) /\ (e.op \in TypedBefore => e.type \in AllTypes) /\ (\A y : Done(y).e = y)
      /\ (\A y : Ends(y).end = y)
  BY DEF Built, Done, Ends
<1>2. PICK v \in LeafNodes : BuiltWith(e, v)
  BY DEF Built
<1>3. CASE e.op \in {"CALL", "NEW"}
  <2>1. PICK list \in Seq(LeafNodes) : e.operands = <<v>> \o list
    BY <1>2, <1>3 DEF BuiltWith, OneOperand, TwoOperands
  <2>2. CASE e.op = "CALL"
    BY <1>1, <2>1, <2>2, AnalyzeIs, CallOutcome
  <2>3. CASE e.op = "NEW"
    <3>1. e.operands \in Seq(LeafNodes)
      BY <2>1, PrefixedLeaf
    <3>2. PICK class \in Classes : e.type = ObjectOf(class)
      BY <2>3 DEF Built
    <3> QED
      BY <1>1, <2>3, <3>1, <3>2, AnalyzeIs, NewOutcome
  <2> QED
    BY <1>3, <2>2, <2>3
<1>4. CASE e.op \in {"SET_INDEX", "TERNARY"}
  <2>1. PICK w \in LeafNodes, x \in LeafNodes : e.operands = <<v, w, x>>
    BY <1>2, <1>4 DEF BuiltWith, OneOperand, TwoOperands
  <2>2. CASE e.op = "SET_INDEX"
    BY <1>1, <2>1, <2>2, AnalyzeIs, IndexOutcome
  <2>3. CASE e.op = "TERNARY"
    BY <1>1, <2>1, <2>3, AnalyzeIs, TernaryOutcome
  <2> QED
    BY <1>4, <2>2, <2>3
<1>5. CASE e.op \in TwoOperands \ {"IDENTITY"}
  <2>1. PICK w \in LeafNodes : e.operands = <<v, w>>
    BY <1>2, <1>5 DEF BuiltWith, OneOperand, TwoOperands
  <2>2. CASE e.op = "COMPARE"
    BY <1>1, <2>1, <2>2, AnalyzeIs, CompareOutcome DEF TypedBefore
  <2>3. CASE e.op = "LOGIC"
    BY <1>1, <2>1, <2>3, AnalyzeIs, LogicOutcome DEF Built
  <2>4. CASE e.op = "NUMERIC"
    BY <1>1, <2>1, <2>4, AnalyzeIs, NumbersOutcome
  <2>5. CASE e.op = "NUMERIC_ASSIGN"
    BY <1>1, <2>1, <2>5, AnalyzeIs, NumericAssignOutcome
  <2>6. CASE e.op = "SHIFT"
    BY <1>1, <2>1, <2>6, AnalyzeIs, ShiftOutcome
  <2>7. CASE e.op = "SHIFT_ASSIGN"
    BY <1>1, <2>1, <2>7, AnalyzeIs, ShiftAssignOutcome
  <2>8. CASE e.op \in {"STR_CONCAT", "STR_CONCAT_ASSIGN"}
    <3>1. Analyze(e) = StrConcat(e)
      BY <2>8, AnalyzeIs
    <3>2. Analyze(e) = Done(e)
      BY <1>1, <3>1 DEF StrConcat
    <3>3. e.operands \in Seq(LeafNodes) /\ e.type \in AllTypes
      BY <1>1, <2>1, <2>8, LeafSequences DEF TypedBefore
    <3>4. Outcome(e, e)
      BY <1>1, <2>8, <3>1, <3>3, PlainOutcome
    <3> QED
      BY <1>1, <3>2, <3>4
  <2>9. CASE e.op = "SET_FIELD"
    BY <1>1, <2>1, <2>9, AnalyzeIs, FieldOutcome
  <2>10. CASE e.op = "GET_INDEX"
    BY <1>1, <2>1, <2>10, AnalyzeIs, IndexOutcome
  <2> QED
    BY <1>5, <2>2, <2>3, <2>4, <2>5, <2>6, <2>7, <2>8, <2>9, <2>10 DEF TwoOperands
<1>6. CASE e.op = "IDENTITY"
  <2>1. e.operands \in Seq(LeafNodes) /\ Len(e.operands) \in {1, 2}
    BY <1>2, <1>6, LeafSequences DEF BuiltWith, OneOperand, TwoOperands
  <2> QED
    BY <1>1, <1>6, <2>1, AnalyzeIs, IdentityOutcome DEF TypedBefore
<1>7. CASE e.op \in OneOperand \ {"IDENTITY"}
  <2>1. e.operands = <<v>> /\ e.operands \in Seq(LeafNodes) /\ e.operands[1] = v
    <3>1. e.op \notin TwoOperands /\ e.op \notin {"SET_INDEX", "TERNARY"} /\ e.op \notin {"CALL", "NEW"}
      BY <1>7 DEF OneOperand, TwoOperands
    <3>2. e.operands = <<v>>
      BY <1>2, <3>1 DEF BuiltWith
    <3> QED
      BY <3>2, LeafSequences
  <2>2. CASE e.op = "BITWISE_NOT"
    BY <1>1, <2>1, <2>2, AnalyzeIs, BitwiseNotOutcome
  <2>3. CASE e.op = "NEGATE"
    BY <1>1, <2>1, <2>3, AnalyzeIs, NegateOutcome
  <2>4. CASE e.op \in {"POSTFIX", "LET"}
    <3> DEFINE n == [e EXCEPT !.type = v.type]
    <3>1. Analyze(e) = IF e.op = "POSTFIX" THEN Postfix(e) ELSE Let(e)
      BY <2>4, AnalyzeIs
    <3>2. Analyze(e) = Done(n)
      <4>1. Postfix(e) = Done(n) /\ Let(e) \in {Done(n), Ends("fail")}
        BY <2>1 DEF Postfix, Let
      <4> HIDE DEF n
      <4> QED
        BY <1>1, <3>1, <4>1
    <3>3. Outcome(e, n)
      <4>1. e.op = "LET" => v.type # Void
        <5>1. e.op = "LET" => Let(e) = Done(n)
          BY <3>1, <3>2
        <5>2. v.type = Void => Let(e) = Ends("fail")
          BY <2>1 DEF Let
        <5>3. Done(n).end = "done" /\ Ends("fail").end = "fail"
          BY DEF Done, Ends
        <5> HIDE DEF n
        <5> QED
          BY <5>1, <5>2, <5>3
      <4> QED
        BY <1>1, <2>1, <2>4, <4>1, TypedOutcome
    <3> HIDE DEF n
    <3> QED
      BY <1>1, <3>2, <3>3
  <2>5. CASE e.op \in {"CONDITION", "NATIVE", "NEW_ARRAY"}
    <3>1. /\ e.op = "CONDITION" => Analyze(e) = Condition(e)
          /\ e.op = "NATIVE" => Analyze(e) = Done(e)
          /\ e.op = "NEW_ARRAY" => Analyze(e) = NewArray(e)
      BY AnalyzeIs
    <3>2. Condition(e) \in {Done(e), Ends("fail")} /\ NewArray(e) \in {Done(e), Ends("fail")}
      BY DEF Condition, NewArray
    <3>3. Analyze(e) = Done(e)
      BY <1>1, <2>5, <3>1, <3>2
    <3>4. Outcome(e, e)
      BY <1>1, <2>1, <2>5, <3>1, PlainOutcome DEF TypedBefore
    <3> QED
      BY <1>1, <3>3, <3>4
  <2>6. CASE e.op = "NOT"
    BY <1>1, <2>1, <2>6, AnalyzeIs, NotOutcome
  <2>7. CASE e.op = "CAST"
    BY <1>1, <2>1, <2>7, AnalyzeIs, CastOutcome DEF TypedBefore
  <2>8. CASE e.op \in {"SET_SYMBOL", "DEFINE", "RETURN"}
    BY <1>1, <2>1, <2>8, AnalyzeIs, AssignOutcome DEF TypedBefore
  <2>9. CASE e.op = "GET_FIELD"
    BY <1>1, <2>1, <2>9, AnalyzeIs, FieldOutcome
  <2> QED
    BY <1>7, <2>2, <2>3, <2>4, <2>5, <2>6, <2>7, <2>8, <2>9 DEF OneOperand
<1> QED
  BY <1>2, <1>3, <1>4, <1>5, <1>6, <1>7 DEF BuiltWith

-----------------------------------------------------------------------------
(* The invariant.                                                             *)

\* Between two operations the expression is an operand; after one it is what
\* the analysis of the given expression makes.
AnalysisOf ==
  /\ given = <<>> => expression \in LeafNodes /\ end = "done"
  /\ given # <<>> =>
       /\ given = <<given[1]>> /\ Built(given[1]) /\ end = Analyze(given[1]).end
       /\ end = "done" => expression = Analyze(given[1]).e

LEMMA NodeIs ==
  ASSUME NEW op, NEW how, NEW type, NEW operands
  PROVE  LET e == Node(op, how, type, operands)
         IN  IsNode(e) /\ e.op = op /\ e.how = how /\ e.type = type /\ e.operands = operands
BY DEF IsNode, Node

LEMMA Joined ==
  ASSUME NEW v \in LeafNodes, NEW a \in LeafNodes, NEW b \in LeafNodes
  PROVE  <<v>> \o <<>> = <<v>> /\ <<v>> \o <<a>> = <<v, a>> /\ <<v>> \o <<a, b>> = <<v, a, b>>
<1> DEFINE V == LeafNodes
           p == <<v>> \o <<>>
           q == <<v>> \o <<a>>
           r == <<v>> \o <<a, b>>
<1>1. v \in V /\ a \in V /\ b \in V
  OBVIOUS
<1> HIDE DEF V
<1>2. p \in Seq(V) /\ Len(p) = 1 /\ p[1] = v
  BY <1>1
<1>3. q \in Seq(V) /\ Len(q) = 2 /\ q[1] = v /\ q[2] = a
  BY <1>1
<1>4. r \in Seq(V) /\ Len(r) = 3 /\ r[1] = v /\ r[2] = a /\ r[3] = b
  BY <1>1
<1> HIDE DEF p, q, r
<1>5. p = <<v>> /\ q = <<v, a>> /\ r = <<v, a, b>>
  BY <1>2, <1>3, <1>4
<1> QED
  BY <1>5 DEF p, q, r

LEMMA BuiltByWith ==
  ASSUME expression \in LeafNodes, NEW op, NEW how, NEW type, NEW others, With(op, how, type, others),
         LET e == Node(op, how, type, <<expression>> \o others) IN Built(e)
  PROVE  AnalysisOf'
<1> DEFINE e == Node(op, how, type, <<expression>> \o others)
           r == Analyze(e)
<1>1. given' = <<e>> /\ end' = r.end /\ (r.end = "done" => expression' = r.e)
  BY DEF With, Analyzes
<1> HIDE DEF r
<1>2. Built(e)
  OBVIOUS
<1> HIDE DEF e
<1>3. <<e>>[1] = e /\ <<e>> # <<>>
  OBVIOUS
<1> QED
  BY <1>1, <1>2, <1>3 DEF AnalysisOf, r

LEMMA TypesOfTargets ==
  /\ Leaves \subseteq LeafNodes /\ Arguments \subseteq Seq(LeafNodes)
  /\ \A t \in Targets : t \in AllTypes /\ ArrayOf(t) \in AllTypes
  /\ \A c \in Classes : ObjectOf(c) \in AllTypes
<1>1. \A c \in Classes : ObjectOf(c) \in AllTypes
  BY TypesAssumption DEF Objects
<1> QED
  BY <1>1, OperandsAssumption

LEMMA UnaryStep ==
  ASSUME AnalysisOf, Unary
  PROVE  AnalysisOf'
<1>1. expression \in LeafNodes
  BY DEF AnalysisOf, Unary, With, Analyzes
<1>2. ASSUME NEW op \in OneOperand, NEW how, NEW type, op \in TypedBefore => type \in AllTypes,
             With(op, how, type, <<>>)
      PROVE  AnalysisOf'
  <2> DEFINE e == Node(op, how, type, <<expression>> \o <<>>)
  <2>1. IsNode(e) /\ e.op = op /\ e.type = type /\ e.operands = <<expression>>
    BY <1>1, NodeIs, Joined
  <2>2. op \notin {"LOGIC", "NEW"}
    BY <1>2 DEF OneOperand
  <2>3. Built(e)
    <3> HIDE DEF e
    <3> QED
      BY <1>1, <1>2, <2>1, <2>2 DEF Built, BuiltWith
  <2> QED
    BY <1>1, <1>2, <2>3, BuiltByWith
<1>3. /\ \A t \in Targets : ArrayOf(t) \in AllTypes
      /\ Bool \in AllTypes /\ Void \in AllTypes
  BY TypesOfTargets, OneTypes
<1>4. CASE \E op \in {"BITWISE_NOT", "NEGATE", "POSTFIX", "LET", "CONDITION"} : With(op, "", Untyped, <<>>)
  BY <1>2, <1>4 DEF OneOperand, TypedBefore
<1>5. CASE With("NOT", "", Bool, <<>>)
  BY <1>2, <1>3, <1>5 DEF OneOperand, TypedBefore
<1>6. CASE \E type \in Targets : With("NEW_ARRAY", "", ArrayOf(type), <<>>)
  BY <1>2, <1>3, <1>6 DEF OneOperand, TypedBefore
<1>7. CASE \E class \in Classes : With("IDENTITY", class, Bool, <<>>)
  BY <1>2, <1>3, <1>7 DEF OneOperand, TypedBefore
<1>8. CASE With("NATIVE", "", Void, <<>>)
  BY <1>2, <1>3, <1>8 DEF OneOperand, TypedBefore
<1> QED
  BY <1>4, <1>5, <1>6, <1>7, <1>8 DEF Unary

LEMMA ConversionStep ==
  ASSUME AnalysisOf, Conversion
  PROVE  AnalysisOf'
<1>1. PICK type \in Targets, op \in {"CAST", "SET_SYMBOL", "DEFINE", "RETURN"} : With(op, "", type, <<>>)
  BY DEF Conversion
<1> DEFINE e == Node(op, "", type, <<expression>> \o <<>>)
<1>2. expression \in LeafNodes
  BY <1>1 DEF AnalysisOf, With, Analyzes
<1>3. IsNode(e) /\ e.op = op /\ e.type = type /\ e.operands = <<expression>> /\ type \in AllTypes
  <2>1. <<expression>> \o <<>> = <<expression>>
    BY <1>2, Joined
  <2>2. type \in AllTypes
    BY TypesOfTargets
  <2> QED
    BY <2>1, <2>2 DEF IsNode, Node
<1>4. Built(e)
  <2> HIDE DEF e
  <2> QED
    BY <1>1, <1>2, <1>3 DEF Built, BuiltWith, OneOperand
<1> QED
  BY <1>1, <1>2, <1>4, BuiltByWith

LEMMA BinaryBuilt ==
  ASSUME expression \in LeafNodes, NEW other \in LeafNodes, NEW op \in TwoOperands, NEW how, NEW type,
         op \in TypedBefore => type \in AllTypes, op = "LOGIC" => how \in {"AND", "OR", "XOR"},
         With(op, how, type, <<other>>)
  PROVE  AnalysisOf'
<1> DEFINE e == Node(op, how, type, <<expression>> \o <<other>>)
<1>1. IsNode(e) /\ e.op = op /\ e.how = how /\ e.type = type /\ e.operands = <<expression, other>>
  <2>1. <<expression>> \o <<other>> = <<expression, other>>
    BY Joined
  <2> QED
    BY <2>1 DEF IsNode, Node
<1>2. op # "NEW"
  BY DEF TwoOperands
<1>3. Built(e)
  <2> HIDE DEF e
  <2> QED
    BY <1>1, <1>2 DEF Built, BuiltWith
<1> QED
  BY <1>3, BuiltByWith

LEMMA BinaryStep ==
  ASSUME AnalysisOf, Binary
  PROVE  AnalysisOf'
<1>1. PICK other \in Leaves :
        \/ \E how \in {"EQ", "LT"} : With("COMPARE", how, Bool, <<other>>)
        \/ \E how \in {"AND", "OR", "XOR"} : With("LOGIC", how, Bool, <<other>>)
        \/ \E how \in {"ARITHMETIC", "BITWISE"}, op \in {"NUMERIC", "NUMERIC_ASSIGN"} :
             With(op, how, Untyped, <<other>>)
        \/ \E op \in {"SHIFT", "SHIFT_ASSIGN"} : With(op, "", Untyped, <<other>>)
        \/ \E op \in {"STR_CONCAT", "STR_CONCAT_ASSIGN"} : With(op, "", Str, <<other>>)
        \/ With("IDENTITY", "", Bool, <<other>>)
  BY DEF Binary
<1>2. expression \in LeafNodes
  BY <1>1 DEF AnalysisOf, With, Analyzes
<1>3. other \in LeafNodes /\ Bool \in AllTypes /\ Str \in AllTypes
  BY TypesOfTargets, OneTypes
<1>4. /\ {"COMPARE", "LOGIC", "NUMERIC", "NUMERIC_ASSIGN", "SHIFT", "SHIFT_ASSIGN", "STR_CONCAT", "STR_CONCAT_ASSIGN",
          "IDENTITY"} \subseteq TwoOperands
      /\ \A op \in {"NUMERIC", "NUMERIC_ASSIGN", "SHIFT", "SHIFT_ASSIGN"} : op \notin TypedBefore
  BY DEF TwoOperands, TypedBefore
<1>5. CASE \E how \in {"EQ", "LT"} : With("COMPARE", how, Bool, <<other>>)
  BY <1>2, <1>3, <1>4, <1>5, BinaryBuilt
<1>6. CASE \E how \in {"AND", "OR", "XOR"} : With("LOGIC", how, Bool, <<other>>)
  BY <1>2, <1>3, <1>4, <1>6, BinaryBuilt
<1>7. CASE \E how \in {"ARITHMETIC", "BITWISE"}, op \in {"NUMERIC", "NUMERIC_ASSIGN"} :
             With(op, how, Untyped, <<other>>)
  <2>1. PICK how \in {"ARITHMETIC", "BITWISE"}, op \in {"NUMERIC", "NUMERIC_ASSIGN"} : With(op, how, Untyped, <<other>>)
    BY <1>7
  <2>2. op \in TwoOperands /\ op \notin TypedBefore /\ op # "LOGIC"
    BY <1>4
  <2> QED
    BY <1>2, <1>3, <2>1, <2>2, BinaryBuilt
<1>8. CASE \E op \in {"SHIFT", "SHIFT_ASSIGN"} : With(op, "", Untyped, <<other>>)
  <2>1. PICK op \in {"SHIFT", "SHIFT_ASSIGN"} : With(op, "", Untyped, <<other>>)
    BY <1>8
  <2>2. op \in TwoOperands /\ op \notin TypedBefore /\ op # "LOGIC"
    BY <1>4
  <2> QED
    BY <1>2, <1>3, <2>1, <2>2, BinaryBuilt
<1>9. CASE \E op \in {"STR_CONCAT", "STR_CONCAT_ASSIGN"} : With(op, "", Str, <<other>>)
  <2>1. PICK op \in {"STR_CONCAT", "STR_CONCAT_ASSIGN"} : With(op, "", Str, <<other>>)
    BY <1>9
  <2>2. op \in TwoOperands /\ op # "LOGIC"
    BY <1>4
  <2> QED
    BY <1>2, <1>3, <2>1, <2>2, BinaryBuilt
<1>10. CASE With("IDENTITY", "", Bool, <<other>>)
  BY <1>2, <1>3, <1>4, <1>10, BinaryBuilt
<1> QED
  BY <1>1, <1>5, <1>6, <1>7, <1>8, <1>9, <1>10

LEMMA TernaryBuilt ==
  ASSUME expression \in LeafNodes, NEW w \in LeafNodes, NEW x \in LeafNodes, NEW op \in {"SET_INDEX", "TERNARY"},
         With(op, "", Untyped, <<w, x>>)
  PROVE  AnalysisOf'
<1> DEFINE e == Node(op, "", Untyped, <<expression>> \o <<w, x>>)
<1>1. IsNode(e) /\ e.op = op /\ e.operands = <<expression, w, x>>
  <2>1. <<expression>> \o <<w, x>> = <<expression, w, x>>
    BY Joined
  <2> QED
    BY <2>1 DEF IsNode, Node
<1>2. op \notin TypedBefore
  BY DEF TypedBefore
<1>3. Built(e)
  <2> HIDE DEF e
  <2> QED
    BY <1>1, <1>2 DEF Built, BuiltWith
<1> QED
  BY <1>3, BuiltByWith

LEMMA ElementStep ==
  ASSUME AnalysisOf, Element
  PROVE  AnalysisOf'
<1>1. PICK other \in Leaves :
        \/ \E name \in FieldNames :
             \/ With("GET_FIELD", name, Untyped, <<>>)
             \/ With("SET_FIELD", name, Untyped, <<other>>)
        \/ With("GET_INDEX", "", Untyped, <<other>>)
        \/ \E value \in Leaves : With("SET_INDEX", "", Untyped, <<other, value>>)
  BY DEF Element
<1>2. expression \in LeafNodes
  BY <1>1 DEF AnalysisOf, With, Analyzes
<1>3. other \in LeafNodes /\ Leaves \subseteq LeafNodes
  BY TypesOfTargets
<1>4. {"SET_FIELD", "GET_INDEX"} \subseteq TwoOperands /\ \A op \in {"GET_FIELD", "SET_FIELD", "GET_INDEX"} : op \notin TypedBefore
  BY DEF TwoOperands, TypedBefore
<1>5. CASE \E name \in FieldNames : With("GET_FIELD", name, Untyped, <<>>)
  <2>1. PICK name \in FieldNames : With("GET_FIELD", name, Untyped, <<>>)
    BY <1>5
  <2> DEFINE e == Node("GET_FIELD", name, Untyped, <<expression>> \o <<>>)
  <2>2. IsNode(e) /\ e.op = "GET_FIELD" /\ e.operands = <<expression>>
    <3>1. <<expression>> \o <<>> = <<expression>>
      BY <1>2, Joined
    <3> QED
      BY <3>1 DEF IsNode, Node
  <2>3. Built(e)
    <3> HIDE DEF e
    <3> QED
      BY <1>2, <1>4, <2>2 DEF Built, BuiltWith, OneOperand
  <2> QED
    BY <1>2, <2>1, <2>3, BuiltByWith
<1>6. CASE \E name \in FieldNames : With("SET_FIELD", name, Untyped, <<other>>)
  BY <1>2, <1>3, <1>4, <1>6, BinaryBuilt
<1>7. CASE With("GET_INDEX", "", Untyped, <<other>>)
  BY <1>2, <1>3, <1>4, <1>7, BinaryBuilt
<1>8. CASE \E value \in Leaves : With("SET_INDEX", "", Untyped, <<other, value>>)
  BY <1>2, <1>3, <1>8, TernaryBuilt
<1> QED
  BY <1>1, <1>5, <1>6, <1>7, <1>8

LEMMA BranchesStep ==
  ASSUME AnalysisOf, Branches
  PROVE  AnalysisOf'
<1>1. PICK left \in Leaves, right \in Leaves : With("TERNARY", "", Untyped, <<left, right>>)
  BY DEF Branches
<1>2. expression \in LeafNodes /\ left \in LeafNodes /\ right \in LeafNodes
  BY <1>1, TypesOfTargets DEF AnalysisOf, With, Analyzes
<1> QED
  BY <1>1, <1>2, TernaryBuilt

LEMMA InvocationStep ==
  ASSUME AnalysisOf, Invocation
  PROVE  AnalysisOf'
<1>1. PICK list \in Arguments :
        \/ With("CALL", "", Untyped, list)
        \/ \E class \in Classes : With("NEW", "", ObjectOf(class), list)
  BY DEF Invocation
<1>2. expression \in LeafNodes /\ list \in Seq(LeafNodes)
  <2>1. expression \in LeafNodes
    BY <1>1 DEF AnalysisOf, With, Analyzes
  <2> QED
    BY <2>1, TypesOfTargets
<1>3. CASE With("CALL", "", Untyped, list)
  <2> DEFINE e == Node("CALL", "", Untyped, <<expression>> \o list)
  <2>1. IsNode(e) /\ e.op = "CALL" /\ e.operands = <<expression>> \o list
    BY DEF IsNode, Node
  <2>2. Built(e)
    <3> HIDE DEF e
    <3> QED
      BY <1>2, <2>1 DEF Built, BuiltWith, TypedBefore
  <2> QED
    BY <1>2, <1>3, <2>2, BuiltByWith
<1>4. ASSUME NEW class \in Classes, With("NEW", "", ObjectOf(class), list)
      PROVE  AnalysisOf'
  <2> DEFINE e == Node("NEW", "", ObjectOf(class), <<expression>> \o list)
  <2>1. IsNode(e) /\ e.op = "NEW" /\ e.type = ObjectOf(class) /\ e.operands = <<expression>> \o list
    BY DEF IsNode, Node
  <2>2. ObjectOf(class) \in AllTypes
    BY TypesOfTargets
  <2>3. Built(e)
    <3> HIDE DEF e
    <3> QED
      BY <1>2, <2>1, <2>2 DEF Built, BuiltWith, TypedBefore
  <2> QED
    BY <1>2, <1>4, <2>3, BuiltByWith
<1> QED
  BY <1>1, <1>3, <1>4

LEMMA GoOnStep ==
  ASSUME AnalysisOf, GoOn
  PROVE  AnalysisOf'
<1>1. given # <<>> /\ end = "done" /\ given[1].op \notin Statements /\ given' = <<>> /\ end' = "done"
      /\ expression' = IF expression.op = "LITERAL" THEN expression ELSE Value(expression.type)
  BY DEF GoOn
<1>2. Outcome(given[1], expression)
  BY <1>1, BuiltOutcome DEF AnalysisOf
<1>3. expression.type \in AllTypes /\ expression.op # "LITERAL"
  BY <1>1, <1>2 DEF Outcome
<1>4. expression' \in LeafNodes
  BY <1>1, <1>3 DEF LeafNodes
<1> QED
  BY <1>1, <1>4 DEF AnalysisOf

(* The analysed expression is what the analysis makes of the given one, and    *)
(* the operands of the given one are analysed.                               *)
THEOREM AnalysisOfAlways == Spec => []AnalysisOf
<1>1. Init => AnalysisOf
  BY TypesOfTargets DEF Init, AnalysisOf
<1>2. AnalysisOf /\ [Next]_vars => AnalysisOf'
  <2>1. SUFFICES ASSUME AnalysisOf, [Next]_vars
                 PROVE  AnalysisOf'
    OBVIOUS
  <2>2. CASE Unary
    BY <2>1, <2>2, UnaryStep
  <2>3. CASE Conversion
    BY <2>1, <2>3, ConversionStep
  <2>4. CASE Binary
    BY <2>1, <2>4, BinaryStep
  <2>5. CASE Element
    BY <2>1, <2>5, ElementStep
  <2>6. CASE Branches
    BY <2>1, <2>6, BranchesStep
  <2>7. CASE Invocation
    BY <2>1, <2>7, InvocationStep
  <2>8. CASE GoOn
    BY <2>1, <2>8, GoOnStep
  <2>9. CASE UNCHANGED vars
    BY <2>1, <2>9 DEF vars, AnalysisOf
  <2> QED
    BY <2>1, <2>2, <2>3, <2>4, <2>5, <2>6, <2>7, <2>8, <2>9 DEF Next
<1> QED
  BY <1>1, <1>2, PTL DEF Spec

(* Every operand has the type its operation needs, and every cast fits.       *)
THEOREM WellTypedAlways == Spec => []WellTyped
<1>1. AnalysisOf => WellTyped
  <2>1. SUFFICES ASSUME AnalysisOf, Analyzed, ~IntegerForBoolean(given[1])
                 PROVE  \A e \in Nodes : Accepted(e)
    BY DEF WellTyped, Accepted
  <2>2. Outcome(given[1], expression)
    BY <2>1, BuiltOutcome DEF AnalysisOf, Analyzed
  <2> QED
    BY <2>1, <2>2 DEF Outcome, Nodes
<1> QED
  BY <1>1, AnalysisOfAlways, PTL

(* Every cast of numbers is the one an explicit cast would be.                *)
THEOREM TablesAgreeAlways == Spec => []TablesAgree
<1>1. AnalysisOf => TablesAgree
  <2>1. SUFFICES ASSUME AnalysisOf, Analyzed, NEW cast \in Casts
                 PROVE  {Kind(cast.operands[1].type), Kind(cast.type)} \subseteq Numeric =>
                          cast.how = ExplicitMethod(Kind(cast.type), Kind(cast.operands[1].type))
    BY DEF TablesAgree
  <2>2. Outcome(given[1], expression)
    BY <2>1, BuiltOutcome DEF AnalysisOf, Analyzed
  <2>3. SoundCast(cast)
    BY <2>1, <2>2 DEF Outcome, Casts, Nodes
  <2> QED
    BY <2>3 DEF SoundCast
<1> QED
  BY <1>1, AnalysisOfAlways, PTL

(* No operand is lost, exchanged or given to another node.                    *)
THEOREM OperandsKeptAlways == Spec => []OperandsKept
<1>1. AnalysisOf => OperandsKept
  <2>1. SUFFICES ASSUME AnalysisOf, Analyzed, ~IntegerForBoolean(given[1])
                 PROVE  [i \in DOMAIN expression.operands |-> Bare(expression.operands[i])] = Expected(given[1])
    BY DEF OperandsKept
  <2>2. Outcome(given[1], expression)
    BY <2>1, BuiltOutcome DEF AnalysisOf, Analyzed
  <2> QED
    BY <2>1, <2>2 DEF Outcome
<1> QED
  BY <1>1, AnalysisOfAlways, PTL

-----------------------------------------------------------------------------
(* The order of the operands.                                                 *)

LEMMA SwappedIs ==
  ASSUME NEW a, NEW b, NEW c
  PROVE  Swapped(<<a, b>>) = <<b, a>> /\ Swapped(<<c, a, b>>) = <<c, b, a>>
<1> DEFINE V == {a, b, c}
           p == SubSeq(<<a, b>>, 1, 0)
           q == SubSeq(<<c, a, b>>, 1, 1)
           s == p \o <<b, a>>
           t == q \o <<b, a>>
<1>1. <<a, b>> \in Seq(V) /\ <<b, a>> \in Seq(V) /\ <<c, a, b>> \in Seq(V) /\ <<c>> \in Seq(V)
      /\ Len(<<a, b>>) = 2 /\ Len(<<c, a, b>>) = 3
  OBVIOUS
<1>2. Swapped(<<a, b>>) = s /\ Swapped(<<c, a, b>>) = t
  <2>1. 2 - 2 = 0 /\ 3 - 2 = 1 /\ 2 - 1 = 1 /\ 3 - 1 = 2
    OBVIOUS
  <2> QED
    BY <2>1 DEF Swapped
<1>3. p = <<>> /\ q = <<c>>
  <2> DEFINE u == <<a, b>>
             w == <<c, a, b>>
  <2>1. u \in Seq(V) /\ w \in Seq(V) /\ Len(u) = 2 /\ Len(w) = 3 /\ w[1] = c
    BY <1>1
  <2> HIDE DEF u, w, V
  <2>2. SubSeq(u, 1, 0) \in Seq(V) /\ Len(SubSeq(u, 1, 0)) = 0
    BY ONLY <2>1
  <2>3. SubSeq(w, 1, 1) \in Seq(V) /\ Len(SubSeq(w, 1, 1)) = 1 /\ SubSeq(w, 1, 1)[1] = c
    BY ONLY <2>1
  <2>4. SubSeq(u, 1, 0) = <<>> /\ SubSeq(w, 1, 1) = <<c>>
    <3> DEFINE x == SubSeq(u, 1, 0)
               y == SubSeq(w, 1, 1)
    <3>1. x \in Seq(V) /\ Len(x) = 0 /\ y \in Seq(V) /\ Len(y) = 1 /\ y[1] = c
      BY ONLY <2>2, <2>3
    <3> HIDE DEF x, y
    <3>2. x = <<>> /\ y = <<c>>
      BY ONLY <3>1
    <3> QED
      BY ONLY <3>2 DEF x, y
  <2> QED
    BY ONLY <2>4 DEF u, w
<1>4. s \in Seq(V) /\ Len(s) = 2 /\ s[1] = b /\ s[2] = a
  <2> HIDE DEF p, V
  <2> QED
    BY <1>1, <1>3
<1>5. t \in Seq(V) /\ Len(t) = 3 /\ t[1] = c /\ t[2] = b /\ t[3] = a
  <2> HIDE DEF q, V
  <2> QED
    BY <1>1, <1>3
<1> HIDE DEF s, t
<1>6. s = <<b, a>> /\ t = <<c, b, a>>
  BY <1>4, <1>5
<1> QED
  BY <1>2, <1>6

\* A node mirrored, in the form in which a node is remade.
LEMMA MirroredIs ==
  ASSUME NEW e, IsNode(e)
  PROVE  \A a, b : e.operands = <<a, b>> => Mirrored(e) = Remade(e, e.type, <<b, a>>)
<1>1. Mirrored(e) = [e EXCEPT !.operands = Swapped(e.operands)]
  BY DEF Mirrored
<1>2. Mirrored(e) = Remade(e, e.type, Swapped(e.operands))
  BY ONLY IsNode(e), <1>1, RemadeOperands
<1> QED
  BY <1>2, SwappedIs

LEMMA RemadeSwapped ==
  ASSUME NEW e, IsNode(e), NEW m, m.op = e.op, m.how = e.how, NEW t, NEW ops
  PROVE  Mirrored(Remade(e, t, ops)) = Remade(m, t, Swapped(ops))
<1> DEFINE n == Remade(e, t, ops)
<1>1. IsNode(n) /\ n.op = e.op /\ n.how = e.how /\ n.type = t /\ n.operands = ops
  BY RemadeFields
<1> HIDE DEF n
<1>2. Mirrored(n) = [n EXCEPT !.operands = Swapped(n.operands)]
  BY DEF Mirrored
<1>3. Mirrored(n) = Remade(n, t, Swapped(ops))
  BY ONLY <1>1, <1>2, RemadeOperands
<1>4. Remade(n, t, Swapped(ops)) = Remade(m, t, Swapped(ops))
  BY <1>1 DEF Remade
<1> QED
  BY <1>3, <1>4 DEF n

LEMMA RemadeMirrored ==
  ASSUME NEW e, IsNode(e), NEW m, m.op = e.op, m.how = e.how, NEW t, NEW x, NEW y
  PROVE  Mirrored(Remade(e, t, <<x, y>>)) = Remade(m, t, <<y, x>>)
<1> DEFINE ops == <<x, y>>
<1>1. Swapped(ops) = <<y, x>>
  BY SwappedIs
<1> HIDE DEF ops
<1>2. Mirrored(Remade(e, t, ops)) = Remade(m, t, Swapped(ops))
  BY RemadeSwapped
<1> QED
  BY ONLY <1>1, <1>2 DEF ops

LEMMA BranchesMirrored ==
  ASSUME NEW e, IsNode(e), NEW m, m.op = e.op, m.how = e.how, NEW t, NEW x, NEW y, NEW z
  PROVE  Mirrored(Remade(e, t, <<z, x, y>>)) = Remade(m, t, <<z, y, x>>)
<1> DEFINE ops == <<z, x, y>>
<1>1. Swapped(ops) = <<z, y, x>>
  BY SwappedIs
<1> HIDE DEF ops
<1>2. Mirrored(Remade(e, t, ops)) = Remade(m, t, Swapped(ops))
  BY RemadeSwapped
<1> QED
  BY ONLY <1>1, <1>2 DEF ops

\* One analysis is the other with two operands exchanged.
Exchanged(x, y) ==
  \/ x.end # "done" /\ y.end = x.end
  \/ x.end = "done" /\ y = Done(Mirrored(x.e))

StrAndNull(e) == \E i, j \in 1 .. 2 : e.operands[i].type = Str /\ IsNullLiteral(e.operands[j])

LEMMA ConcatenatedIsException ==
  ASSUME NEW e, NEW a \in LeafNodes, NEW b \in LeafNodes, e.operands = <<a, b>>, NEW allow \in BOOLEAN,
         Concatenated(a, b, allow) \/ Concatenated(b, a, allow)
  PROVE  StrAndNull(e)
<1>1. /\ Kind(a.type) = "STRING" => a.type = Str
      /\ Kind(b.type) = "STRING" => b.type = Str
  BY LeafIs, KindFacts
<1>2. /\ Kind(a.type) = "OBJECT" /\ a.op = "LITERAL" => IsNullLiteral(a)
      /\ Kind(b.type) = "OBJECT" /\ b.op = "LITERAL" => IsNullLiteral(b)
  BY LeafIs DEF IsNullLiteral
<1>3. e.operands[1] = a /\ e.operands[2] = b /\ 1 \in 1 .. 2 /\ 2 \in 1 .. 2
  OBVIOUS
<1>4. \/ a.type = Str /\ IsNullLiteral(b)
      \/ b.type = Str /\ IsNullLiteral(a)
  BY <1>1, <1>2 DEF Concatenated
<1> QED
  BY ONLY <1>3, <1>4 DEF StrAndNull

LEMMA NumbersIs ==
  ASSUME NEW e, IsNode(e), NEW a, NEW b, e.operands = <<a, b>>
  PROVE  LET allow == e.how = "ARITHMETIC"
             l == Kind(a.type)
             r == Kind(b.type)
             k == Common(l, r, allow)
         IN  /\ Taken(l, r, allow) => Numbers(e) = Done(Remade(e, <<k>>, <<Wrapped(k, a), Wrapped(k, b)>>))
             /\ ~Taken(l, r, allow) /\ ~Concatenated(a, b, allow) => Numbers(e) = Ends("fail")
<1> DEFINE allow == e.how = "ARITHMETIC"
           l == Kind(a.type)
           r == Kind(b.type)
           k == Common(l, r, allow)
           made == BinaryOperands(e, allow)
           row == CommonRow(a, b, allow)
           ops == <<Wrapped(k, a), Wrapped(k, b)>>
<1>1. allow \in BOOLEAN /\ e.operands[1] = a /\ e.operands[2] = b
  OBVIOUS
<1>2. Numbers(e) = IF made.end = "done" THEN Done([e EXCEPT !.operands = made.e, !.type = <<row.kind>>]) ELSE made
  BY <1>1 DEF Numbers, Then
<1> HIDE DEF allow
<1>3. BinarySays(a, b, allow, made)
  BY <1>1, BinaryIs
<1>4. (\A y : Done(y).end = "done" /\ Done(y).e = y) /\ Ends("fail").end # "done"
  BY DEF Done, Ends
<1>5. ASSUME Taken(l, r, allow)
      PROVE  Numbers(e) = Done(Remade(e, <<k>>, ops))
  <2>1. made = Done(ops)
    BY <1>3, <1>5 DEF BinarySays
  <2>2. row.kind = k
    <3>1. row = Regular(k, l, r)
      BY <1>1, <1>5, CommonRowIs
    <3>2. Regular(k, l, r).kind = k
      <4>1. 0 \in 0 .. 1 /\ 1 \in 1 .. 3
        OBVIOUS
      <4> HIDE DEF k, l, r
      <4> QED
        BY <4>1, CallsOfRow
    <3> QED
      BY <3>1, <3>2
  <2> HIDE DEF made, row, ops, k
  <2>3. Numbers(e) = Done([e EXCEPT !.operands = ops, !.type = <<k>>])
    BY <1>2, <1>4, <2>1, <2>2
  <2> QED
    BY ONLY IsNode(e), <2>3, RemadeBoth
<1>6. ASSUME ~Taken(l, r, allow), ~Concatenated(a, b, allow)
      PROVE  Numbers(e) = Ends("fail")
  <2>1. made = Ends("fail")
    BY <1>3, <1>6 DEF BinarySays
  <2> HIDE DEF made
  <2> QED
    BY <1>2, <1>4, <2>1
<1> QED
  BY <1>5, <1>6 DEF allow

LEMMA NumbersExchanged ==
  ASSUME NEW e, IsNode(e), NEW a \in LeafNodes, NEW b \in LeafNodes, e.operands = <<a, b>>, ~StrAndNull(e)
  PROVE  Exchanged(Numbers(e), Numbers(Mirrored(e)))
<1> DEFINE allow == e.how = "ARITHMETIC"
           l == Kind(a.type)
           r == Kind(b.type)
           k == Common(l, r, allow)
           m == Remade(e, e.type, <<b, a>>)
           x == Wrapped(k, a)
           y == Wrapped(k, b)
<1>1. Mirrored(e) = m
  BY MirroredIs
<1>2. IsNode(m) /\ m.op = e.op /\ m.how = e.how /\ m.operands = <<b, a>>
  BY RemadeFields
<1> HIDE DEF m
<1>3. allow \in BOOLEAN /\ (m.how = "ARITHMETIC") = allow
  BY <1>2
<1> HIDE DEF allow
<1>4. ~Concatenated(a, b, allow) /\ ~Concatenated(b, a, allow)
  BY <1>3, ConcatenatedIsException
<1>5. CASE Taken(l, r, allow)
  <2>1. Common(r, l, allow) = k /\ Taken(r, l, allow)
    BY <1>3, <1>5, CommonKind
  <2>2. Numbers(e) = Done(Remade(e, <<k>>, <<x, y>>))
    BY <1>5, NumbersIs DEF allow
  <2>3. Numbers(m) = Done(Remade(m, <<k>>, <<y, x>>))
    <3>1. LET c == Common(r, l, allow)
          IN  Numbers(m) = Done(Remade(m, <<c>>, <<Wrapped(c, b), Wrapped(c, a)>>))
      BY <1>2, <1>3, <2>1, NumbersIs
    <3> HIDE DEF k
    <3> QED
      BY <2>1, <3>1
  <2>4. Mirrored(Remade(e, <<k>>, <<x, y>>)) = Remade(m, <<k>>, <<y, x>>)
    <3> DEFINE t == <<k>>
    <3> HIDE DEF t, x, y
    <3>1. Mirrored(Remade(e, t, <<x, y>>)) = Remade(m, t, <<y, x>>)
      BY <1>2, RemadeMirrored
    <3> QED
      BY ONLY <3>1 DEF t
  <2>5. \A n : Done(n).end = "done" /\ Done(n).e = n
    BY DEF Done
  <2> HIDE DEF k, x, y
  <2> QED
    BY <1>1, <2>2, <2>3, <2>4, <2>5 DEF Exchanged
<1>6. CASE ~Taken(l, r, allow)
  <2>1. ~Taken(r, l, allow)
    BY <1>6 DEF Taken
  <2>2. Numbers(e) = Ends("fail")
    BY <1>4, <1>6, NumbersIs DEF allow
  <2>3. Numbers(m) = Ends("fail")
    BY <1>2, <1>3, <1>4, <2>1, NumbersIs
  <2>4. Ends("fail").end = "fail"
    BY DEF Ends
  <2> QED
    BY <1>1, <2>2, <2>3, <2>4 DEF Exchanged
<1> QED
  BY <1>5, <1>6

LEMMA CompareExchanged ==
  ASSUME NEW e, IsNode(e), NEW a \in LeafNodes, NEW b \in LeafNodes, e.operands = <<a, b>>, ~StrAndNull(e)
  PROVE  Exchanged(Compare(e), Compare(Mirrored(e)))
<1> DEFINE l == Kind(a.type)
           r == Kind(b.type)
           k == Common(l, r, TRUE)
           m == Remade(e, e.type, <<b, a>>)
           x == Wrapped(k, a)
           y == Wrapped(k, b)
           c == Compare(e)
           d == Compare(m)
<1>1. Mirrored(e) = m
  BY MirroredIs
<1>2. IsNode(m) /\ m.op = e.op /\ m.how = e.how /\ m.operands = <<b, a>> /\ m.type = e.type
  BY RemadeFields
<1> HIDE DEF m
<1>3. CompareSays(e, a, b, c) /\ CompareSays(m, b, a, d)
  BY <1>2, CompareIs
<1>4. ~Concatenated(a, b, TRUE) /\ ~Concatenated(b, a, TRUE)
  BY ConcatenatedIsException
<1>5. (\A n : Done(n).end = "done" /\ Done(n).e = n) /\ Ends("fail").end = "fail"
  BY DEF Done, Ends
<1>6. l \in Numeric \cup OtherKinds \cup {"OBJECT", "ARRAY", "BLOCKREF"}
  <2>1. a.type \in AllTypes
    BY LeafIs
  <2> QED
    BY <2>1, FormOfTypes DEF Form
<1>7. Taken(l, r, TRUE) <=> Taken(r, l, TRUE)
  BY DEF Taken
<1>8. ASSUME c = Ends("fail"), d = Ends("fail")
      PROVE  Exchanged(c, d)
  BY <1>5, <1>8 DEF Exchanged
<1>9. ASSUME c = Done(e), d = Done(m)
      PROVE  Exchanged(c, d)
  <2> HIDE DEF c, d
  <2> QED
    BY <1>1, <1>5, <1>9 DEF Exchanged
<1> HIDE DEF c, d
<1> SUFFICES Exchanged(c, d)
  BY <1>1 DEF c, d
<1>10. CASE Taken(l, r, TRUE)
  <2>1. Common(r, l, TRUE) = k
    BY <1>10, CommonKind
  <2>2. c = Done(Remade(e, e.type, <<x, y>>))
    <3>1. c = Done([e EXCEPT !.operands = <<x, y>>])
      BY <1>3, <1>10 DEF CompareSays
    <3> HIDE DEF x, y
    <3> QED
      BY ONLY <3>1, IsNode(e), RemadeOperands
  <2>3. d = Done(Remade(m, e.type, <<y, x>>))
    <3>1. d = Done([m EXCEPT !.operands = <<y, x>>])
      <4>1. LET j == Common(r, l, TRUE)
            IN  d = Done([m EXCEPT !.operands = <<Wrapped(j, b), Wrapped(j, a)>>])
        BY <1>3, <1>7, <1>10 DEF CompareSays
      <4> HIDE DEF k
      <4> QED
        BY <2>1, <4>1
    <3> HIDE DEF x, y
    <3> QED
      BY ONLY <3>1, <1>2, RemadeOperands
  <2>4. Mirrored(Remade(e, e.type, <<x, y>>)) = Remade(m, e.type, <<y, x>>)
    <3> HIDE DEF x, y
    <3> QED
      BY <1>2, RemadeMirrored
  <2> HIDE DEF x, y
  <2> QED
    BY <1>5, <2>2, <2>3, <2>4 DEF Exchanged
<1>11. CASE l = r /\ l = "ARRAY"
  BY <1>3, <1>8, <1>11 DEF CompareSays
<1>12. CASE l = r /\ l \in {"BLOCKREF", "OBJECT", "STRING"}
  <2>1. CASE e.how \in {"EQ", "NE"}
    BY <1>2, <1>3, <1>9, <1>12, <2>1 DEF CompareSays
  <2>2. CASE e.how \notin {"EQ", "NE"}
    BY <1>2, <1>3, <1>8, <1>12, <2>2 DEF CompareSays
  <2> QED
    BY <2>1, <2>2
<1>13. CASE l = "BOOL" \/ r = "BOOL"
  BY <1>3, <1>9, <1>13 DEF CompareSays
<1>14. CASE /\ ~Taken(l, r, TRUE) /\ l # "BOOL" /\ r # "BOOL"
            /\ l # r \/ l \in Numeric \cup {"VOID"}
  <2> HIDE DEF l, r
  <2>1. c = Ends("fail")
    BY <1>3, <1>4, <1>14 DEF CompareSays, l, r
  <2>2. d = Ends("fail")
    <3>1. ~Taken(r, l, TRUE) /\ r # "BOOL" /\ l # "BOOL" /\ (r # l \/ r \in Numeric \cup {"VOID"})
      BY <1>7, <1>14
    <3> QED
      BY <1>3, <1>4, <3>1 DEF CompareSays, l, r
  <2> QED
    BY <1>8, <2>1, <2>2
<1> QED
  BY <1>6, <1>10, <1>11, <1>12, <1>13, <1>14 DEF OtherKinds

\* Or both are refused, where the types are FunctionOrNot.
Reordered(x, y, a, b) ==
  \/ Exchanged(x, y)
  \/ x.end # "done" /\ y.end # "done" /\ FunctionOrNot(<<a.type, b.type>>)

LEMMA TernaryExchanged ==
  ASSUME NEW e, IsNode(e), NEW c0 \in LeafNodes, NEW a \in LeafNodes, NEW b \in LeafNodes, e.operands = <<c0, a, b>>
  PROVE  Reordered(Ternary(e), Ternary(Mirrored(e)), a, b)
<1> DEFINE l == Kind(a.type)
           r == Kind(b.type)
           k == Branched(l, r)
           m == Remade(e, e.type, <<c0, b, a>>)
           x == Wrapped(k, a)
           y == Wrapped(k, b)
           c == Converted(c0, Bool)
           t == Ternary(e)
           u == Ternary(m)
<1>1. Mirrored(e) = m
  <2>1. e = Remade(e, e.type, <<c0, a, b>>)
    BY DEF IsNode, Remade
  <2> QED
    BY <2>1, BranchesMirrored
<1>2. IsNode(m) /\ m.op = e.op /\ m.how = e.how /\ m.operands = <<c0, b, a>>
  BY RemadeFields
<1> HIDE DEF m
<1>3. TernarySays(e, c, a, b, t) /\ TernarySays(m, c, b, a, u)
  BY <1>2, TernaryIs
<1>4. (\A n : Done(n).end = "done" /\ Done(n).e = n) /\ Ends("fail").end = "fail"
  BY DEF Done, Ends
<1> HIDE DEF c, t, u
<1>5. ASSUME t = Ends("fail"), u = Ends("fail")
      PROVE  Reordered(t, u, a, b)
  BY <1>4, <1>5 DEF Exchanged, Reordered
<1>6. ASSUME NEW type, t = Done(Remade(e, type, <<c.e, a, b>>)), u = Done(Remade(m, type, <<c.e, b, a>>))
      PROVE  Reordered(t, u, a, b)
  <2>1. Mirrored(Remade(e, type, <<c.e, a, b>>)) = Remade(m, type, <<c.e, b, a>>)
    BY <1>2, BranchesMirrored
  <2> QED
    BY <1>4, <1>6, <2>1 DEF Exchanged, Reordered
<1> SUFFICES Reordered(t, u, a, b)
  BY <1>1 DEF t, u
<1>7. CASE c.end # "done"
  <2>1. t = c /\ u = c
    BY ONLY <1>3, <1>7 DEF TernarySays
  <2> QED
    BY <1>7, <2>1 DEF Exchanged, Reordered
<1>8. NullPair(a, b) <=> NullPair(b, a)
  BY DEF NullPair
<1>9. ASSUME c.end = "done"
      PROVE  Reordered(t, u, a, b)
  <2>1. CASE l \in Numeric /\ r \in Numeric
    <3>1. Branched(r, l) = k
      BY <2>1, BranchedKind
    <3>2. t = Done(Remade(e, <<k>>, <<c.e, x, y>>))
      BY <1>3, <1>9, <2>1 DEF TernarySays
    <3>3. u = Done(Remade(m, <<k>>, <<c.e, y, x>>))
      <4>1. LET j == Branched(r, l)
            IN  u = Done(Remade(m, <<j>>, <<c.e, Wrapped(j, b), Wrapped(j, a)>>))
        BY <1>3, <1>9, <2>1 DEF TernarySays
      <4> HIDE DEF k
      <4> QED
        BY <3>1, <4>1
    <3>4. Mirrored(Remade(e, <<k>>, <<c.e, x, y>>)) = Remade(m, <<k>>, <<c.e, y, x>>)
      <4> DEFINE type == <<k>>
                 z == c.e
      <4> HIDE DEF type, x, y, z
      <4>1. Mirrored(Remade(e, type, <<z, x, y>>)) = Remade(m, type, <<z, y, x>>)
        BY <1>2, BranchesMirrored
      <4> QED
        BY ONLY <4>1 DEF type, z
    <3> HIDE DEF x, y, k
    <3> QED
      BY <1>4, <3>2, <3>3, <3>4 DEF Exchanged, Reordered
  <2>2. CASE l = r /\ l \in {"OBJECT", "ARRAY", "BLOCKREF"}
    <3>1. /\ t = IF a.type = NullType THEN Done(Remade(e, b.type, <<c.e, a, b>>))
                   ELSE IF b.type = NullType \/ a.type = b.type THEN Done(Remade(e, a.type, <<c.e, a, b>>))
                     ELSE Ends(Refusal(a.type, b.type))
      BY <1>3, <1>9, <2>2 DEF TernarySays
    <3>2. /\ u = IF b.type = NullType THEN Done(Remade(m, a.type, <<c.e, b, a>>))
                   ELSE IF a.type = NullType \/ b.type = a.type THEN Done(Remade(m, b.type, <<c.e, b, a>>))
                     ELSE Ends(Refusal(b.type, a.type))
      BY <1>3, <1>9, <2>2 DEF TernarySays
    <3>3. CASE a.type = NullType
      <4>1. t = Done(Remade(e, b.type, <<c.e, a, b>>)) /\ u = Done(Remade(m, b.type, <<c.e, b, a>>))
        BY ONLY <3>1, <3>2, <3>3
      <4> QED
        BY <1>6, <4>1
    <3>4. CASE a.type # NullType /\ (b.type = NullType \/ a.type = b.type)
      <4>1. t = Done(Remade(e, a.type, <<c.e, a, b>>)) /\ u = Done(Remade(m, a.type, <<c.e, b, a>>))
        BY ONLY <3>1, <3>2, <3>4
      <4> QED
        BY <1>6, <4>1
    <3>5. CASE a.type # NullType /\ b.type # NullType /\ a.type # b.type
      <4>1. t = Ends(Refusal(a.type, b.type)) /\ u = Ends(Refusal(b.type, a.type))
        BY ONLY <3>1, <3>2, <3>5
      <4>2. CASE Equivalent[a.type][b.type] = "undefined" \/ Equivalent[b.type][a.type] = "undefined"
        <5>1. FunctionOrNot(<<a.type, b.type>>)
          <6> DEFINE types == <<a.type, b.type>>
          <6>1. 1 \in DOMAIN types /\ 2 \in DOMAIN types /\ types[1] = a.type /\ types[2] = b.type
            OBVIOUS
          <6> HIDE DEF types
          <6>2. FunctionOrNot(types)
            BY ONLY <4>2, <6>1 DEF FunctionOrNot
          <6> QED
            BY <6>2 DEF types
        <5>2. t.end # "done" /\ u.end # "done"
          BY <4>1 DEF Ends, Refusal
        <5> QED
          BY <5>1, <5>2 DEF Reordered
      <4>3. CASE ~(Equivalent[a.type][b.type] = "undefined" \/ Equivalent[b.type][a.type] = "undefined")
        BY <1>5, <4>1, <4>3 DEF Refusal
      <4> QED
        BY <4>2, <4>3
    <3> QED
      BY <3>3, <3>4, <3>5
  <2>3. CASE l = r /\ l \in {"BOOL", "STRING"}
    <3>1. t = Done(Remade(e, <<l>>, <<c.e, a, b>>)) /\ u = Done(Remade(m, <<l>>, <<c.e, b, a>>))
      BY <1>3, <1>9, <2>3 DEF TernarySays
    <3> QED
      BY <1>6, <3>1
  <2>4. CASE NullPair(a, b)
    <3>1. t = Done(Remade(e, Str, <<c.e, a, b>>)) /\ u = Done(Remade(m, Str, <<c.e, b, a>>))
      BY <1>3, <1>8, <1>9, <2>4 DEF TernarySays
    <3> QED
      BY <1>6, <3>1
  <2>5. CASE /\ ~(l \in Numeric /\ r \in Numeric) /\ ~NullPair(a, b)
             /\ l # r \/ l \notin {"OBJECT", "ARRAY", "BLOCKREF", "BOOL", "STRING"}
    <3>1. /\ t = IF l = "VOID" \/ r = "VOID" THEN Done(Remade(e, Void, <<c.e, a, b>>)) ELSE Ends("fail")
          /\ u = IF r = "VOID" \/ l = "VOID" THEN Done(Remade(m, Void, <<c.e, b, a>>)) ELSE Ends("fail")
      <4> HIDE DEF l, r
      <4>1. ~(r \in Numeric /\ l \in Numeric) /\ ~NullPair(b, a) /\ (r # l \/ r \notin {"OBJECT", "ARRAY", "BLOCKREF", "BOOL", "STRING"})
        BY <1>8, <2>5
      <4> QED
        BY <1>3, <1>9, <2>5, <4>1 DEF TernarySays, l, r
    <3> QED
      BY <1>5, <1>6, <3>1
  <2> QED
    BY <2>1, <2>2, <2>3, <2>4, <2>5
<1> QED
  BY <1>7, <1>9

(* The order of the two sides of an operator decides nothing.                 *)
THEOREM OrderDoesNotMatterAlways == Spec => []OrderDoesNotMatter
<1>1. AnalysisOf => OrderDoesNotMatter
  <2> DEFINE e == given[1]
             x == Analyze(e)
             y == Analyze(Mirrored(e))
             unlike == e.op = "TERNARY" /\ FunctionOrNot(Types(Tail(e.operands)))
  <2>1. SUFFICES ASSUME AnalysisOf, given # <<>>, e.op \in {"NUMERIC", "COMPARE", "TERNARY"},
                        ~(e.op # "TERNARY" /\ StrAndNull(e))
                 PROVE  \/ end # "done" /\ y.end = end
                        \/ end = "done" /\ y = Done(Mirrored(expression))
                        \/ end # "done" /\ y.end # "done" /\ unlike
    BY DEF OrderDoesNotMatter, StrAndNull
  <2>2. Built(e) /\ end = x.end /\ (end = "done" => expression = x.e)
    BY <2>1 DEF AnalysisOf
  <2>3. SUFFICES Exchanged(x, y) \/ (x.end # "done" /\ y.end # "done" /\ unlike)
    BY <2>2 DEF Exchanged
  <2> HIDE DEF e
  <2>4. PICK v \in LeafNodes : BuiltWith(e, v)
    BY <2>2 DEF Built
  <2>5. IsNode(e)
    BY <2>2 DEF Built
  <2>6. Mirrored(e).op = e.op
    <3>1. Mirrored(e) = Remade(e, e.type, Swapped(e.operands))
      <4>1. Mirrored(e) = [e EXCEPT !.operands = Swapped(e.operands)]
        BY DEF Mirrored
      <4> QED
        BY ONLY <2>5, <4>1, RemadeOperands
    <3> QED
      BY <3>1, RemadeFields
  <2>7. CASE e.op \in {"NUMERIC", "COMPARE"}
    <3>1. PICK w \in LeafNodes : e.operands = <<v, w>>
      BY <2>4, <2>7 DEF BuiltWith, OneOperand, TwoOperands
    <3>2. CASE e.op = "NUMERIC"
      <4>1. x = Numbers(e) /\ y = Numbers(Mirrored(e))
        BY <2>6, <3>2, AnalyzeIs
      <4> QED
        BY <2>1, <2>5, <3>1, <3>2, <4>1, NumbersExchanged
    <3>3. CASE e.op = "COMPARE"
      <4>1. x = Compare(e) /\ y = Compare(Mirrored(e))
        BY <2>6, <3>3, AnalyzeIs
      <4> QED
        BY <2>1, <2>5, <3>1, <3>3, <4>1, CompareExchanged
    <3> QED
      BY <2>7, <3>2, <3>3
  <2>8. CASE e.op = "TERNARY"
    <3>1. PICK w \in LeafNodes, z \in LeafNodes : e.operands = <<v, w, z>>
      BY <2>4, <2>8 DEF BuiltWith, OneOperand, TwoOperands
    <3>2. x = Ternary(e) /\ y = Ternary(Mirrored(e))
      BY <2>6, <2>8, AnalyzeIs
    <3>3. Types(Tail(e.operands)) = <<w.type, z.type>>
      <4>1. Tail(e.operands) = <<w, z>>
        BY <3>1
      <4> DEFINE rest == Tail(e.operands)
      <4>2. rest = <<w, z>>
        BY <4>1
      <4> HIDE DEF rest
      <4>3. Types(rest) = <<w.type, z.type>>
        BY ONLY <4>2 DEF Types
      <4> QED
        BY ONLY <4>3 DEF rest
    <3>4. Reordered(x, y, w, z)
      BY <2>5, <3>1, <3>2, TernaryExchanged
    <3> HIDE DEF x, y
    <3> QED
      BY <2>8, <3>3, <3>4 DEF Reordered
  <2> QED
    BY <2>1, <2>7, <2>8
<1> QED
  BY <1>1, AnalysisOfAlways, PTL

-----------------------------------------------------------------------------
(* The values of integers.                                                    *)

LEMMA ModUnique ==
  ASSUME NEW x \in Int, NEW n \in Nat, n > 0, NEW q \in Int, NEW r \in 0 .. n - 1, x = q * n + r
  PROVE  x % n = r
OBVIOUS

LEMMA ModSmall ==
  ASSUME NEW x \in Nat, NEW n \in Nat, x < n
  PROVE  x % n = x
OBVIOUS

LEMMA ModNegative ==
  ASSUME NEW v \in Int, NEW n \in Nat, v < 0, -n <= v
  PROVE  v % n = v + n
OBVIOUS

LEMMA ModDivides ==
  ASSUME NEW v \in Int, NEW n \in Nat, NEW m \in Nat, n > 0, m % n = 0
  PROVE  (v + m) % n = v % n
<1> DEFINE p == v \div n
           q == m \div n
           r == v % n
<1>1. p \in Int /\ q \in Int /\ r \in 0 .. n - 1 /\ v = p * n + r /\ m = q * n
  OBVIOUS
<1> HIDE DEF p, q, r
<1>2. v + m = (p + q) * n + r /\ p + q \in Int /\ v + m \in Int
  BY <1>1
<1>3. (v + m) % n = r
  BY ONLY <1>1, <1>2, n \in Nat, n > 0, ModUnique
<1> QED
  BY <1>3 DEF r

\* What the values of a kind are, half being half of its patterns.
LEMMA ValuesAre ==
  ASSUME NEW k \in Integral
  PROVE  \E half \in Nat :
           /\ half > 0 /\ Patterns[k] = 2 * half
           /\ k \in Signed => ValuesOf(k) = -half .. half - 1
           /\ k \notin Signed => ValuesOf(k) = 0 .. Patterns[k] - 1
<1> DEFINE n == Patterns[k]
           half == n \div 2
<1>1. n \in Nat /\ n > 0 /\ n % 2 = 0
  BY PatternsAssumption
<1>2. /\ k \in Signed => ValuesOf(k) = -half .. half - 1
      /\ k \notin Signed => ValuesOf(k) = 0 .. n - 1
  BY DEF ValuesOf
<1> HIDE DEF n
<1>3. half \in Nat /\ half > 0 /\ n = 2 * half
  BY <1>1
<1> HIDE DEF half
<1> QED
  BY <1>2, <1>3 DEF n

LEMMA ReadAsIs ==
  ASSUME NEW k \in Integral, NEW v \in ValuesOf(k)
  PROVE  /\ v \in Int /\ -Patterns[k] <= v /\ v < Patterns[k] /\ (k \notin Signed => v >= 0)
         /\ \A x \in Int : x % Patterns[k] = v % Patterns[k] => ReadAs(k, x) = v
<1>1. PICK half \in Nat :
        /\ half > 0 /\ Patterns[k] = 2 * half
        /\ k \in Signed => ValuesOf(k) = -half .. half - 1
        /\ k \notin Signed => ValuesOf(k) = 0 .. Patterns[k] - 1
  BY ValuesAre
<1> DEFINE n == Patterns[k]
<1>2. n \in Nat /\ n > 0 /\ n = 2 * half
  BY <1>1
<1>3. v \in Int /\ -n <= v /\ v < n /\ (k \notin Signed => v >= 0) /\ (k \in Signed => -half <= v /\ v < half)
  BY <1>1
<1>4. \A x \in Int : ReadAs(k, x) = IF x % n \in ValuesOf(k) THEN x % n ELSE (x % n) - n
  BY DEF ReadAs
<1>5. ASSUME NEW x \in Int, x % n = v % n
      PROVE  ReadAs(k, x) = v
  <2>1. CASE v >= 0
    <3>1. v % n = v
      BY <1>2, <1>3, <2>1, ModSmall
    <3> QED
      BY <1>4, <1>5, <3>1
  <2>2. CASE v < 0
    <3>1. v % n = v + n
      BY <1>2, <1>3, <2>2, ModNegative
    <3>2. k \in Signed /\ v + n >= half
      BY <1>2, <1>3, <2>2
    <3>3. v + n \notin ValuesOf(k) /\ (v + n) - n = v
      BY <1>1, <1>2, <1>3, <3>2
    <3> QED
      BY <1>4, <1>5, <3>1, <3>3
  <2> QED
    BY <1>3, <2>1, <2>2
<1> QED
  BY <1>3, <1>5

LEMMA CastKeeps ==
  ASSUME NEW cast, NEW from \in Integral, NEW to \in Integral, from = Kind(cast.operands[1].type), to = Kind(cast.type),
         to # from, cast.how = ExplicitMethod(to, from), NEW v \in ValuesOf(from), v \in ValuesOf(to)
  PROVE  Result(cast, v) = v
<1> DEFINE f == Patterns[from]
           t == Patterns[to]
<1>1. f \in Nat /\ t \in Nat /\ f > 0 /\ t > 0 /\ (Width[to] <= Width[from] => f % t = 0)
  BY PatternsAssumption
<1>2. v \in Int /\ -f <= v /\ v < f /\ (to \notin Signed => v >= 0) /\ (from \notin Signed => v >= 0)
  BY ReadAsIs
<1>3. /\ from \in Numeric /\ to \in Numeric /\ Width[from] \in Nat /\ Width[to] \in Nat
      /\ from \in Unsigned <=> from \notin Signed
      /\ to \in Unsigned <=> to \notin Signed
      /\ from \in Signed /\ to \in Signed => Width[from] # Width[to]
  BY Kinds, Widths DEF Numeric, Integral
<1>4. Result(cast, v) = ReadAs(to, IF cast.how = "SIGN_EXTEND" THEN SignedReading(from, v % f) ELSE v % f)
  BY DEF Result
<1>5. /\ Width[from] < Width[to] /\ from \in Signed /\ to \in Signed => cast.how = "SIGN_EXTEND"
      /\ ~(Width[from] < Width[to] /\ from \in Signed /\ to \in Signed) => cast.how # "SIGN_EXTEND"
  BY <1>3, Methods
<1>6. CASE cast.how = "SIGN_EXTEND"
  <2>1. from \in Signed /\ from \notin Unsigned
    BY <1>3, <1>5, <1>6
  <2>2. (v % f) % f = v % f /\ v % f \in Int
    <3>1. v % f \in Nat /\ v % f < f
      BY <1>1, <1>2
    <3> QED
      BY ONLY <1>1, <3>1, ModSmall
  <2>3. SignedReading(from, v % f) = v
    BY <2>1, <2>2, ReadAsIs DEF SignedReading
  <2> QED
    BY <1>2, <1>4, <1>6, <2>3, ReadAsIs
<1>7. CASE cast.how # "SIGN_EXTEND"
  <2>1. (v % f) % t = v % t /\ v % f \in Int
    <3>1. CASE v >= 0
      BY <1>1, <1>2, <3>1, ModSmall
    <3>2. CASE v < 0
      <4>1. from \in Signed /\ to \in Signed /\ Width[to] <= Width[from]
        BY <1>2, <1>3, <1>5, <1>7, <3>2
      <4>2. v % f = v + f
        BY <1>1, <1>2, <3>2, ModNegative
      <4>3. (v + f) % t = v % t
        BY <1>1, <1>2, <4>1, ModDivides
      <4> QED
        BY <1>1, <1>2, <4>2, <4>3
    <3> QED
      BY <1>2, <3>1, <3>2
  <2> QED
    BY <1>4, <1>7, <2>1, ReadAsIs
<1> QED
  BY <1>6, <1>7

(* A conversion of integers changes no value that both types can hold.        *)
THEOREM KeepsCommonValuesAlways == Spec => []KeepsCommonValues
<1>1. AnalysisOf => KeepsCommonValues
  <2>1. SUFFICES ASSUME AnalysisOf, Analyzed, NEW cast \in Casts, NEW from, NEW to,
                        from = Kind(cast.operands[1].type), to = Kind(cast.type), {from, to} \subseteq Integral,
                        NEW v \in ValuesOf(from), v \in ValuesOf(to)
                 PROVE  Result(cast, v) = v
    BY DEF KeepsCommonValues
  <2>2. Outcome(given[1], expression)
    BY <2>1, BuiltOutcome DEF AnalysisOf, Analyzed
  <2>3. SoundCast(cast)
    BY <2>1, <2>2 DEF Outcome, Casts, Nodes
  <2>4. to # from /\ cast.how = ExplicitMethod(to, from)
    BY <2>1, <2>3, Kinds DEF SoundCast
  <2> QED
    BY <2>1, <2>4, CastKeeps
<1> QED
  BY <1>1, AnalysisOfAlways, PTL
=============================================================================
