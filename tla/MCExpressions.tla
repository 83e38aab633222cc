--------------------------- MODULE MCExpressions ---------------------------
(* Three classes, the second of which extends the first.                    *)
EXTENDS Expressions

CONSTANTS Base, Derived, Other

ModelClasses == {Base, Derived, Other}
ModelParent == (Base :> NoClass) @@ (Derived :> Base) @@ (Other :> NoClass)
ModelFields ==
  (Base :> <<<<"size", <<"S16">>>>, <<"on", Bool>>>>) @@ (Derived :> <<<<"base", ObjectOf(Base)>>>>)
    @@ (Other :> <<<<"size", <<"F32">>>>, <<"name", Str>>>>)

Functions ==
  {<<"BLOCKREF", Void, <<"S16">>, ObjectOf(Base)>>,
   <<"BLOCKREF", <<"F64">>, <<"F64">>, <<"S64">>>>,
   <<"BLOCKREF", Void, Bool, <<"U32">>>>,
   <<"BLOCKREF", Str>>}

(* Of a function, and of an array of them.                                  *)
Takers ==
  {<<"BLOCKREF", Void, <<"BLOCKREF", Str>>, <<"U32">>>>, ArrayOf(<<"BLOCKREF", Str>>)}

ModelTypesOf ==
  <<Simple \cup Objects, {ArrayOf(t) : t \in Simple \cup Objects} \cup Functions,
    {ArrayOf(ArrayOf(t)) : t \in Simple \cup Objects} \cup Takers>>

ModelTargets ==
  {<<k>> : k \in Numeric} \cup {Bool, Str}
    \cup {ObjectOf(c) : c \in Classes} \cup {ArrayOf(<<"U8">>), ArrayOf(ObjectOf(Base))}

ModelLeaves ==
  {Value(t) : t \in ModelTargets \cup Functions \cup Takers \cup {NullType}}
    \cup {Literal(NullType), Value(Void)}

ModelPatterns == [k \in Integral |-> Width[k] \div 2]

Some(kinds) == {Value(<<k>>) : k \in kinds}
ModelArguments ==
  LET values == Some({"S8", "U32", "S64", "F32", "BOOL"})
                  \cup {Value(ObjectOf(c)) : c \in Classes} \cup {Literal(NullType)}
  IN BoundedSeq(values, 2)
=============================================================================
