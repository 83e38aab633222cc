------------------------------ MODULE MCScopes ------------------------------
(* Kinds of program for TLC, each with what makes its cases happen.         *)
EXTENDS Scopes

CONSTANTS a, b, l, m   \* names and labels

(* Variables, functions and arguments that hide one another.                *)
Variables ==
  [forms |-> {"let", "define", "function", "literal", "block"}, names |-> {a}, types |-> {None},
   labels |-> {None}, modes |-> {"get"}, size |-> 4]
(* Declarations in and around ifs and loops.                                *)
Conditions ==
  [forms |-> {"let", "if", "loop"}, names |-> {a}, types |-> {None},
   labels |-> {None}, modes |-> {"get"}, size |-> 3]
(* for, with and without its parts.                                        *)
For ==
  [forms |-> {"let", "control", "for"}, names |-> {a}, types |-> {None},
   labels |-> {None, l}, modes |-> {"get"}, size |-> 3]
(* Classes and the types that name them.                                    *)
Classes ==
  [forms |-> {"define", "class", "function", "block"}, names |-> {a, b},
   types |-> {None, a}, labels |-> {None}, modes |-> {}, size |-> 3]
(* All the ways to look a name up.                                          *)
Uses ==
  [forms |-> {"expression", "let", "function", "class", "block"}, names |-> {a}, types |-> {None},
   labels |-> {None}, modes |-> {"get", "set", "identity", "native", "new"}, size |-> 4]
(* Names that are not the same.                                             *)
TwoNames ==
  [forms |-> {"expression", "let", "return", "function", "block"}, names |-> {a, b}, types |-> {None},
   labels |-> {None}, modes |-> {"get"}, size |-> 3]
(* Jumps, and every kind of statement they leave.                           *)
Jumping ==
  [forms |-> {"control", "return", "empty", "function", "block", "if", "loop"},
   names |-> {a}, types |-> {None}, labels |-> {None, l}, modes |-> {}, size |-> 3]
(* Loops in loops, with functions between them.                             *)
Nesting ==
  [forms |-> {"control", "return", "literal", "loop"}, names |-> {}, types |-> {None},
   labels |-> {None, l}, modes |-> {}, size |-> 4]
(* Labels that are not the same.                                            *)
TwoLabels ==
  [forms |-> {"control", "loop"}, names |-> {}, types |-> {None},
   labels |-> {None, l, m}, modes |-> {}, size |-> 3]

ModelLanguages == 
  {Variables, Conditions, For, Classes, Uses, TwoNames, Jumping, Nesting, TwoLabels}

(* A jump, a loop and a function, in any nesting.                           *)
Crossing ==
  [forms |-> {"control", "function", "loop"}, names |-> {a}, types |-> {None},
   labels |-> {None, l}, modes |-> {}, size |-> 3]
CrossingLanguages == {Crossing}
=============================================================================
