------------------------------ MODULE MCParser ------------------------------
(***************************************************************************)
(* Every input of a bounded length put to the parser: the input grows      *)
(* token by token, as long as some reading of it has used up all of it.    *)
(* A goal is what the input is to be, and brings its own alphabet, so that *)
(* each of them can be longer than one over all the tokens.                *)
(***************************************************************************)
EXTENDS Parser, SequencesExt

CONSTANTS
  MaxStatement,    \* bound on the length of an ambiguous statement
  MaxExpression,   \* of an ambiguous expression
  MaxNew,          \* of what follows new
  MaxOperators,    \* of operands and binary operators in turn
  MaxForms,        \* of the other forms of an expression
  MaxControl       \* of the statements that begin with a word of their own

VARIABLES
  goal,      \* what the input is to be
  input,     \* the tokens
  readings   \* what each structure the input may be said to have makes of it
vars == <<goal, input, readings>>

Names == {"TYPE", "IDENTIFIER", "OPEN_PAREN", "CLOSE_PAREN", "COMMA",
          "OPEN_BRACKET", "CLOSE_BRACKET", "SEMICOLON"}

BinaryOperators ==
  {"MUL", "ADD", "SUB", "LSHIFT", "LT", "STR_CONCAT", "EQ", "BITWISE_AND",
   "BITWISE_XOR", "BITWISE_OR", "AND", "XOR", "OR", "ASSIGN", "ADD_ASSIGN"}

Alphabet ==
  [statement  |-> Names \cup {"VOID", "LITERAL", "ASSIGN", "OPEN_BRACE", "CLOSE_BRACE"},
   expression |-> Names \cup {"LITERAL", "OPEN_BRACE", "CLOSE_BRACE"},
   new        |-> Names \cup {"LITERAL"},
   operators  |-> BinaryOperators \cup {"IDENTIFIER", "LITERAL", "SEMICOLON"},
   forms      |-> {"IDENTIFIER", "LITERAL", "OPEN_PAREN", "CLOSE_PAREN", "COMMA", "OPEN_BRACKET",
                   "CLOSE_BRACKET", "DOT", "INCREMENT", "SUB", "LT", "GT", "TERNARY", "COLON",
                   "NEW", "SEMICOLON"},
   control    |-> {"IDENTIFIER", "LITERAL", "OPEN_PAREN", "CLOSE_PAREN", "OPEN_BRACE",
                   "CLOSE_BRACE", "SEMICOLON", "COLON", "COMMA", "ASSIGN", "BREAK", "CLASS",
                   "EXTENDS", "DO", "WHILE", "FOR", "IF", "ELSE", "LET", "NATIVE", "RETURN"}]

MaxLength ==
  [statement |-> MaxStatement, expression |-> MaxExpression, new |-> MaxNew,
   operators |-> MaxOperators, forms |-> MaxForms, control |-> MaxControl]

(* An expression is read up to the semicolon that ends its statement.        *)
Ended(r) == Then(r, LAMBDA tree, rest : Closed("SEMICOLON", rest, tree))

Readings ==
  [statement |-> {{D}, {E}, {F}}, expression |-> {{E}, {F}}, new |-> {{NewArray}, {NewObject}},
   operators |-> {{}}, forms |-> {{}}, control |-> {{}}]

Read(structure, s) ==
  CASE goal = "statement" -> ParseStatementAs(structure, s)
    [] goal = "expression" -> Ended(Then(ParseBaseAs(structure, s), Interact))
    [] goal = "new" -> Ended(ParseNewAs(structure, s))
    [] goal \in {"operators", "forms"} -> Ended(Inner("expression", s))
    [] goal = "control" -> Inner("statement", s)

(* parse_type takes a function type whose parameter has no type, which no    *)
(* later pass can use.                                                       *)
RECURSIVE TypeIsMissing(_)
TypeIsMissing(tree) ==
  \E i \in 2..Len(tree) :
    \/ tree[1] = "fn" /\ tree[i] = Null
    \/ TypeIsMissing(tree[i])

Accepts(r) == r.end = "found" /\ r.tree # Null /\ r.rest = <<>> /\ ~TypeIsMissing(r.tree)

-----------------------------------------------------------------------------
Init ==
  /\ goal \in DOMAIN Alphabet
  /\ input = <<>>
  /\ readings = [structure \in Readings[goal] |-> Nothing(<<>>)]

Words == {"BREAK", "CLASS", "DO", "WHILE", "FOR", "IF", "LET", "NATIVE", "RETURN"}
HowMany(tokens) == Len(SelectSeq(input, LAMBDA t : t \in tokens))

Extends(t) ==
  /\ input # <<>> /\ goal # "control" => Last(input) # "SEMICOLON"
  /\ input # <<>> /\ goal \in EntryPoints =>
       /\ Last(input) = "OPEN_BRACE" => t = "CLOSE_BRACE"
       /\ Last(input) = "OPEN_BRACKET" => t \in {"CLOSE_BRACKET", "IDENTIFIER"}
  /\ goal = "operators" => (t \in {"IDENTIFIER", "LITERAL"} <=> Len(input) % 2 = 0) /\ (t = "LITERAL" => input = <<>>)
  /\ goal \in {"operators", "forms"} /\ Len(input) = MaxLength[goal] - 1 => t = "SEMICOLON"
  /\ goal \in EntryPoints /\ input = <<>> => t \in {"TYPE", "VOID", "IDENTIFIER"}
  /\ goal = "control" =>
       /\ t = "OPEN_PAREN" =>
            input # <<>> /\ (Last(input) \in {"FOR", "IF", "WHILE"} \/ input[1] = "NATIVE")
       /\ t = "LITERAL" => input # <<>> /\ Last(input) = "OPEN_PAREN"
       /\ t \in Words => HowMany(Words) < 2
       /\ t \in {"IDENTIFIER", "SEMICOLON"} => HowMany({t}) < 3
       /\ t = "OPEN_BRACE" => HowMany(Words) > 0 /\ HowMany({t}) < 1
       /\ t \in {"ASSIGN", "COMMA"} => input # <<>> /\ input[1] \in {"CLASS", "LET", "NATIVE"}

(* Some reading has used up all of the input.                               *)
Readable == \E structure \in DOMAIN readings : readings[structure].rest = <<>>

Grow ==
  /\ Len(input) < MaxLength[goal]
  /\ \E t \in Alphabet[goal] :
       /\ Extends(t)
       /\ input' = Append(input, t)
       /\ readings' = [structure \in Readings[goal] |-> Read(structure, input')]
       /\ goal # "operators" => Readable'
  /\ UNCHANGED goal

Next == Grow
Spec == Init /\ [][Next]_vars

-----------------------------------------------------------------------------
(* A statement that begins with a function that has a name is that function, *)
(* though an expression could begin with it as well.                         *)
IsDeclared(structure) ==
  structure = {E} /\ goal = "statement" /\ readings[{F}].end = "found"

(* No question is put to the parentheses that follow a pair of brackets: a   *)
(* function without a name that returns an array is not recognised.          *)
RECURSIVE ReturnsArray(_)
ReturnsArray(tree) ==
  \/ tree[1] = "function" /\ tree[2] = Null /\ tree[3][1] = "array"
  \/ \E i \in 2..Len(tree) : ReturnsArray(tree[i])

(* The detection finds the one reading that the parser can go through with:  *)
(* whenever the text can be read to its end as a definition, an expression,  *)
(* a function, a new array or a new object, that is what the questions of    *)
(* the look-ahead have found it to be, without a token past its end.         *)
DetectionAgrees ==
  goal \in EntryPoints =>
    \A structure \in DOMAIN readings :
      LET r == readings[structure]
      IN Accepts(r) /\ ~IsDeclared(structure) /\ ~ReturnsArray(r.tree) =>
        LET found == Classify(goal, input)
        IN found.end = "found" /\ found.structure = structure

-----------------------------------------------------------------------------
(* What grouping the operators are to have: a text of operands and binary    *)
(* operators is split at the last of its loosest operators.  Assignments are *)
(* the loosest, and only a name can be assigned to.                          *)
Loosest ==
  <<{"ASSIGN", "ADD_ASSIGN"}, {"OR"}, {"XOR"}, {"AND"}, {"BITWISE_OR"}, {"BITWISE_XOR"},
    {"BITWISE_AND"}, {"EQ"}, {"STR_CONCAT"}, {"LT"}, {"LSHIFT"}, {"ADD", "SUB"},
    {"MUL"}>>

Node(operator, left, right) ==
  CASE operator = "ASSIGN" -> <<"set", left, right>>
    [] operator = "ADD_ASSIGN" -> <<"assign", <<operator>>, left, right>>
    [] OTHER -> <<"binary", <<operator>>, left, right>>

RECURSIVE Group(_)
Group(s) ==
  LET found == {n \in DOMAIN Loosest : \E i \in DOMAIN s : s[i] \in Loosest[n]}
      at == Max({i \in DOMAIN s : s[i] \in Loosest[Min(found)]})
  IN IF Len(s) = 1
       THEN s
       ELSE Node(s[at], Group(SubSeq(s, 1, at - 1)), Group(SubSeq(s, at + 1, Len(s))))

Assignments(s) == {i \in DOMAIN s : s[i] \in Loosest[1]}

AssignsToName(s) == \A i \in Assignments(s) : i = 2 /\ s[1] = "IDENTIFIER"

(* Twelve loops, each calling the next tighter one, and a loop of            *)
(* assignments above them: together they group every text of operators as    *)
(* their order and their associativity to the left say, and refuse the texts *)
(* that assign to anything but a name.  Of several assignments nothing is    *)
(* said: the loop groups them to the left and refuses them all, which the    *)
(* comment over it calls incorrect (parse.c:676).                            *)
Grouped ==
  /\ goal = "operators" /\ input # <<>> /\ Last(input) = "SEMICOLON"
  /\ Cardinality(Assignments(input)) <= 1
  => LET r == readings[{}]
     IN IF AssignsToName(input)
          THEN Accepts(r) /\ r.tree = Group(Front(input))
          ELSE r.end = "exit"

-----------------------------------------------------------------------------
(* The text of an expression, with parentheses around every operand.         *)
RECURSIVE WrittenType(_)
Listed(texts) ==
  FoldLeft(LAMBDA all, text : IF all = <<>> THEN text ELSE all \o <<"COMMA">> \o text, <<>>, texts)

WrittenType(type) ==
  CASE type[1] = "fn" ->
         WrittenType(type[2]) \o <<"OPEN_PAREN">>
           \o Listed([i \in 1..Len(type) - 2 |-> WrittenType(type[i + 2])]) \o <<"CLOSE_PAREN">>
    [] type[1] = "array" -> WrittenType(type[2]) \o <<"OPEN_BRACKET", "CLOSE_BRACKET">>
    [] OTHER -> type

RECURSIVE Written(_)
InParens(e) == <<"OPEN_PAREN">> \o Written(e) \o <<"CLOSE_PAREN">>
InBrackets(e) == <<"OPEN_BRACKET">> \o (IF e = Null THEN <<>> ELSE Written(e)) \o <<"CLOSE_BRACKET">>
Arguments(list) ==
  <<"OPEN_PAREN">>
    \o (IF list = Null THEN <<>> ELSE Listed([i \in 1..Len(list) - 1 |-> Written(list[i + 1])]))
    \o <<"CLOSE_PAREN">>

Written(e) ==
  CASE e[1] = "field" -> InParens(e[2]) \o <<"DOT", "IDENTIFIER">>
    [] e[1] = "call" -> InParens(e[2]) \o Arguments(e[3])
    [] e[1] = "index" -> InParens(e[2]) \o InBrackets(e[3])
    [] e[1] = "postfix" -> InParens(e[3]) \o e[2]
    [] e[1] \in {"prefix", "unary"} -> e[2] \o InParens(e[3])
    [] e[1] = "cast" -> <<"LT">> \o WrittenType(e[2]) \o <<"GT">> \o InParens(e[3])
    [] e[1] = "new" -> <<"NEW", "IDENTIFIER">> \o Arguments(e[3])
    [] e[1] = "newArray" -> <<"NEW">> \o WrittenType(e[2]) \o InBrackets(e[3])
    [] e[1] \in {"binary", "assign"} -> InParens(e[3]) \o e[2] \o InParens(e[4])
    [] e[1] = "set" -> InParens(e[2]) \o <<"ASSIGN">> \o InParens(e[3])
    [] e[1] = "ternary" ->
         InParens(e[2]) \o <<"TERNARY">> \o InParens(e[3]) \o <<"COLON">> \o InParens(e[4])
    [] OTHER -> e

WithoutParens(s) == SelectSeq(s, LAMBDA t : t \notin {"OPEN_PAREN", "CLOSE_PAREN"})

(* Every tree has the tokens of the text that it was read from, in their      *)
(* order, but for parentheses: no operand, argument or part of a type is      *)
(* dropped, doubled or exchanged with another.  And it is the tree of its own *)
(* text with all parentheses written out: no detection takes the longer text  *)
(* for something else.                                                       *)
ReadsBack ==
  goal \in {"operators", "forms"} =>
    LET r == readings[{}]
        text == Written(r.tree) \o <<"SEMICOLON">>
    IN Accepts(r) => /\ WithoutParens(text) = WithoutParens(input)
                     /\ Inner("expression", text) = Found(r.tree, <<"SEMICOLON">>)

-----------------------------------------------------------------------------
RECURSIVE NamesIn(_)
NamesIn(tree) ==
  IF tree = Name
    THEN 1
    ELSE FoldLeft(LAMBDA n, part : n + NamesIn(part), 0, Tail(tree))

RECURSIVE Overwritten(_)
Overwritten(tree) ==
  tree[1] = "clobbered" \/ \E i \in 2..Len(tree) : Overwritten(tree[i])

(* Whatever a statement is turned into (a for into a loop in a block, with   *)
(* its step at the end of another block), every name written in it is in its *)
(* tree, and once; but for the loop that is overwritten by its own label.    *)
NothingLost ==
  goal = "control" =>
    LET r == readings[{}]
    IN Accepts(r) /\ ~Overwritten(r.tree) =>
         NamesIn(r.tree) = Len(SelectSeq(input, LAMBDA t : t = "IDENTIFIER"))
=============================================================================
