------------------------------- MODULE Parser -------------------------------
(***************************************************************************)
(* The recursive-descent parser (parse.c), as operators on the sequence of *)
(* the tokens that are left.  TokenBuffer shows that this is what          *)
(* parse_peek, parse_shift, accept, expect and the look-ahead amount to.   *)
(*                                                                         *)
(* A parse function returns a tree and leaves the rest of the tokens,      *)
(* returns NULL (the tree Null) for something that is not there, or does   *)
(* not return: the program exits with a message, reads through a null      *)
(* pointer, or reads memory that holds no value of the kind it expects.    *)
(*                                                                         *)
(* A tree is a tuple of its tag and its parts.  Names, literals and        *)
(* primitive types are not told apart.                                     *)
(***************************************************************************)
EXTENDS Integers, Sequences, Detect

Found(tree, s) == [end |-> "found", tree |-> tree, rest |-> s]
Null == <<"NULL">>
Nothing(s) == Found(Null, s)

Stop(end, s) == [end |-> end, tree |-> Null, rest |-> s]
Exit(s) == Stop("exit", s)
Crash == Stop("crash", <<>>)
Undefined(s) == Stop("undefined", s)

Name == <<"IDENTIFIER">>

Is(s, kind) == s # <<>> /\ Matches(Head(s), kind)
IsOneOf(s, kinds) == s # <<>> /\ Head(s) \in kinds

Then(r, K(_, _)) == IF r.end = "found" THEN K(r.tree, r.rest) ELSE r

(* check_expression, and the callers that report a missing type.            *)
ThenSome(r, K(_, _)) ==
  CASE r.end # "found" -> r
    [] r.end = "found" /\ r.tree = Null -> Exit(r.rest)
    [] OTHER -> K(r.tree, r.rest)

(* expect.                                                                  *)
Expect(kind, s, K(_)) == IF Is(s, kind) THEN K(Tail(s)) ELSE Exit(s)

(* expect a token that ends what has been parsed.                           *)
Closed(kind, s, tree) == Expect(kind, s, LAMBDA rest : Found(tree, rest))

-----------------------------------------------------------------------------
(* The detections: the questions of Detect put to the tokens ahead.          *)
RECURSIVE Ask(_, _, _)
Ask(frames, returned, s) ==
  LET top == frames[Len(frames)]
      goOn(effect, rest) == Ask(FramesAfter(frames, effect), ValueAfter(effect), rest)
  IN CASE frames = <<>> -> [end |-> "found", structure |-> returned[1], rest |-> s]
       [] frames # <<>> /\ returned # <<>> -> goOn(OperandIs(top, returned[1]), s)
       [] frames # <<>> /\ returned = <<>> /\ s = <<>> -> [end |-> "crash", structure |-> {}, rest |-> s]
       [] OTHER -> LET hit == Matches(Head(s), Asks(top))
                   IN goOn(Answered(top, hit), IF hit THEN Tail(s) ELSE s)

Classify(fn, s) == Ask(<<EnterDetect(fn)>>, <<>>, s)

-----------------------------------------------------------------------------
(* parse_type.  The tree of a type comes with the type of the first          *)
(* parameter when the text turns out to be a function's: <<"type", type,     *)
(* first>>.  A function type is its return type followed by its parameters.  *)
RECURSIVE ParseType(_, _, _), TypeCalls(_, _, _, _), TypeParameters(_, _, _, _, _)

ParseType(s, wantsFirst, ignoreArray) ==
  IF Is(s, "TYPE") \/ Is(s, "IDENTIFIER")
    THEN TypeCalls(<<Head(s)>>, Tail(s), wantsFirst, ignoreArray)
    ELSE Nothing(s)

TypeOf(typed) == IF typed = Null THEN Null ELSE typed[2]

TypeCalls(type, s, wantsFirst, ignoreArray) ==
  CASE Is(s, "OPEN_PAREN") ->
         IF Is(Tail(s), "CLOSE_PAREN")
           THEN TypeCalls(<<"fn", type>>, Tail(Tail(s)), wantsFirst, ignoreArray)
           ELSE TypeParameters(type, <<>>, Tail(s), wantsFirst, ignoreArray)
    [] Is(s, "OPEN_BRACKET") /\ ~ignoreArray ->
         Closed("CLOSE_BRACKET", Tail(s), <<"type", <<"array", type>>, Null>>)
    [] OTHER -> Found(<<"type", type, Null>>, s)

(* A parameter that is followed by a name belongs to a function, not to its  *)
(* return type: the blocktype of the return type is read to find the rest of *)
(* it, which only a function type has.                                       *)
FirstParameter(type, param, s, wantsFirst) ==
  CASE type[1] # "fn" -> Undefined(s)
    [] type[1] = "fn" /\ (Len(type) > 2 \/ ~wantsFirst) -> Exit(s)
    [] OTHER -> Found(<<"type", type[2], param>>, s)

TypeParameters(type, params, s, wantsFirst, ignoreArray) ==
  Then(ParseType(s, FALSE, FALSE), LAMBDA typed, rest :
    CASE Is(rest, "IDENTIFIER") -> FirstParameter(type, TypeOf(typed), rest, wantsFirst)
      [] Is(rest, "COMMA") ->
           TypeParameters(type, Append(params, TypeOf(typed)), Tail(rest), wantsFirst, ignoreArray)
      [] OTHER -> Expect("CLOSE_PAREN", rest, LAMBDA after :
           TypeCalls(<<"fn", type>> \o Append(params, TypeOf(typed)), after, wantsFirst, ignoreArray)))

-----------------------------------------------------------------------------
(* The functions that are called from below themselves are called through     *)
(* this operator, by the name of what they parse.                            *)
RECURSIVE Inner(_, _)

(* expect_expression.                                                       *)
ExpectExpression(s, K(_, _)) == ThenSome(Inner("expression", s), K)

(* parse_expression_list.                                                   *)
RECURSIVE MoreExpressions(_, _)
MoreExpressionsUnlinked(list, s) ==
  IF Is(s, "COMMA")
    THEN ExpectExpression(Tail(s), LAMBDA e, rest : MoreExpressions(list, rest))
    ELSE Found(list, s)
MoreExpressions(list, s) ==
  IF Is(s, "COMMA")
    THEN ExpectExpression(Tail(s), LAMBDA e, rest : MoreExpressions(Append(list, e), rest))
    ELSE Found(list, s)

ParseExpressionList(s) ==
  Then(Inner("expression", s), LAMBDA e, rest :
    IF e = Null THEN Nothing(rest) ELSE MoreExpressions(<<"list", e>>, rest))

(* parse_new.                                                               *)
ParseNewAs(structure, s) ==
  CASE structure = {NewArray} ->
         Then(ParseType(s, FALSE, TRUE), LAMBDA typed, rest :
           Expect("OPEN_BRACKET", rest, LAMBDA inside :
             Then(Inner("expression", inside), LAMBDA size, after :
               Closed("CLOSE_BRACKET", after, <<"newArray", TypeOf(typed), size>>))))
    [] structure = {NewObject} ->
         Expect("IDENTIFIER", s, LAMBDA rest :
           Expect("OPEN_PAREN", rest, LAMBDA inside :
             Then(ParseExpressionList(inside), LAMBDA args, after :
               Closed("CLOSE_PAREN", after, <<"new", Name, args>>))))
    [] OTHER -> Exit(s)

ParseNew(s) ==
  LET found == Classify("new", s)
  IN IF found.end = "crash" THEN Crash ELSE ParseNewAs(found.structure, s)

(* parse_args.  A comma may end the list, and the list may be empty.        *)
RECURSIVE ParseArgs(_, _, _)
ParseArgs(args, first, s) ==
  Then(IF first = Null THEN ParseType(s, FALSE, FALSE) ELSE Found(<<"type", first, Null>>, s),
    LAMBDA typed, rest :
      IF typed = Null
        THEN Found(args, rest)
        ELSE Expect("IDENTIFIER", rest, LAMBDA after :
          LET more == args \o <<typed[2], Name>>
          IN CASE typed[2] = <<"VOID">> -> Exit(after)
               [] typed[2] # <<"VOID">> /\ Is(after, "COMMA") -> ParseArgs(more, Null, Tail(after))
               [] OTHER -> Found(more, after)))

(* The body of a function.                                                  *)
FunctionBody(name, returns, args, s) ==
  Expect("OPEN_BRACE", s, LAMBDA inside :
    Then(Inner("block", inside), LAMBDA body, rest :
      Closed("CLOSE_BRACE", rest, <<"function", name, returns, args, body>>)))

(* parse_function.  For a function with neither name nor parameters the text *)
(* was read as a function type; the type is taken apart and freed, but       *)
(* fn->return_type has been set to it before.                                *)
ParseFunction(s, allowAnonymous) ==
  Then(ParseType(s, TRUE, FALSE), LAMBDA typed, rest :
    LET named == Is(rest, "IDENTIFIER")
        name == IF named THEN Name ELSE Null
        after == IF named THEN Tail(rest) ELSE rest
    IN CASE typed = Null -> Nothing(rest)
         [] typed # Null /\ ~named /\ ~allowAnonymous -> Exit(rest)
         [] typed # Null /\ (named \/ allowAnonymous) /\ Is(after, "OPEN_PAREN") ->
              Then(ParseArgs(<<"args">>, typed[3], Tail(after)), LAMBDA args, close :
                Expect("CLOSE_PAREN", close, LAMBDA body : FunctionBody(name, typed[2], args, body)))
         [] OTHER ->
              IF ~named /\ typed[2][1] = "fn" /\ Len(typed[2]) = 2
                THEN FunctionBody(Null, <<"freed", typed[2][2]>>, <<"args">>, after)
                ELSE Exit(after))

-----------------------------------------------------------------------------
(* parse_base_expression.                                                   *)
ParseBaseAs(structure, s) ==
  CASE structure = {} -> Exit(s)
    [] structure = {F} ->
         Then(ParseFunction(s, TRUE), LAMBDA fn, rest :
           IF fn = Null THEN Stop("crash", rest) ELSE Found(<<"lambda", fn>>, rest))
    [] OTHER -> IF Is(s, "IDENTIFIER") THEN Found(Name, Tail(s)) ELSE Nothing(s)

ParseBase(s) ==
  CASE Is(s, "OPEN_PAREN") ->
         ExpectExpression(Tail(s), LAMBDA e, rest : Closed("CLOSE_PAREN", rest, e))
    [] Is(s, "LITERAL") -> Found(<<"LITERAL">>, Tail(s))
    [] OTHER -> LET found == Classify("expression", s)
                IN IF found.end = "crash" THEN Crash ELSE ParseBaseAs(found.structure, s)

(* assert_valid_assign.                                                     *)
Assignable(e) == e[1] \in {"IDENTIFIER", "field", "index"}
Assigning(left, tree, s) == IF Assignable(left) THEN Found(tree, s) ELSE Exit(s)

(* parse_interact_expression: what may follow an operand.                   *)
RECURSIVE Interact(_, _)
Interact(left, s) ==
  CASE Is(s, "DOT") ->
         Expect("IDENTIFIER", Tail(s), LAMBDA rest : Interact(<<"field", left, Name>>, rest))
    [] Is(s, "OPEN_PAREN") ->
         Then(ParseExpressionList(Tail(s)), LAMBDA args, rest :
           Expect("CLOSE_PAREN", rest, LAMBDA after : Interact(<<"call", left, args>>, after)))
    [] Is(s, "OPEN_BRACKET") ->
         ExpectExpression(Tail(s), LAMBDA index, rest :
           Expect("CLOSE_BRACKET", rest, LAMBDA after : Interact(<<"index", left, index>>, after)))
    [] IsOneOf(s, {"INCREMENT", "DECREMENT"}) ->
         Then(Assigning(left, <<"postfix", <<Head(s)>>, left>>, Tail(s)), Interact)
    [] OTHER -> Found(left, s)

ParseInteract(s) ==
  Then(ParseBase(s), LAMBDA left, rest : IF left = Null THEN Nothing(rest) ELSE Interact(left, rest))

(* parse_unary_expression.                                                  *)
Operand(s, K(_, _)) == ThenSome(Inner("unary", s), K)

ParseUnary(s) ==
  CASE s = <<>> -> Crash
    [] IsOneOf(s, {"INCREMENT", "DECREMENT"}) ->
         Operand(Tail(s), LAMBDA e, rest : Assigning(e, <<"prefix", <<Head(s)>>, e>>, rest))
    [] IsOneOf(s, {"SUB", "NOT", "BITWISE_NOT"}) ->
         Operand(Tail(s), LAMBDA e, rest : Found(<<"unary", <<Head(s)>>, e>>, rest))
    [] Is(s, "LT") ->
         ThenSome(ParseType(Tail(s), FALSE, FALSE), LAMBDA typed, rest :
           Expect("GT", rest, LAMBDA after :
             Operand(after, LAMBDA e, end : Found(<<"cast", typed[2], e>>, end))))
    [] Is(s, "NEW") -> ParseNew(Tail(s))
    [] OTHER -> ParseInteract(s)

(* parse_muldiv_expression to parse_or_expression: one loop for each level   *)
(* of precedence, the tightest first, all of them to the left.  The levels   *)
(* that switch on the type of the next token read it through null at the     *)
(* end of the source.                                                        *)
Levels == <<{"MUL", "DIV", "MOD"}, {"ADD", "SUB"}, {"ASHIFT", "LSHIFT", "RSHIFT"},
            {"GT", "GTE", "LT", "LTE"}, {"STR_CONCAT"}, {"EQ", "NE", "IS"},
            {"BITWISE_AND"}, {"BITWISE_XOR"}, {"BITWISE_OR"}, {"AND"}, {"XOR"}, {"OR"}>>
SwitchingLevels == {1, 2, 3, 4, 6}

RECURSIVE ParseLevel(_, _), LevelLoop(_, _, _)
LevelLoopToTheRight(n, left, s) ==
  CASE s = <<>> /\ n \in SwitchingLevels -> Crash
    [] IsOneOf(s, Levels[n]) ->
         ThenSome(ParseLevel(n, Tail(s)), LAMBDA right, rest :
           LevelLoop(n, <<"binary", <<Head(s)>>, left, right>>, rest))
    [] OTHER -> Found(left, s)
LevelLoop(n, left, s) ==
  CASE s = <<>> /\ n \in SwitchingLevels -> Crash
    [] IsOneOf(s, Levels[n]) ->
         ThenSome(ParseLevel(n - 1, Tail(s)), LAMBDA right, rest :
           LevelLoop(n, <<"binary", <<Head(s)>>, left, right>>, rest))
    [] OTHER -> Found(left, s)

ParseLevel(n, s) ==
  IF n = 0
    THEN Inner("unary", s)
    ELSE Then(ParseLevel(n - 1, s), LAMBDA left, rest :
           IF left = Null THEN Nothing(rest) ELSE LevelLoop(n, left, rest))

ParseOr(s) == ParseLevel(Len(Levels), s)

(* parse_operation_expression.                                              *)
AssignOperators ==
  {"STR_CONCAT_ASSIGN", "ASHIFT_ASSIGN", "LSHIFT_ASSIGN", "RSHIFT_ASSIGN", "ADD_ASSIGN",
   "BITWISE_AND_ASSIGN", "BITWISE_OR_ASSIGN", "BITWISE_XOR_ASSIGN", "DIV_ASSIGN", "MOD_ASSIGN",
   "MUL_ASSIGN", "SUB_ASSIGN"}

RECURSIVE OperationLoop(_, _)
OperationLoop(left, s) ==
  CASE s = <<>> -> Crash
    [] Is(s, "ASSIGN") ->
         ThenSome(ParseOr(Tail(s)), LAMBDA right, rest :
           Then(Assigning(left, <<"set", left, right>>, rest), OperationLoop))
    [] Is(s, "TERNARY") ->
         ExpectExpression(Tail(s), LAMBDA right, rest :
           Expect("COLON", rest, LAMBDA after :
             ThenSome(ParseOr(after), LAMBDA last, end :
               OperationLoop(<<"ternary", left, right, last>>, end))))
    [] IsOneOf(s, AssignOperators) ->
         ThenSome(ParseOr(Tail(s)), LAMBDA right, rest :
           Then(Assigning(left, <<"assign", <<Head(s)>>, left, right>>, rest), OperationLoop))
    [] OTHER -> Found(left, s)

ParseExpression(s) ==
  Then(ParseOr(s), LAMBDA left, rest : IF left = Null THEN Nothing(rest) ELSE OperationLoop(left, rest))

-----------------------------------------------------------------------------
(* parse_define_statement: a type, and names with or without a value.        *)
RECURSIVE DefineClauses(_, _, _)
DefineClauses(define, s, allowInit) ==
  Expect("IDENTIFIER", s, LAMBDA rest :
    LET more(value, after) ==
          IF Is(after, "COMMA")
            THEN DefineClauses(define \o <<Name, value>>, Tail(after), allowInit)
            ELSE Found(define \o <<Name, value>>, after)
    IN CASE define[2] = <<"VOID">> -> Exit(rest)
         [] define[2] # <<"VOID">> /\ allowInit /\ Is(rest, "ASSIGN") ->
              ExpectExpression(Tail(rest), more)
         [] OTHER -> more(Null, rest))

ParseDefine(s, allowInit) ==
  Then(ParseType(s, FALSE, FALSE), LAMBDA typed, rest :
    IF typed = Null THEN Nothing(rest) ELSE DefineClauses(<<"define", typed[2]>>, rest, allowInit))

(* ensure_block and set_block_parent.                                       *)
EnsureBlock(node) == IF node = Null \/ node[1] = "block" THEN node ELSE <<"block", node>>

(* A semicolon alone; a statement that is one stands for no statement.       *)
EmptyStatement == <<"expression", Null>>

(* expect_statement.                                                        *)
ExpectStatement(s, K(_, _)) ==
  ThenSome(Inner("statement", s), LAMBDA node, rest :
    K(IF node = EmptyStatement THEN Null ELSE node, rest))

(* next_statement and parse_block: statements until there is none.           *)
RECURSIVE ParseBlock(_, _)
ParseBlock(block, s) ==
  Then(Inner("statement", s), LAMBDA node, rest :
    CASE node = Null -> Found(block, rest)
      [] node = EmptyStatement -> ParseBlock(block, rest)
      [] OTHER -> ParseBlock(Append(block, node), rest))

(* break and continue.                                                      *)
ParseControl(s) ==
  LET label == IF Is(Tail(s), "IDENTIFIER") THEN Name ELSE Null
  IN Closed("SEMICOLON", IF label = Null THEN Tail(s) ELSE Tail(Tail(s)), <<"control", label>>)

(* class.                                                                   *)
RECURSIVE ParseFields(_, _)
ParseFields(class, s) ==
  Then(ParseDefine(s, FALSE), LAMBDA define, rest :
    IF define = Null
      THEN Closed("CLOSE_BRACE", rest, class)
      ELSE Expect("SEMICOLON", rest, LAMBDA after : ParseFields(Append(class, define), after)))

ParseClass(s) ==
  Expect("IDENTIFIER", s, LAMBDA rest :
    IF Is(rest, "EXTENDS")
      THEN Expect("IDENTIFIER", Tail(rest), LAMBDA after :
             Expect("OPEN_BRACE", after, LAMBDA fields : ParseFields(<<"class", Name, Name>>, fields)))
      ELSE Expect("OPEN_BRACE", rest, LAMBDA fields : ParseFields(<<"class", Name, Null>>, fields)))

(* The condition of an if, a while or a do.                                 *)
ParseCondition(s, K(_, _)) ==
  Expect("OPEN_PAREN", s, LAMBDA inside :
    ExpectExpression(inside, LAMBDA condition, rest :
      Expect("CLOSE_PAREN", rest, LAMBDA after : K(condition, after))))

ParseIf(s) ==
  ParseCondition(s, LAMBDA condition, body :
    ExpectStatement(body, LAMBDA first, rest :
      IF Is(rest, "ELSE")
        THEN ExpectStatement(Tail(rest), LAMBDA second, after :
               Found(<<"if", condition, EnsureBlock(first), EnsureBlock(second)>>, after))
        ELSE Found(<<"if", condition, EnsureBlock(first), Null>>, rest)))

(* let.                                                                     *)
RECURSIVE ParseLet(_, _)
ParseLet(let, s) ==
  Expect("IDENTIFIER", s, LAMBDA rest :
    Expect("ASSIGN", rest, LAMBDA value :
      ExpectExpression(value, LAMBDA e, after :
        LET more == let \o <<Name, e>>
        IN IF Is(after, "COMMA") THEN ParseLet(more, Tail(after)) ELSE Closed("SEMICOLON", after, more))))

(* native.                                                                  *)
ParseNative(s) ==
  Expect("IDENTIFIER", s, LAMBDA rest :
    LET assign == Is(rest, "ASSIGN")
        call(after, K(_, _)) ==
          Expect("OPEN_PAREN", after, LAMBDA inside :
            Then(ParseExpressionList(inside), LAMBDA args, close :
              Expect("CLOSE_PAREN", close, LAMBDA last :
                Expect("SEMICOLON", last, LAMBDA end : K(<<"native", Name, args>>, end)))))
    IN IF assign
         THEN Expect("IDENTIFIER", Tail(rest), LAMBDA after :
                call(after, LAMBDA e, end : Found(<<"expression", <<"set", Name, e>>>>, end)))
         ELSE call(rest, LAMBDA e, end : Found(<<"expression", e>>, end)))

ParseReturn(s) ==
  IF Is(s, "SEMICOLON")
    THEN Found(<<"return", Null>>, Tail(s))
    ELSE ExpectExpression(s, LAMBDA e, rest : Closed("SEMICOLON", rest, <<"return", e>>))

ParseDo(s) ==
  ExpectStatement(s, LAMBDA body, rest :
    Expect("WHILE", rest, LAMBDA after :
      ParseCondition(after, LAMBDA condition, last :
        Closed("SEMICOLON", last, <<"do", condition, EnsureBlock(body)>>))))

ParseWhile(s) ==
  ParseCondition(s, LAMBDA condition, rest :
    ExpectStatement(rest, LAMBDA body, after : Found(<<"while", condition, EnsureBlock(body)>>, after)))

-----------------------------------------------------------------------------
ForBodyWithoutStep(body, step) ==
  IF step # Null /\ body = Null THEN <<"block", <<"expression", step>>>> ELSE EnsureBlock(body)

(* A for is made a loop whose block ends with the step, in a block that      *)
(* begins with the initialisation.  The step is hung on the block made of    *)
(* the body, but the new block is made of the body itself: for a body that   *)
(* is no block the step is then looked for where there is none.              *)
ForBody(body, step) ==
  CASE step = Null -> EnsureBlock(body)
    [] step # Null /\ body = Null -> <<"block", <<"expression", step>>>>
    [] OTHER -> <<"block", body, <<"expression", step>>>>

ForLoop(init, condition, step, body) ==
  LET loop == IF condition = Null
                THEN <<"do", <<"LITERAL">>, ForBody(body, step)>>
                ELSE <<"while", condition, ForBody(body, step)>>
  IN IF init = Null THEN loop ELSE <<"block", init, loop>>

ForBodyIsLost(body, step) == step # Null /\ body # Null /\ body[1] # "block"

ForRest(init, s) ==
  Expect("SEMICOLON", s, LAMBDA test :
    Then(Inner("expression", test), LAMBDA condition, rest :
      Expect("SEMICOLON", rest, LAMBDA each :
        Then(Inner("expression", each), LAMBDA step, close :
          Expect("CLOSE_PAREN", close, LAMBDA inside :
            ExpectStatement(inside, LAMBDA body, after :
              IF ForBodyIsLost(body, step)
                THEN Stop("crash", after)
                ELSE Found(ForLoop(init, condition, step, body), after)))))))

ParseFor(s) ==
  Expect("OPEN_PAREN", s, LAMBDA inside :
    Then(ParseDefine(inside, TRUE), LAMBDA define, rest :
      IF define # Null
        THEN ForRest(define, rest)
        ELSE Then(Inner("expression", rest), LAMBDA e, after :
               ForRest(IF e = Null THEN Null ELSE <<"expression", e>>, after))))

(* A label is stored where a loop has it; a block, which is what a for with  *)
(* an initialisation becomes, has its body there.                            *)
ParseLabelled(s) ==
  CASE s = <<>> -> Crash
    [] IsOneOf(s, {"DO", "WHILE", "FOR"}) ->
         ThenSome(Inner("statement", s), LAMBDA loop, rest :
           Found(IF loop[1] = "block" THEN <<"clobbered">> ELSE <<"labelled", Name, loop>>, rest))
    [] OTHER -> Exit(s)

-----------------------------------------------------------------------------
(* What parse_statement does with the structure it has been told.            *)
ParseStatementAs(structure, s) ==
  CASE structure = {D} ->
         Then(ParseDefine(s, TRUE), LAMBDA define, rest :
           IF define = Null THEN Nothing(rest) ELSE Closed("SEMICOLON", rest, define))
    [] structure = {E} ->
         Then(Inner("expression", s), LAMBDA e, rest :
           IF e = Null THEN Nothing(rest) ELSE Closed("SEMICOLON", rest, <<"expression", e>>))
    [] structure = {F} -> ParseFunction(s, FALSE)
    [] OTHER -> Nothing(s)

ParseOther(s) ==
  LET found == Classify("statement", s)
  IN IF found.end = "crash" THEN Crash ELSE ParseStatementAs(found.structure, s)

ParseStatement(s) ==
  CASE s = <<>> -> Nothing(s)
    [] Is(s, "SEMICOLON") -> Found(EmptyStatement, Tail(s))
    [] IsOneOf(s, {"BREAK", "CONTINUE"}) -> ParseControl(s)
    [] Is(s, "CLASS") -> ParseClass(Tail(s))
    [] Is(s, "IF") -> ParseIf(Tail(s))
    [] Is(s, "LET") -> ParseLet(<<"let">>, Tail(s))
    [] Is(s, "NATIVE") -> ParseNative(Tail(s))
    [] Is(s, "OPEN_BRACE") ->
         Then(Inner("block", Tail(s)), LAMBDA block, rest : Closed("CLOSE_BRACE", rest, block))
    [] Is(s, "RETURN") -> ParseReturn(Tail(s))
    [] Is(s, "DO") -> ParseDo(Tail(s))
    [] Is(s, "WHILE") -> ParseWhile(Tail(s))
    [] Is(s, "FOR") -> ParseFor(Tail(s))
    [] Is(s, "IDENTIFIER") /\ Is(Tail(s), "COLON") -> ParseLabelled(Tail(Tail(s)))
    [] OTHER -> ParseOther(s)

Inner(what, s) ==
  CASE what = "expression" -> ParseExpression(s)
    [] what = "unary" -> ParseUnary(s)
    [] what = "block" -> ParseBlock(<<"block">>, s)
    [] what = "statement" -> ParseStatement(s)

(* parse: a block that is the whole source.                                  *)
Parse(s) ==
  Then(ParseBlock(<<"block">>, s), LAMBDA block, rest : IF rest = <<>> THEN Found(block, rest) ELSE Exit(rest))

=============================================================================
