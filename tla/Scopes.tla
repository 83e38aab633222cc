------------------------------- MODULE Scopes -------------------------------
(***************************************************************************)
(* Declarations, look-ups and the targets of jumps (analyze-symbol.c and   *)
(* analyze.c), over the parent pointers that parse.c leaves behind.        *)
(*                                                                         *)
(* First the parser writes a program, one statement at a time, into the    *)
(* blocks that are open; then analyze goes over it in order.  Both sides   *)
(* of the tree are kept as the code keeps them: what a node holds (body),  *)
(* and the node it believes to be its parent.  Nodes are numbered in the   *)
(* order of the text; node 1 is the outermost block, the core library that *)
(* wrap_core hangs the program into as one more nested block.              *)
(*                                                                         *)
(* A body that is a single statement is put into a block (ensure_block,    *)
(* set_block_parent), so bodies are blocks here.  Types are left out, but  *)
(* for the names of classes in them.  There is no typedef: its syntax is   *)
(* commented out (parse.c:1163-1174), so only classes are in the tables of *)
(* types.                                                                  *)
(***************************************************************************)
EXTENDS Integers, Sequences, SequencesExt

CONSTANTS
  Names,      \* of variables, functions and classes
  Labels,     \* of loops
  None,       \* no name, no label
  Languages   \* the kinds of program: [forms, names, types, labels, modes, size]

ASSUME NoneAssumption == None \notin Names \cup Labels
Modes == {"get", "set", "identity", "native", "new"}   \* the ways an expression looks a name up
ASSUME LanguagesAssumption ==
  \A l \in Languages : /\ l.names \subseteq Names /\ l.types \subseteq Names \cup {None}
                       /\ l.labels \subseteq Labels \cup {None} /\ l.modes \subseteq Modes
                       /\ l.size \in Nat

VARIABLES
  language,   \* what this program is written with
  nodes,      \* the tree
  open,       \* the blocks the parser is in, the innermost last
  lines,      \* how many statements have been written, for the bound on them
  tables,     \* the symbol tables of all the blocks
  calls,      \* the calls of analyze: the block, and the statement it has come to
  found,      \* the entries that look-ups have found
  targets,    \* the loops and functions that jumps go to
  ended       \* how it ended, "" while it goes on

vars == <<language, nodes, open, lines, tables, calls, found, targets, ended>>

NoLook == [name |-> None, mode |-> "none"]

Node(kind, parent) ==
  [kind |-> kind, parent |-> parent, body |-> <<>>, name |-> None, argument |-> None,
   type |-> None, value |-> NoLook, label |-> None, function |-> 0]

Top == Last(open)
New == Len(nodes) + 1
Line(kind) == Node(kind, Top)
LoopKinds == {"while", "do"}   \* the kinds of loop

(* The first of these nodes is a statement of the block the parser is in.    *)
Write(new) ==
  /\ nodes' = [nodes EXCEPT ![Top].body = Append(@, New)] \o new
  /\ lines' = lines + 1
  /\ UNCHANGED <<language, tables, calls, found, targets, ended>>
WriteLine(node) == Write(<<node>>) /\ UNCHANGED open
WriteAround(new, block) == Write(new) /\ open' = Append(open, block)

Writing == calls = <<>> /\ ended = ""
May(form) == Writing /\ form \in language.forms /\ lines < language.size
Values == {NoLook} \cup [name : language.names, mode : language.modes \cap {"get"}]

-----------------------------------------------------------------------------
(* The parser writes.                                                      *)

WriteExpression ==
  /\ May("expression")
  /\ \E look \in [name : language.names, mode : language.modes] :
       WriteLine([Line("expression") EXCEPT !.value = look])

WriteLet ==
  /\ May("let")
  /\ \E name \in language.names, look \in Values :
       WriteLine([Line("let") EXCEPT !.name = name, !.value = look])

WriteDefine ==
  /\ May("define")
  /\ \E name \in language.names, type \in language.types, look \in Values :
       WriteLine([Line("define") EXCEPT !.name = name, !.type = type, !.value = look])

(* type is the class it extends, or that of a field.                       *)
WriteClass ==
  /\ May("class")
  /\ \E name \in language.names, type \in language.types :
       WriteLine([Line("class") EXCEPT !.name = name, !.type = type])

(* break or continue: they are told apart by the generator.                *)
WriteControl ==
  /\ May("control")
  /\ \E label \in language.labels : WriteLine([Line("control") EXCEPT !.label = label])

WriteReturn ==
  /\ May("return")
  /\ \E look \in Values : WriteLine([Line("return") EXCEPT !.value = look])

(* "return;" has no value, "while (x);" no body: both are null pointers.   *)
WriteEmptyReturn == May("empty") /\ WriteLine(Line("return nothing"))
WriteEmptyLoop == May("empty") /\ \E kind \in LoopKinds : WriteLine(Line(kind))

OpenBlock == May("block") /\ WriteAround(<<Line("block")>>, New)

(* The parser knows no parent for the body of a function.                  *)
WriteFunction(line) ==
  WriteAround(<<[line EXCEPT !.body = <<New + 1>>], [Node("block", 0) EXCEPT !.function = New]>>,
              New + 1)

OpenFunction ==
  /\ May("function")
  /\ \E name \in language.names, argument \in {None} \cup language.names, type \in language.types :
       WriteFunction([Line("function") EXCEPT !.name = name, !.argument = argument, !.type = type])

(* A function as an expression.                                            *)
OpenLiteral ==
  /\ May("literal")
  /\ \E argument \in {None} \cup language.names :
       WriteFunction([Line("literal") EXCEPT !.argument = argument])

OpenIf ==
  /\ May("if")
  /\ \E look \in Values :
       WriteAround(<<[Line("if") EXCEPT !.value = look, !.body = <<New + 1>>],
                     Node("block", New)>>, New + 1)

OpenLoop ==
  /\ May("loop")
  /\ \E kind \in LoopKinds, label \in language.labels, look \in Values :
       WriteAround(<<[Line(kind) EXCEPT !.label = label, !.value = look, !.body = <<New + 1>>],
                     Node("block", New)>>, New + 1)

(* { init; loop { { body } step } }, where a loop without a condition is a   *)
(* do-while.  A label would be written into the block around an init, over   *)
(* its body: such a loop has none here.                                      *)
LoopParentOutside(init) == Top
LoopParent(init) == IF init = None THEN Top ELSE New

ForNodes(init, step, kind, label) ==
  LET loop == IF init = None THEN New ELSE New + 2
      around == IF init = None THEN <<>>
                ELSE <<[Line("block") EXCEPT !.body = <<New + 1, loop>>],
                       [Node("define", New) EXCEPT !.name = init]>>
      head == [Node(kind, LoopParent(init)) EXCEPT !.label = label, !.body = <<loop + 1>>]
      inside == IF step = NoLook THEN <<Node("block", loop)>>
                ELSE <<[Node("block", loop) EXCEPT !.body = <<loop + 3, loop + 2>>],
                       [Node("expression", loop + 1) EXCEPT !.value = step],
                       Node("block", loop + 1)>>
  IN around \o <<head>> \o inside

OpenFor ==
  /\ May("for")
  /\ \E init \in {None} \cup language.names, step \in Values, kind \in LoopKinds,
        label \in language.labels :
       LET new == ForNodes(init, step, kind, label)
       IN /\ init # None => label = None
          /\ WriteAround(new, Len(nodes) + Len(new))

Close ==
  /\ Writing /\ Len(open) > 1
  /\ open' = Front(open)
  /\ UNCHANGED <<language, nodes, lines, tables, calls, found, targets, ended>>

Else ==
  /\ Writing /\ Len(open) > 1
  /\ LET branch == nodes[Top].parent
     IN /\ branch # 0
        /\ nodes[branch].kind = "if" /\ Len(nodes[branch].body) = 1
        /\ nodes' = Append([nodes EXCEPT ![branch].body = Append(@, New)], Node("block", branch))
        /\ open' = Append(Front(open), New)
  /\ UNCHANGED <<language, lines, tables, calls, found, targets, ended>>

Call(block) == [block |-> block, at |-> 0]

(* The parser is done: analyze(root).                                      *)
Start ==
  /\ Writing /\ open = <<1>> /\ lines > 0
  /\ calls' = <<Call(1)>>
  /\ UNCHANGED <<language, nodes, open, lines, tables, found, targets, ended>>

-----------------------------------------------------------------------------
(* Walks along the parents.  Where the code aborts on a kind of statement,  *)
(* no node has a parent of that kind (LinksAgree).                         *)

(* The block around n, and whether a function was left on the way to it.    *)
Around(n) ==
  LET up[m \in 0 .. Len(nodes)] ==
        CASE m = 0 -> [block |-> 0, escape |-> FALSE]
          [] m # 0 /\ nodes[m].kind = "block" -> [block |-> m, escape |-> FALSE]
          [] OTHER -> LET above == up[nodes[m].parent]
                      IN [above EXCEPT !.escape = @ \/ nodes[m].kind = "function"]
  IN up[nodes[n].parent]
ParentScope(b) == Around(b).block

GetLabelLoosely(control) ==
  LET walk[n \in 0 .. Len(nodes)] ==
        CASE n = 0 -> 0
          [] n # 0 /\ nodes[n].kind \in LoopKinds
               /\ nodes[n].label \in {None, nodes[control].label} -> n
          [] n # 0 /\ nodes[n].kind = "function" -> 0
          [] OTHER -> walk[nodes[n].parent]
  IN walk[nodes[control].parent]

GetLabel(control) ==
  LET walk[n \in 0 .. Len(nodes)] ==
        CASE n = 0 -> 0
          [] n # 0 /\ nodes[n].kind \in LoopKinds /\ nodes[n].label = nodes[control].label -> n
          [] n # 0 /\ nodes[n].kind = "function" -> 0
          [] OTHER -> walk[nodes[n].parent]
  IN walk[nodes[control].parent]

(* break and continue without a label.                                     *)
NearestLoop(block) ==
  LET walk[b \in 0 .. Len(nodes)] ==
        LET parent == IF b = 0 THEN 0 ELSE nodes[b].parent
        IN CASE b = 0 -> 0
             [] parent # 0 /\ nodes[parent].kind \in LoopKinds -> parent
             [] OTHER -> IF Around(b).escape THEN 0 ELSE walk[ParentScope(b)]
  IN walk[block]

FunctionOutside(block) ==
  LET walk[n \in 0 .. Len(nodes)] ==
        CASE n = 0 -> 0
          [] n # 0 /\ nodes[n].function # 0 -> nodes[n].function
          [] OTHER -> walk[nodes[n].parent]
  IN walk[ParentScope(block)]

FunctionAround(block) ==
  LET walk[n \in 0 .. Len(nodes)] ==
        CASE n = 0 -> 0
          [] n # 0 /\ nodes[n].function # 0 -> nodes[n].function
          [] OTHER -> walk[nodes[n].parent]
  IN walk[block]

-----------------------------------------------------------------------------
(* Symbol tables.                                                          *)

Entry(block, table, name, node) == [block |-> block, table |-> table, name |-> name, node |-> node]
NoEntry == Entry(0, "none", None, 0)

Order == <<"FUNCTION", "VARIABLE", "CLASS", "TYPE">>
EarlierBackwards(d, e) ==
  \E i, j \in DOMAIN Order : i > j /\ Order[i] = d.table /\ Order[j] = e.table
Earlier(d, e) == \E i, j \in DOMAIN Order : i < j /\ Order[i] = d.table /\ Order[j] = e.table

Named(ts, block, name, mask) ==
  {e \in ts : e.block = block /\ e.name = name /\ e.table \in mask}

GetSymbol(ts, block, name, mask) ==
  LET get[b \in 0 .. Len(nodes)] ==
        LET here == IF b = 0 THEN {} ELSE Named(ts, b, name, mask)
        IN CASE b = 0 -> NoEntry
             [] here # {} -> CHOOSE e \in here : \A d \in here \ {e} : Earlier(e, d)
             [] OTHER -> get[ParentScope(b)]
  IN get[block]

Mask(mode) ==
  CASE mode \in {"get", "set"} -> {"FUNCTION", "VARIABLE"}
    [] mode = "identity" -> {"FUNCTION", "VARIABLE", "TYPE"}
    [] mode = "native" -> {"VARIABLE"}
    [] mode \in {"new", "type"} -> {"TYPE"}

(* A native assignment is an assignment of a native call, which both look.  *)
LooksOf(look) ==
  CASE look = NoLook -> {}
    [] look.mode = "native" -> {look, [look EXCEPT !.mode = "set"]}
    [] OTHER -> {look}
Types(n) ==
  IF nodes[n].type = None THEN {} ELSE {[name |-> nodes[n].type, mode |-> "type"]}

(* What a look-up does with what it finds.                                 *)
Fault(look, entry) ==
  CASE entry = NoEntry -> "undeclared"
    [] entry.table = "FUNCTION" /\ look.mode \in {"set", "identity"} -> "misused"
    [] OTHER -> ""

Finds(ts, n, block, looks) ==
  {[node |-> n, look |-> look, entry |-> GetSymbol(ts, block, look.name, Mask(look.mode))] :
     look \in looks}
Faults(finds) == {Fault(f.look, f.entry) : f \in finds} \ {""}

(* What a statement declares, in which block.                              *)
Declares(n, block) ==
  LET here == CASE nodes[n].kind \in {"let", "define"} -> {"VARIABLE"}
                [] nodes[n].kind = "class" -> {"TYPE", "CLASS"}
                [] nodes[n].kind = "function" -> {"VARIABLE", "FUNCTION"}
                [] OTHER -> {}
  IN {Entry(block, table, nodes[n].name, n) : table \in here}
Arguments(n) ==
  IF nodes[n].argument = None THEN {}
  ELSE {Entry(nodes[n].body[1], "VARIABLE", nodes[n].argument, n)}

(* add_symbol finds the name in the table it is to be added to.            *)
DefinedInAnyTable(ts, entries) ==
  \E e \in entries : Named(ts, e.block, e.name, Range(Order)) # {}
Defined(ts, entries) == \E e \in entries : Named(ts, e.block, e.name, {e.table}) # {}

-----------------------------------------------------------------------------
(* analyze.                                                                *)

Running == calls # <<>> /\ ended = ""
Block == Last(calls).block
Statement == nodes[Block].body[Last(calls).at]
At(kinds) ==
  /\ Running /\ Last(calls).at \in 1 .. Len(nodes[Block].body)
  /\ nodes[Statement].kind \in kinds

Onward == [calls EXCEPT ![Len(calls)].at = @ + 1]
(* The blocks are analyzed in this order, before the next statement.        *)
OnwardAfterOne(blocks) ==
  Onward \o (IF blocks = <<>> THEN <<>> ELSE <<Call(Head(blocks))>>)
OnwardAfter(blocks) == Onward \o Reverse([i \in DOMAIN blocks |-> Call(blocks[i])])

Ends(how) ==
  ended' = how /\ UNCHANGED <<language, nodes, open, lines, tables, calls, found, targets>>

(* A step of analyze that goes well: the new tables and finds, and the calls. *)
Goes(ts, finds, cs) ==
  /\ tables' = ts /\ found' = found \cup finds /\ calls' = cs
  /\ UNCHANGED <<language, nodes, open, lines, targets, ended>>

(* The looks of one statement can only fail in one way.                     *)
GoesOrEnds(ts, finds, cs) ==
  IF Faults(finds) # {} THEN Ends(CHOOSE f \in Faults(finds) : TRUE) ELSE Goes(ts, finds, cs)

(* The three passes of analyze before the statements: the names of classes,   *)
(* what the classes name, then functions, each with the types of its         *)
(* signature first.                                                          *)
Hoist ==
  /\ Running /\ Last(calls).at = 0
  /\ LET these(kind) == {n \in Range(nodes[Block].body) : nodes[n].kind = kind}
         entries(ns) == UNION {Declares(n, Block) : n \in ns}
         before(ns, n) == {m \in ns : m < n}
         redefined(ns) ==
           {n \in ns : Defined(tables \cup entries(before(ns, n)), Declares(n, Block))}
         classes == tables \cup entries(these("class"))
         finds(ns) == UNION {Finds(classes, n, Block, Types(n)) : n \in ns}
         lost == {n \in these("function") : Faults(finds({n})) # {}}
         wrong == lost \cup redefined(these("function"))
     IN IF redefined(these("class")) # {} THEN Ends("defined")
        ELSE IF Faults(finds(these("class"))) # {} THEN Ends("undeclared")
        ELSE IF wrong # {} THEN
          LET first == CHOOSE n \in wrong : \A m \in wrong : n <= m
          IN Ends(IF first \in lost THEN "undeclared" ELSE "defined")
        ELSE Goes(classes \cup entries(these("function")),
                  finds(these("class") \cup these("function")), Onward)

AnalyzeBlock == At({"block"}) /\ Goes(tables, {}, OnwardAfter(<<Statement>>))

AnalyzeExpression ==
  /\ At({"expression"})
  /\ GoesOrEnds(tables, Finds(tables, Statement, Block, LooksOf(nodes[Statement].value)), Onward)

(* The value is analyzed before the name is declared,                       *)
AnalyzeLet ==
  /\ At({"let"})
  /\ LET finds == Finds(tables, Statement, Block, LooksOf(nodes[Statement].value))
         entries == Declares(Statement, Block)
     IN IF Faults(finds) = {} /\ Defined(tables, entries) THEN Ends("defined")
        ELSE GoesOrEnds(tables \cup entries, finds, Onward)

(* and here after it.                                                       *)
AnalyzeDefine ==
  /\ At({"define"})
  /\ LET typed == Finds(tables, Statement, Block, Types(Statement))
         entries == Declares(Statement, Block)
         finds == Finds(tables \cup entries, Statement, Block, LooksOf(nodes[Statement].value))
     IN IF Faults(typed) = {} /\ Defined(tables, entries) THEN Ends("defined")
        ELSE GoesOrEnds(tables \cup entries, IF Faults(typed) # {} THEN typed ELSE typed \cup finds,
                        Onward)

(* The body is given its parent here: the block, not the function.          *)
AnalyzeFunction ==
  /\ At({"function", "literal"})
  /\ LET body == nodes[Statement].body[1]
     IN /\ nodes' = [nodes EXCEPT ![body].parent = Block]
        /\ tables' = tables \cup Arguments(Statement)
        /\ calls' = OnwardAfter(<<body>>)
  /\ UNCHANGED <<language, open, lines, found, targets, ended>>

Condition == Finds(tables, Statement, Block, LooksOf(nodes[Statement].value))

AnalyzeIf ==
  /\ At({"if"})
  /\ GoesOrEnds(tables, Condition, OnwardAfter(nodes[Statement].body))

AnalyzeLoop ==
  /\ At(LoopKinds)
  /\ IF Faults(Condition) = {} /\ nodes[Statement].body = <<>> THEN Ends("crash")
     ELSE GoesOrEnds(tables, Condition, OnwardAfter(nodes[Statement].body))

AnalyzeControl ==
  /\ At({"control"})
  /\ LET target == IF nodes[Statement].label = None THEN NearestLoop(Block)
                   ELSE GetLabel(Statement)
     IN IF target = 0 THEN Ends("outside")
        ELSE /\ targets' = targets \cup {[node |-> Statement, target |-> target]}
             /\ calls' = Onward
             /\ UNCHANGED <<language, nodes, open, lines, tables, found, ended>>

AnalyzeReturn ==
  /\ At({"return", "return nothing"})
  /\ LET target == FunctionAround(Block)
     IN CASE target = 0 -> Ends("outside")
          [] target # 0 /\ nodes[Statement].kind = "return nothing" -> Ends("crash")
          [] target # 0 /\ Faults(Condition) # {} -> Ends("undeclared")
          [] OTHER -> /\ targets' = targets \cup {[node |-> Statement, target |-> target]}
                      /\ found' = found \cup Condition
                      /\ calls' = Onward
                      /\ UNCHANGED <<language, nodes, open, lines, tables, ended>>

(* Classes have been dealt with.                                            *)
SkipClass == At({"class"}) /\ Goes(tables, {}, Onward)

Leave ==
  /\ Running /\ Last(calls).at > Len(nodes[Block].body)
  /\ calls' = Front(calls)
  /\ ended' = IF Len(calls) = 1 THEN "done" ELSE ""
  /\ UNCHANGED <<language, nodes, open, lines, tables, found, targets>>

-----------------------------------------------------------------------------
Init ==
  /\ language \in Languages
  /\ nodes = <<Node("block", 0)>> /\ open = <<1>> /\ lines = 0
  /\ tables = {} /\ calls = <<>> /\ found = {} /\ targets = {} /\ ended = ""

Parse ==
  \/ WriteExpression \/ WriteLet \/ WriteDefine \/ WriteClass \/ WriteControl
  \/ WriteReturn \/ WriteEmptyReturn \/ WriteEmptyLoop
  \/ OpenBlock \/ OpenFunction \/ OpenLiteral \/ OpenIf \/ OpenLoop \/ OpenFor \/ Close \/ Else
Analyze ==
  \/ Hoist \/ AnalyzeBlock \/ AnalyzeExpression \/ AnalyzeLet \/ AnalyzeDefine
  \/ AnalyzeFunction \/ AnalyzeIf \/ AnalyzeLoop \/ AnalyzeControl \/ AnalyzeReturn
  \/ SkipClass \/ Leave
Next == Parse \/ Start \/ Analyze
Spec == Init /\ [][Next]_vars

-----------------------------------------------------------------------------
(* The rules of scope, by the text alone: what holds what.                 *)

Holder(n) == CHOOSE m \in DOMAIN nodes : n \in Range(nodes[m].body)
Above(n) ==
  LET above[m \in DOMAIN nodes] == IF m = 1 THEN {} ELSE {Holder(m)} \cup above[Holder(m)]
  IN above[n]
Innermost(ns) == IF ns = {} THEN 0 ELSE Max(ns)

Declarations ==
  UNION {Declares(n, Holder(n)) \cup Arguments(n) : n \in DOMAIN nodes \ {1}}

(* Classes, functions and arguments are known in all of their block; a       *)
(* variable from its declaration on, which a define counts itself in.       *)
Known(e, n) ==
  \/ nodes[e.node].kind \notin {"let", "define"}
  \/ e.node < n
  \/ e.node = n /\ nodes[n].kind = "define"

(* The innermost block that declares the name decides; in it a function goes  *)
(* before the variable of its name, and a variable before a class.          *)
Meaning(n, look) ==
  LET seen == {e \in Declarations : /\ e.block \in Above(n) /\ e.name = look.name
                                    /\ e.table \in Mask(look.mode) /\ Known(e, n)}
      here(table) == {e \in seen : e.block = Innermost({d.block : d \in seen}) /\ e.table = table}
  IN CASE seen = {} -> NoEntry
       [] here("FUNCTION") # {} -> CHOOSE e \in here("FUNCTION") : TRUE
       [] here("FUNCTION") = {} /\ here("VARIABLE") # {} -> CHOOSE e \in here("VARIABLE") : TRUE
       [] OTHER -> CHOOSE e \in here("TYPE") : TRUE

AllLooks(n) == LooksOf(nodes[n].value) \cup Types(n)

(* A function is the limit of the loops that a jump in it may mean.          *)
FunctionOf(n) == Innermost({m \in Above(n) : nodes[m].kind \in {"function", "literal"}})
LoopsAround(n) ==
  {m \in Above(n) : nodes[m].kind \in LoopKinds /\ nodes[n].label \in {None, nodes[m].label}}
LoopOf(n) == Innermost({m \in LoopsAround(n) : m > FunctionOf(n)})
TargetOf(n) == IF nodes[n].kind = "control" THEN LoopOf(n) ELSE FunctionOf(n)
Jumps == {n \in DOMAIN nodes : nodes[n].kind \in {"control", "return", "return nothing"}}

-----------------------------------------------------------------------------
(* Every name that was looked up means the declaration in the innermost      *)
(* block around it that had declared it by then, whatever tables are          *)
(* searched in which order, and whether the walk along the parents leaves     *)
(* ifs, loops or functions (get_symbol, parent_scope; add_symbol before or    *)
(* after the value of a declaration; hoisting).                              *)
ResolvesInnermost == \A f \in found : f.entry = Meaning(f.node, f.look)

(* The parents that are set by hand all over parse.c, and the body of a       *)
(* function's, which is set by analyze_function, agree with what holds what:  *)
(* a walk along the parents leaves no scope out, and meets no kind of         *)
(* statement it would abort at.                                              *)
LinksAgree ==
  \A n \in DOMAIN nodes \ {1} :
    IF nodes[Holder(n)].kind \in {"function", "literal"}
      THEN nodes[n].parent \in IF ended = "done" THEN {Holder(Holder(n))} ELSE {0, Holder(Holder(n))}
      ELSE nodes[n].parent = Holder(n)

(* When analysis ends well, every declaration of the text is in its table     *)
(* once, every name was looked up, and every jump has one target: the nested  *)
(* calls of analyze leave no statement out and take none twice.              *)
EverythingAnalyzed ==
  ended = "done" =>
    /\ tables = Declarations
    /\ \A n \in DOMAIN nodes : \A look \in AllLooks(n) :
         \E f \in found : f.node = n /\ f.look = look
    /\ {t.node : t \in targets} = Jumps /\ Cardinality(targets) = Cardinality(Jumps)

(* A program is turned down for a reason that its text has, and taken only if *)
(* it has none: no name declared twice in a block and table, no name without   *)
(* a meaning, no function assigned to, no jump out of nothing.  The exception  *)
(* is a jump out of a function to a loop around it (JumpsStayInFunction).      *)
Redeclares == \E d, e \in Declarations :
  d # e /\ d.block = e.block /\ d.table = e.table /\ d.name = e.name
HasFault(how) == \E n \in DOMAIN nodes : \E look \in AllLooks(n) : Fault(look, Meaning(n, look)) = how
Strays == \E n \in Jumps : TargetOf(n) = 0
IsEmpty == \E n \in DOMAIN nodes :
  \/ nodes[n].kind = "return nothing"
  \/ nodes[n].kind \in LoopKinds /\ nodes[n].body = <<>>

Reason(how) ==
  CASE how = "defined" -> Redeclares
    [] how \in {"undeclared", "misused"} -> HasFault(how)
    [] how = "outside" -> Strays
    [] how = "crash" -> IsEmpty
Verdicts == {"defined", "undeclared", "misused", "outside", "crash"}

LeavesFunction(n) == nodes[n].kind = "control" /\ LoopsAround(n) # {}

RejectsOnlyWrong ==
  /\ ended \in Verdicts => Reason(ended)
  /\ ended = "done" => /\ \A how \in Verdicts \ {"outside"} : ~Reason(how)
                       /\ \A n \in Jumps : TargetOf(n) = 0 => LeavesFunction(n)

(* break and continue go to the innermost loop around them in their function,  *)
(* or to the innermost with their label, whenever there is one: the walks of   *)
(* analyze_inner and get_label pass no such loop by, and go no further.        *)
JumpsFindLoop ==
  \A t \in targets :
    nodes[t.node].kind = "control" /\ LoopOf(t.node) # 0 => t.target = LoopOf(t.node)

(* No break or continue leaves the function it is in: get_label and            *)
(* parent_scope stop at a function statement, and the message is "must be      *)
(* inside a loop".  It does not hold: the parent of a function's body is the   *)
(* block the function is in, so no walk meets the statement it would stop at.  *)
JumpsStayInFunction ==
  \A t \in targets : nodes[t.node].kind = "control" => t.target > FunctionOf(t.node)

(* A return leaves the innermost function around it, declared or literal,     *)
(* through any number of blocks, ifs and loops.                              *)
ReturnsFindFunction ==
  \A t \in targets : nodes[t.node].kind = "return" => t.target = FunctionOf(t.node)
=============================================================================
