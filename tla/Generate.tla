------------------------------ MODULE Generate ------------------------------
(***************************************************************************)
(* generate.c: from the analysed tree to code blocks.                       *)
(*                                                                         *)
(* The generator walks the tree recursively, always filling one block       *)
(* ("parent" in the code, cur here; NoBlock after a statement that ends     *)
(* abruptly).  Here the recursion is the stack "frames": one frame for     *)
(* every generate_* call that waits for a nested statement list or         *)
(* expression, holding that call's local variables.  "at" says what comes   *)
(* next: a statement, a further clause of a definition, an expression, or   *)
(* the return of an expression to the call that waits for it.              *)
(*                                                                         *)
(* The program is not given in advance: every step picks the next node of   *)
(* the tree, so the behaviours are the programs with at most MaxNodes       *)
(* statements and expressions (a literal may always be chosen).  "scope"    *)
(* is what analysis knows: the variables declared and still in scope, in    *)
(* order.                                                                  *)
(*                                                                         *)
(* LoopTriggerLate, EndReturnGoesOn, EndsUnlessCut and ComputeInPlace are   *)
(* mutants of the definitions after them, as in CodeBlocks.                 *)
(***************************************************************************)
EXTENDS CodeBlocks

CONSTANTS Constructs,  \* the node kinds the programs are built from
          Units,       \* what is generated: the top level, or a function body
          MaxNodes,    \* bound: nodes of the program
          MaxParams,   \* bound: parameters of the function
          MaxArgs      \* bound: arguments of a call

NodeKinds == {"declare", "define", "let", "expression", "if", "while", "do", "block",
              "break", "continue", "return",
              "get", "set", "compound", "postfix", "linear", "instanceof",
              "element", "update", "ternary", "call"}

ASSUME ConstructsAssumption == Constructs \subseteq NodeKinds
ASSUME UnitsAssumption == Units \subseteq {"top", "void", "value"} /\ Units # {}
ASSUME BoundsAssumption == MaxNodes \in Nat /\ MaxParams \in Nat /\ MaxArgs \in Nat

NoBlock == 0

\* A variable declared outside the function (those of the unit are numbered from
\* 1), which analysis lets its body name as any other.
Outer == 0

VARIABLES unit,    \* "top", or the kind of function: "void" or "value"
          blocks,  \* code_system.blocks
          cur,     \* the block being filled, or NoBlock
          frames,  \* the calls in progress, innermost last
          at,      \* what is generated next
          scope,   \* the variables declared and in scope
          nodes,   \* nodes generated so far
          symbols, \* variables declared so far
          status   \* how the compilation stands

vars == <<unit, blocks, cur, frames, at, scope, nodes, symbols, status>>

(***************************************************************************)
(* Frames.  k is the call and its stage.  The fields used by each:          *)
(*   block          ctx: the block before it                               *)
(*   then, else     ctx: the branching block; oth: the other branch        *)
(*   while          oth: condition_block                                   *)
(*   wbody          oth: condition_block; post: post_block                 *)
(*   do             par: the block before it; oth: body_block; ctx, prev,   *)
(*                  done: loop_trigger's data; brk, cont: the loop's lists  *)
(*   docond         par, oth, brk                                          *)
(*   define, let, set, compound    sym                                     *)
(*   linear, element, target   n: operands to come; oth: operands in all;   *)
(*                  done: the update is a postfix                          *)
(*   update         oth: operands of the target                            *)
(*   tfirst, tsecond   ctx: the branching block; oth: the other branch     *)
(*   call           oth: the return block; n: operands to come, the callee  *)
(*                  first; post: arguments in all; done: a value is returned *)
(*   if, tcond, discard, return, instanceof    none                        *)
(* scope is the scope to go back to at the end of a statement list.        *)
(***************************************************************************)
Frame(k) == [k |-> k, ctx |-> 0, oth |-> 0, par |-> 0, post |-> 0, prev |-> 0,
             sym |-> 0, n |-> 0, scope |-> scope, brk |-> <<>>, cont |-> <<>>,
             done |-> FALSE]

top == frames[Len(frames)]
Below == SubSeq(frames, 1, Len(frames) - 1)
Enter(f) == frames' = Append(frames, f)
Replace(f) == frames' = Append(Below, f)
Waiting(k) == at = "value" /\ frames # <<>> /\ top.k = k

Visible == {scope[i] : i \in DOMAIN scope}
             \cup {frames[i].sym : i \in {j \in DOMAIN frames : frames[j].k = "define"}}
             \cup IF unit = "top" THEN {} ELSE {Outer}

-----------------------------------------------------------------------------
(* How a step ends.                                                        *)

\* The process dies on a null pointer or in the endless loop, or gives up (in a
\* debug build) on a symbol table that does not match.
Verdict(bs) ==
  IF \E b \in DOMAIN bs : bs[b].made # "ok" \/ bs[b].tail.inject = "null"
    THEN "crashed" ELSE "running"

Produce(bs) == blocks' = bs /\ status' = Verdict(bs)
Stop(why) == status' = why /\ UNCHANGED <<unit, blocks, cur, frames, at, scope, nodes, symbols>>

\* An expression is done: its value is the last instruction of block b.
Value(b, bs) == cur' = b /\ at' = "value" /\ Produce(bs)

\* loop_trigger, called after each statement of a do-while body.
LoopTriggerLate(f, b) ==
  IF f.done THEN f
  ELSE IF f.cont # <<>> THEN [f EXCEPT !.ctx = b, !.done = TRUE]
  ELSE [f EXCEPT !.prev = b]
LoopTrigger(f, b) ==
  IF f.done THEN f
  ELSE IF f.cont # <<>> THEN [f EXCEPT !.ctx = f.prev, !.done = TRUE]
  ELSE [f EXCEPT !.prev = b]

\* A statement is done and generation goes on in block b, with the calls fs.
Done(fs, b, bs) ==
  /\ frames' = IF fs # <<>> /\ fs[Len(fs)].k = "do" /\ b # NoBlock
                 THEN [fs EXCEPT ![Len(fs)] = LoopTrigger(@, b)] ELSE fs
  /\ cur' = b
  /\ at' = "stmt"
  /\ Produce(bs)

Starts(k) == status = "running" /\ k \in Constructs /\ nodes < MaxNodes
               /\ nodes' = nodes + 1
Statement(k) == Starts(k) /\ at = "stmt" /\ cur # NoBlock
Expression(k) == Starts(k) /\ at = "expr"
Returned(k) == status = "running" /\ Waiting(k) /\ UNCHANGED nodes

-----------------------------------------------------------------------------
(* Statements (generate_block's switch).                                   *)

\* S_DEFINE.  The name is visible in its own initialiser, but the block gets
\* the symbol only after it.  Without a value the symbol does not exist yet.
AfterClause(fs, kind, more, b, bs) ==
  /\ more => nodes' < MaxNodes
  /\ IF more THEN frames' = fs /\ cur' = b /\ at' = kind /\ Produce(bs)
             ELSE Done(fs, b, bs)

StartsClause(k, more) == Starts(k) /\ at \in {"stmt", more} /\ cur # NoBlock

DefineBare(more) ==
  /\ StartsClause("declare", "defining")
  /\ symbols' = symbols + 1
  /\ scope' = Append(scope, symbols')
  /\ AfterClause(frames, "defining", more, cur,
                 [blocks EXCEPT ![cur] = AddSymbol(@, symbols', FALSE, 0)])
  /\ UNCHANGED unit

DefineValue ==
  /\ StartsClause("define", "defining")
  /\ symbols' = symbols + 1
  /\ Enter([Frame("define") EXCEPT !.sym = symbols'])
  /\ at' = "expr"
  /\ UNCHANGED <<unit, blocks, cur, scope, status>>

\* S_LET.  The name is visible after its initialiser.
Let ==
  /\ StartsClause("let", "letting")
  /\ symbols' = symbols + 1
  /\ Enter([Frame("let") EXCEPT !.sym = symbols'])
  /\ at' = "expr"
  /\ UNCHANGED <<unit, blocks, cur, scope, status>>

EndClause(k, mode, more) ==
  /\ Returned(k)
  /\ scope' = Append(scope, top.sym)
  /\ AfterClause(Below, mode, more, cur,
       [blocks EXCEPT ![cur] = AddSymbol(@, top.sym, TRUE, LastInstruction(@))])
  /\ UNCHANGED <<unit, symbols>>

EndDefine(more) == EndClause("define", "defining", more)
EndLet(more) == EndClause("let", "letting", more)

\* S_EXPRESSION; the condition of S_IF; the value of S_RETURN.
Waits(k, frame) ==
  /\ Statement(k)
  /\ Enter(Frame(frame))
  /\ at' = "expr"
  /\ UNCHANGED <<unit, blocks, cur, scope, symbols, status>>

ExpressionStatement == Waits("expression", "discard")
If == Waits("if", "if")
Return == unit = "value" /\ Waits("return", "return")

EndExpression ==
  /\ Returned("discard")
  /\ Done(Below, cur, blocks)
  /\ UNCHANGED <<unit, scope, symbols>>

\* S_BLOCK
Nested ==
  /\ Statement("block")
  /\ Enter([Frame("block") EXCEPT !.ctx = cur])
  /\ cur' = Len(blocks) + 1
  /\ at' = "stmt"
  /\ Produce(ForkBlock(blocks, cur))
  /\ UNCHANGED <<unit, scope, symbols>>

\* generate_while
While ==
  /\ Statement("while")
  /\ Enter([Frame("while") EXCEPT !.oth = Len(blocks) + 1])
  /\ cur' = Len(blocks) + 1
  /\ at' = "expr"
  /\ Produce(ForkBlock(blocks, cur))
  /\ UNCHANGED <<unit, scope, symbols>>

\* generate_do_while, which a while over the literal true becomes.
DoWhile ==
  /\ Statement("do")
  /\ LET body == Len(blocks) + 1
     IN /\ Enter([Frame("do") EXCEPT !.par = cur, !.oth = body, !.ctx = body,
                                     !.prev = body])
        /\ cur' = body
  /\ at' = "stmt"
  /\ Produce(ForkBlock(blocks, cur))
  /\ UNCHANGED <<unit, scope, symbols>>

\* s_loop leaves break_node and continue_node as malloc found them; reused
\* memory there is taken for a list of blocks.
DoWhileOnStaleLists ==
  /\ Statement("do")
  /\ status' = "crashed"
  /\ UNCHANGED <<unit, blocks, cur, frames, at, scope, symbols>>

\* generate_control, for any enclosing loop (a label may name it).
Control(k, i) ==
  /\ Statement(k)
  /\ i \in DOMAIN frames
  /\ \/ /\ frames[i].k = "do"
        /\ frames' = IF k = "break"
                       THEN [frames EXCEPT ![i].brk = <<cur>> \o @]
                       ELSE [frames EXCEPT ![i].cont = <<cur>> \o @]
        /\ Produce(blocks)
     \/ /\ frames[i].k = "wbody"
        /\ Produce(JoinBlocks(blocks, {cur}, IF k = "break" THEN frames[i].post
                                                            ELSE frames[i].oth))
        /\ UNCHANGED frames
  /\ cur' = NoBlock
  /\ at' = "stmt"
  /\ UNCHANGED <<unit, scope, symbols>>

\* generate_return.  The return struct is taken to be instruction 0.
ReturnTail(b, args) ==
  LET r == Emit(b, "unwrap", <<0>>)
  IN [r EXCEPT !.tail = [OpenTail EXCEPT !.type = "return",
                                         !.first = LastInstruction(r),
                                         !.args = <<0>> \o args]]

EndReturnGoesOn ==
  /\ Returned("return")
  /\ Done(Below, cur,
          [blocks EXCEPT ![cur] = ReturnTail(@, <<LastInstruction(@)>>)])
  /\ UNCHANGED <<unit, scope, symbols>>
EndReturn ==
  /\ Returned("return")
  /\ Done(Below, NoBlock,
          [blocks EXCEPT ![cur] = ReturnTail(@, <<LastInstruction(@)>>)])
  /\ UNCHANGED <<unit, scope, symbols>>

-----------------------------------------------------------------------------
(* What follows an expression or a statement list in each call.            *)

\* generate_if: both branches start from the condition's block.
EndIfCondition ==
  /\ Returned("if")
  /\ Replace([Frame("then") EXCEPT !.ctx = cur, !.oth = Len(blocks) + 2])
  /\ cur' = Len(blocks) + 1
  /\ at' = "stmt"
  /\ Produce(BranchInto(blocks, cur))
  /\ UNCHANGED <<unit, scope, symbols>>

\* The list of statements of a body is over, or was cut short.
EndsBody(k) ==
  /\ status = "running" /\ at = "stmt" /\ frames # <<>> /\ top.k = k
  /\ UNCHANGED <<unit, nodes, symbols>>

EndThen ==
  /\ EndsBody("then")
  /\ Replace([top EXCEPT !.k = "else", !.oth = cur])
  /\ cur' = top.oth
  /\ scope' = top.scope
  /\ UNCHANGED <<blocks, at, status>>

\* The branches that go on after the if, of the two that may.
EndsUnlessCut(a, b) ==
  IF b = NoBlock THEN <<>> ELSE IF a = NoBlock THEN <<b>> ELSE <<a, b>>
Ends(a, b) ==
  IF a = NoBlock THEN IF b = NoBlock THEN <<>> ELSE <<b>>
  ELSE IF b = NoBlock THEN <<a>> ELSE <<a, b>>

EndElse ==
  /\ EndsBody("else")
  /\ scope' = top.scope
  /\ LET ends == Ends(top.oth, cur)
     IN IF ends = <<>> THEN Done(Below, NoBlock, blocks)
        ELSE Done(Below, Len(blocks) + 1, TangleBlocks(blocks, top.ctx, ends))

\* The nested block's end is joined without asking whether there is one.
EndNested ==
  /\ EndsBody("block")
  /\ scope' = top.scope
  /\ IF cur = NoBlock
       THEN status' = "crashed" /\ UNCHANGED <<blocks, cur, frames, at>>
       ELSE Done(Below, Len(blocks) + 1, RejoinBlock(blocks, top.ctx, cur))

EndWhileCondition ==
  /\ Returned("while")
  /\ Replace([top EXCEPT !.k = "wbody", !.post = Len(blocks) + 2])
  /\ cur' = Len(blocks) + 1
  /\ at' = "stmt"
  /\ Produce(BranchInto(blocks, cur))
  /\ UNCHANGED <<unit, scope, symbols>>

EndWhile ==
  /\ EndsBody("wbody")
  /\ scope' = top.scope
  /\ Done(Below, top.post, JoinBlocks(blocks, {cur} \ {NoBlock}, top.oth))

\* generate_do_while after its body: to the condition, which has the symbols
\* of the context loop_trigger chose, if the loop ever continues.
EndDoBody ==
  /\ EndsBody("do")
  /\ scope' = top.scope
  /\ LET cont == IF cur = NoBlock THEN top.cont ELSE <<cur>> \o top.cont
     IN IF cont # <<>> THEN
          /\ Replace([top EXCEPT !.k = "docond", !.cont = cont])
          /\ cur' = Len(blocks) + 1
          /\ at' = "expr"
          /\ Produce(TangleBlocks(blocks, top.ctx, cont))
        ELSE IF top.brk # <<>> THEN
          Done(Below, Len(blocks) + 1, TangleBlocks(blocks, top.par, top.brk))
        ELSE Done(Below, NoBlock, blocks)

\* body_replay, the first of the two new blocks, goes back to the body.
EndDoCondition ==
  /\ Returned("docond")
  /\ LET replay == Len(blocks) + 1
     IN Done(Below, replay + 1,
             JoinBlocks(WeaveBlocks(blocks, top.par, top.brk, cur), {replay}, top.oth))
  /\ UNCHANGED <<unit, scope, symbols>>

\* The end of the unit (generate, generate_function).
EndUnit ==
  /\ status = "running" /\ at = "stmt" /\ frames = <<>>
  /\ IF cur = NoBlock THEN status' = "done" /\ UNCHANGED blocks
     ELSE CASE unit = "top" -> /\ blocks' = [blocks EXCEPT ![cur].final = TRUE]
                               /\ status' = "done"
            [] unit = "void" -> /\ blocks' = [blocks EXCEPT ![cur] = ReturnTail(@, <<>>)]
                                /\ status' = "done"
            [] unit = "value" -> status' = "rejected" /\ UNCHANGED blocks
  /\ UNCHANGED <<unit, cur, frames, at, scope, nodes, symbols>>

-----------------------------------------------------------------------------
(* Expressions (generate_expression's switch).                             *)

Literal ==
  /\ status = "running" /\ at = "expr"
  /\ Value(cur, [blocks EXCEPT ![cur] = Emit(@, "lit", <<>>)])
  /\ UNCHANGED <<unit, frames, scope, nodes, symbols>>

\* O_GET_SYMBOL: a copy of the instruction that holds the symbol.
Get(s) ==
  /\ Expression("get")
  /\ s \in Visible
  /\ LET b == blocks[cur]
     IN IF ~Holds(b, s)
          THEN status' = "missing" /\ UNCHANGED <<blocks, cur, at>>
        ELSE IF ~b.syms[Find(b, s)].ex
          THEN status' = "rejected" /\ UNCHANGED <<blocks, cur, at>>
        ELSE Value(cur, [blocks EXCEPT ![cur] = Mirror(@, @.syms[Find(@, s)].ins)])
  /\ UNCHANGED <<unit, frames, scope, symbols>>

\* Expressions that wait for another: O_SET_SYMBOL, the unary and binary
\* operations of generate_linear, O_TERNARY.
Operand(k, frame) ==
  /\ Expression(k)
  /\ Enter(frame)
  /\ UNCHANGED <<unit, blocks, cur, at, scope, symbols, status>>

Set(s) == s \in Visible /\ Operand("set", [Frame("set") EXCEPT !.sym = s])
Linear(n) == Operand("linear", [Frame("linear") EXCEPT !.n = n, !.oth = n])
Ternary == Operand("ternary", Frame("tcond"))

\* The end of an assignment: the entry names the last instruction.
Assign(bs, s) == [bs EXCEPT ![cur] = SetSymbol(@, s, LastInstruction(@))]

EndSet ==
  /\ Returned("set")
  /\ IF Holds(blocks[cur], top.sym)
       THEN Value(cur, Assign(blocks, top.sym)) /\ frames' = Below
       ELSE status' = "missing" /\ UNCHANGED <<blocks, cur, frames, at>>
  /\ UNCHANGED <<unit, scope, symbols>>

\* O_NUMERIC_ASSIGN and its kin on a symbol: the old value waits on the stack.
Compound(s) ==
  /\ Expression("compound")
  /\ s \in Visible
  /\ LET b == blocks[cur]
     IN IF ~Holds(b, s) THEN status' = "missing" /\ UNCHANGED <<blocks, frames>>
        ELSE IF ~b.syms[Find(b, s)].ex
          THEN status' = "rejected" /\ UNCHANGED <<blocks, frames>>
        ELSE /\ Enter([Frame("compound") EXCEPT !.sym = s])
             /\ Produce([blocks EXCEPT ![cur] =
                           PushStack(Mirror(@, @.syms[Find(@, s)].ins))])
  /\ UNCHANGED <<unit, cur, at, scope, symbols>>

ComputeInPlace(b) == Emit(b, "calc", <<b.stack[1], LastInstruction(b)>>)
Compute(b) == Emit(PopStack(b, 1), "calc", <<b.stack[1], LastInstruction(b)>>)

EndCompound ==
  /\ Returned("compound")
  /\ frames' = Below
  /\ Value(cur, [blocks EXCEPT ![cur] =
                   LET c == Compute(@) IN SetSymbol(c, top.sym, LastInstruction(c))])
  /\ UNCHANGED <<unit, scope, symbols>>

\* O_POSTFIX on a symbol: its value is the old one, copied once more.
Postfix(s) ==
  /\ Expression("postfix")
  /\ s \in Visible
  /\ LET b == blocks[cur]
     IN IF ~Holds(b, s) THEN status' = "missing" /\ UNCHANGED <<blocks, cur, at>>
        ELSE IF ~b.syms[Find(b, s)].ex
          THEN status' = "rejected" /\ UNCHANGED <<blocks, cur, at>>
        ELSE LET old == Mirror(b, b.syms[Find(b, s)].ins)
                 new == Compute(Emit(PushStack(old), "lit", <<>>))
             IN Value(cur, [blocks EXCEPT ![cur] =
                  Mirror(SetSymbol(new, s, LastInstruction(new)), LastInstruction(old))])
  /\ UNCHANGED <<unit, frames, scope, symbols>>

\* generate_linear: every operand is pushed, then all are popped.
EndOperand ==
  /\ Returned("linear")
  /\ LET b == PushStack(blocks[cur])
         args == [i \in 1 .. top.oth |-> b.stack[top.oth + 1 - i]]
     IN IF top.n > 1
          THEN /\ Replace([top EXCEPT !.n = @ - 1])
               /\ at' = "expr" /\ cur' = cur
               /\ Produce([blocks EXCEPT ![cur] = b])
          ELSE /\ frames' = Below
               /\ Value(cur, [blocks EXCEPT ![cur] =
                                Emit(PopStack(b, top.oth), "calc", args)])
  /\ UNCHANGED <<unit, scope, symbols>>

\* O_INSTANCEOF: the operand is looked up after the instruction was added, so
\* the instruction names itself.
InstanceOf == Operand("instanceof", Frame("instanceof"))

EndInstanceOf ==
  /\ Returned("instanceof")
  /\ frames' = Below
  /\ Value(cur, [blocks EXCEPT ![cur] = Emit(@, "is", <<NextInstruction(@)>>)])
  /\ UNCHANGED <<unit, scope, symbols>>

-----------------------------------------------------------------------------
(* Fields, lengths and array elements.  A target has one operand (an object *)
(* or an array whose length is set) or two (an array and an index).         *)

\* O_SET_FIELD, O_SET_LENGTH, O_SET_INDEX: the target, then the value.
SetElement(n) == Operand("element", [Frame("element") EXCEPT !.n = n, !.oth = n])

\* What is stored is copied once more, as the value of the assignment.  The
\* index is popped into the operand of the value, and the value goes to that
\* of the index.
Store(b, n) ==
  Mirror(IF n = 2 THEN Emit(PopStack(b, 1), "put", <<b.stack[1], LastInstruction(b)>>)
         ELSE Emit(PopStack(b, 2), "setindex",
                   <<b.stack[2], LastInstruction(b), b.stack[1]>>),
         LastInstruction(b))

EndElement ==
  /\ Returned("element")
  /\ IF top.n > 1
       THEN /\ Replace([top EXCEPT !.n = @ - 1])
            /\ at' = "expr" /\ cur' = cur
            /\ Produce([blocks EXCEPT ![cur] = PushStack(@)])
       ELSE /\ frames' = Below
            /\ Value(cur, [blocks EXCEPT ![cur] = Store(@, top.oth)])
  /\ UNCHANGED <<unit, scope, symbols>>

\* O_NUMERIC_ASSIGN and its kin, and O_POSTFIX, on such a target.
UpdateElement(n, postfix) ==
  Operand("update", [Frame("target") EXCEPT !.n = n, !.oth = n, !.done = postfix])

\* The target stays on the stack, and its old value above it.
Load(b, n) ==
  LET t == PushStack(b)
  IN PushStack(Emit(t, "get", [i \in 1 .. n |-> t.stack[n + 1 - i]]))

\* The target is popped again, and the new value stored.
Restore(b, n) ==
  LET new  == Compute(b)
      args == [i \in 1 .. n |-> new.stack[n + 1 - i]] \o <<LastInstruction(new)>>
  IN Emit(PopStack(new, n), IF n = 1 THEN "put" ELSE "setindex", args)

EndTarget ==
  /\ Returned("target")
  /\ LET old == Load(blocks[cur], top.oth)
     IN IF top.n > 1
          THEN /\ Replace([top EXCEPT !.n = @ - 1])
               /\ at' = "expr" /\ cur' = cur
               /\ Produce([blocks EXCEPT ![cur] = PushStack(@)])
        ELSE IF top.done
          THEN /\ frames' = Below
               /\ Value(cur, [blocks EXCEPT ![cur] =
                    Mirror(Restore(Emit(old, "lit", <<>>), top.oth), old.stack[1])])
        ELSE /\ Replace([top EXCEPT !.k = "update"])
             /\ at' = "expr" /\ cur' = cur
             /\ Produce([blocks EXCEPT ![cur] = old])
  /\ UNCHANGED <<unit, scope, symbols>>

EndUpdate ==
  /\ Returned("update")
  /\ frames' = Below
  /\ Value(cur, [blocks EXCEPT ![cur] =
       LET r == Restore(@, top.oth) IN Mirror(r, LastInstruction(r) - 1)])
  /\ UNCHANGED <<unit, scope, symbols>>

-----------------------------------------------------------------------------
\* generate_ternary
EndTernaryCondition ==
  /\ Returned("tcond")
  /\ Replace([top EXCEPT !.k = "tfirst", !.ctx = cur, !.oth = Len(blocks) + 2])
  /\ cur' = Len(blocks) + 1
  /\ at' = "expr"
  /\ Produce(BranchInto(blocks, cur))
  /\ UNCHANGED <<unit, scope, symbols>>

EndTernaryFirst ==
  /\ Returned("tfirst")
  /\ Replace([top EXCEPT !.k = "tsecond", !.oth = cur])
  /\ cur' = top.oth
  /\ at' = "expr"
  /\ UNCHANGED <<unit, blocks, scope, symbols, status>>

EndTernary ==
  /\ Returned("tsecond")
  /\ frames' = Below
  /\ LET pushed == [blocks EXCEPT ![top.oth] = PushStack(@), ![cur] = PushStack(@)]
         merged == MergeBlocks(pushed, top.ctx, top.oth, cur)
         post == Len(merged)
     IN Value(post, [merged EXCEPT ![post] = Mirror(PopStack(@, 1), @.stack[1])])
  /\ UNCHANGED <<unit, scope, symbols>>

-----------------------------------------------------------------------------
(* Calls (generate_call).  The caller's block ends in a jump to the callee;  *)
(* generation goes on in the return block, whose first parameter is the     *)
(* context struct that brings back what the caller had.                     *)

Invoke(bs, p, r, n, nonvoid) ==
  LET b      == bs[p]
      q      == PopStack(b, n + 1)
      args   == [i \in 1 .. n |-> b.stack[n + 1 - i]]
      saved  == (IF q.hasRet THEN <<q.retIns>> ELSE <<>>) \o q.stack
                  \o [i \in DOMAIN q.syms |-> q.syms[i].ins]
      empty  == saved = <<>>
      obj    == NextInstruction(q)
      header == <<Instr("new", <<>>, 0), Instr("ref", <<>>, r),
                  Instr("put", <<obj, obj + 1>>, 0)>>
      puts   == [i \in DOMAIN saved |-> Instr("put", <<obj, saved[i]>>, 0)]
      caller == [q EXCEPT !.code = @ \o header \o
                   IF empty THEN <<>> ELSE Append(puts, Instr("cast", <<obj>>, 0))]
      object == IF empty THEN obj ELSE LastInstruction(caller)
      base   == ParamCount(bs[r])
      height == One(q.hasRet) + Len(q.stack)
      gets   == [i \in DOMAIN saved |-> Instr("field", <<base>>, 0)]
      back   == [bs[r] EXCEPT
                   !.code = <<Instr("cast", <<0>>, 0)>> \o gets
                              \o IF nonvoid THEN <<Instr("get", <<1>>, 0)>> ELSE <<>>,
                   !.hasRet = q.hasRet,
                   !.retIns = IF q.hasRet THEN base + 1 ELSE 0,
                   !.stack = [i \in DOMAIN q.stack |-> base + One(q.hasRet) + i],
                   !.syms = [i \in DOMAIN q.syms |->
                               [s |-> q.syms[i].s, ex |-> TRUE,
                                ins |-> base + height + i]]]
  IN [bs EXCEPT
        ![p] = [caller EXCEPT !.tail = [OpenTail EXCEPT !.type = "call",
                                          !.first = b.stack[n + 1],
                                          !.args = <<object>> \o args]],
        ![r] = IF empty THEN bs[r] ELSE back]

\* The return block is made first.  Only an expression statement can call for
\* no value.
Call(n, nonvoid) ==
  /\ Expression("call")
  /\ nonvoid \/ top.k = "discard"
  /\ Enter([Frame("call") EXCEPT !.oth = Len(blocks) + 1, !.n = n + 1, !.post = n,
                                  !.done = nonvoid])
  /\ Produce(Append(blocks, [EmptyBlock EXCEPT !.par.extra = IF nonvoid THEN 2 ELSE 1]))
  /\ UNCHANGED <<unit, cur, at, scope, symbols>>

\* The callee, an expression like any other, or an argument.
EndArgument ==
  /\ Returned("call")
  /\ LET bs == [blocks EXCEPT ![cur] = PushStack(@)]
     IN IF top.n > 1
          THEN /\ Replace([top EXCEPT !.n = @ - 1])
               /\ at' = "expr" /\ cur' = cur
               /\ Produce(bs)
          ELSE /\ frames' = Below
               /\ Value(top.oth, Invoke(bs, cur, top.oth, top.post, top.done))
  /\ UNCHANGED <<unit, scope, symbols>>

-----------------------------------------------------------------------------
\* generate's first block, or generate_function_stub's.
StartBlock(u, params) ==
  IF u = "top" THEN EmptyBlock
  ELSE [EmptyBlock EXCEPT
          !.par = [ret |-> TRUE, live |-> 1 .. params, stk |-> 0, extra |-> 0],
          !.syms = [q \in 1 .. params |-> [s |-> q, ex |-> TRUE, ins |-> q]],
          !.hasRet = TRUE]

Init ==
  /\ unit \in Units
  /\ \E params \in 0 .. (IF unit = "top" THEN 0 ELSE MaxParams) :
       /\ blocks = <<StartBlock(unit, params)>>
       /\ scope = [q \in 1 .. params |-> q]
       /\ symbols = params
  /\ cur = 1
  /\ frames = <<>>
  /\ at = "stmt"
  /\ nodes = 0
  /\ status = "running"

\* A write past the end of a tail's arguments may break the heap, then or later.
HeapBroken ==
  /\ status = "running"
  /\ \E b \in DOMAIN blocks : blocks[b].tail.inject = "over"
  /\ Stop("crashed")

Over == status # "running" /\ UNCHANGED vars

AStatement ==
  \/ \E more \in BOOLEAN : DefineBare(more)
  \/ DefineValue
  \/ Let
  \/ ExpressionStatement
  \/ If
  \/ Return
  \/ Nested
  \/ While
  \/ DoWhile
  \/ DoWhileOnStaleLists
  \/ \E k \in {"break", "continue"}, i \in DOMAIN frames : Control(k, i)

AnExpression ==
  \/ Literal
  \/ \E s \in Visible : Get(s) \/ Set(s) \/ Compound(s) \/ Postfix(s)
  \/ \E n \in 1 .. 2 : Linear(n)
  \/ InstanceOf
  \/ \E n \in 2 .. 3 : SetElement(n)
  \/ \E n \in 1 .. 2, postfix \in BOOLEAN : UpdateElement(n, postfix)
  \/ Ternary
  \/ \E n \in 0 .. MaxArgs, nonvoid \in BOOLEAN : Call(n, nonvoid)

AnEnd ==
  \/ \E more \in BOOLEAN : EndDefine(more) \/ EndLet(more)
  \/ EndExpression
  \/ EndReturn
  \/ EndIfCondition \/ EndThen \/ EndElse
  \/ EndNested
  \/ EndWhileCondition \/ EndWhile
  \/ EndDoBody \/ EndDoCondition
  \/ EndSet \/ EndCompound \/ EndOperand \/ EndInstanceOf
  \/ EndElement \/ EndTarget \/ EndUpdate
  \/ EndTernaryCondition \/ EndTernaryFirst \/ EndTernary
  \/ EndArgument
  \/ EndUnit

Next == AStatement \/ AnExpression \/ AnEnd \/ HeapBroken \/ Over

Spec == Init /\ [][Next]_vars

-----------------------------------------------------------------------------
(* Properties.                                                             *)

FrameKinds == {"block", "then", "else", "while", "wbody", "do", "docond",
               "define", "let", "discard", "if", "return", "set", "compound",
               "linear", "instanceof", "element", "target", "update",
               "tcond", "tfirst", "tsecond", "call"}
Frames == [k : FrameKinds, ctx : Nat, oth : Nat, par : Nat, post : Nat, prev : Nat,
           sym : Nat, n : Nat, scope : Seq(Nat), brk : Seq(Nat), cont : Seq(Nat),
           done : BOOLEAN]

\* The types of generate.h, and the range of every bounded counter.
TypeOK ==
  /\ unit \in Units
  /\ blocks \in Seq(Block)
  /\ cur \in 0 .. Len(blocks)
  /\ frames \in Seq(Frames)
  /\ at \in {"stmt", "defining", "letting", "expr", "value"}
  /\ scope \in Seq(Nat)
  /\ nodes \in 0 .. MaxNodes
  /\ symbols \in Nat
  /\ status \in {"running", "done", "rejected", "missing", "crashed"}

\* The blocks a tail leads to by name.
Ref(b, ins) == b.code[ins - ParamCount(b) + 1].to
Leads(b) == CASE b.tail.type = "goto" -> {Ref(b, b.tail.first)}
              [] b.tail.type = "branch" -> {Ref(b, b.tail.first), Ref(b, b.tail.second)}
              [] OTHER -> {}

\* Nothing undefined has happened so far.
Defined ==
  status # "crashed" /\ \A b \in DOMAIN blocks : blocks[b].tail.inject # "over"

\* The block being filled knows exactly the variables of the unit that are in
\* scope, in the order they were declared: child_block takes its list from the
\* context, so no path through nested bodies, loops or calls may add or lose
\* one.  In a do-while condition it also knows some of the body's, after those.
ScopeAgrees ==
  status = "running" /\ cur # NoBlock =>
    LET known == Names(blocks[cur].syms) IN
      /\ Len(scope) <= Len(known) /\ SubSeq(known, 1, Len(scope)) = scope
      /\ Len(scope) < Len(known) => \E i \in DOMAIN frames : frames[i].k = "docond"

\* Wherever a tail leads, it passes a value for every variable the target has
\* a parameter for and for no other, of the same variable, and has a value for
\* each; and it has a return struct where one is asked for.
ArgumentsFit ==
  Defined => \A b \in DOMAIN blocks : \A d \in Leads(blocks[b]) :
    LET src == blocks[b]  dest == blocks[d] IN
      /\ src.tail.live = dest.par.live
      /\ \A q \in dest.par.live : /\ q \in DOMAIN src.syms /\ src.syms[q].ex
                                  /\ src.syms[q].s = dest.syms[q].s
      /\ dest.par.ret => src.hasRet

\* A block's tail is written once: after it the block gets no instruction, no
\* symbol and no second tail (a block left by break or continue waits in the
\* loop's list while others are filled).
SealedStays ==
  [][\A b \in DOMAIN blocks :
       blocks[b].tail.type # "open" => blocks'[b] = blocks[b]]_vars

(***************************************************************************)
(* The blocks a call in progress will go on with or join: each is named by  *)
(* one frame alone, has no tail yet, and is not the one being filled; and   *)
(* every other block has its tail.  A block is never filled by two calls,   *)
(* and none is forgotten between its creation and its join.                *)
(***************************************************************************)
Pending(f) ==
  (CASE f.k \in {"then", "else", "tfirst", "tsecond", "call"} -> {f.oth}
     [] f.k = "wbody" -> {f.post}
     [] f.k = "do" -> Blocks(f.brk) \cup Blocks(f.cont)
     [] f.k = "docond" -> Blocks(f.brk)
     [] OTHER -> {}) \ {NoBlock}

AllPending == UNION {Pending(frames[i]) : i \in DOMAIN frames}

OpenIsPending ==
  status = "running" =>
    /\ {b \in DOMAIN blocks : blocks[b].tail.type = "open"}
         = AllPending \cup ({cur} \ {NoBlock})
    /\ cur \notin AllPending
    /\ \A i, j \in DOMAIN frames :
         i # j => Pending(frames[i]) \cap Pending(frames[j]) = {}
    /\ \A i \in DOMAIN frames : frames[i].k = "do" =>
         Blocks(frames[i].brk) \cap Blocks(frames[i].cont) = {}

\* When generation ends every block has a tail, but for the one that ends the
\* program: none of the blocks waiting for a join was forgotten.
EveryBlockEnds ==
  status = "done" =>
    /\ \A b \in DOMAIN blocks : blocks[b].final <=> blocks[b].tail.type = "open"
    /\ \A b \in DOMAIN blocks : blocks[b].final => unit = "top" /\ b = cur

\* Instructions use only parameters and earlier instructions of their block,
\* and a tail only what the block computed.
OperandsEarlier ==
  Defined => \A b \in DOMAIN blocks :
    LET blk == blocks[b] IN
      /\ \A i \in DOMAIN blk.code : \A k \in DOMAIN blk.code[i].args :
           blk.code[i].args[k] \in 0 .. ParamCount(blk) + i - 2
      /\ blk.tail.type # "open" =>
           {blk.tail.first, blk.tail.second, blk.tail.cond}
             \cup {blk.tail.args[k] : k \in DOMAIN blk.tail.args}
             \cup {blk.syms[q].ins : q \in blk.tail.live}
           \subseteq 0 .. LastInstruction(blk)

\* Between statements no expression result is left on a stack: not on the
\* current block's, nor on any that a call in progress will go on with.
StackEmptyBetween ==
  status = "running" /\ at = "stmt" =>
    \A b \in AllPending \cup ({cur} \ {NoBlock}) : blocks[b].stack = <<>>

\* The check child_block makes in debug builds, "mismatched symbol table":
\* the context's symbols are the first symbols of every parent, the same ones in
\* the same places.  It rests on loop_trigger's choice of the context of a
\* do-while's condition.
ContextIsPrefix == \A b \in DOMAIN blocks : blocks[b].made \notin {"short", "mismatched"}

\* The message of generate_expression's aborts, "missing symbol ...
\* post-analysis": after analysis, every name that is read or set is a symbol of
\* the block that generation has reached.
NoneMissing == status # "missing"

\* "do-while": the loop goes back to its body as the body expects it.
JoinsFit == \A b \in DOMAIN blocks : blocks[b].tail.inject = "ok"

\* The comment in generate_ternary: the merged block's stack holds the results
\* of the two branches, so each passes its own stack on.
StackPassedOn ==
  Defined => \A b \in DOMAIN blocks : \A d \in Leads(blocks[b]) :
    blocks[d].par.stk > 0 => blocks[b].tail.args = blocks[b].stack

\* The comment in generate_return: "return structs are always the first
\* argument".
ReturnStructFirst ==
  \A b \in DOMAIN blocks :
    blocks[b].tail.type = "return" => blocks[b].par.ret /\ blocks[b].retIns = 0
=============================================================================
