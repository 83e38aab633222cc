----------------------------- MODULE CodeBlocks -----------------------------
(***************************************************************************)
(* The code blocks the generator builds (generate.h, generate-common.c) and *)
(* the operations that create and connect them (generate-block.c).         *)
(*                                                                         *)
(* A block takes parameters, runs instructions and ends in a tail that     *)
(* passes arguments to the block or blocks it leads to.  Instructions are   *)
(* numbered from 0, the parameters first, as in the code.  While a block is *)
(* being filled it carries a symbol list (which instruction holds each      *)
(* variable, and whether the variable has a value at all) and a stack of    *)
(* pending expression results, top first.                                  *)
(*                                                                         *)
(* Types are left out: a parameter is known by what it carries.  The        *)
(* parameters of a child block are the return struct, one for every symbol *)
(* of the context that has a value in all parents (kept as the set "live"   *)
(* of their positions in the symbol list), then the stack.                 *)
(*                                                                         *)
(* SetSymbolAnew, SlotAfter, CommonFirst, InjectUntilLast, RejoinInner,     *)
(* MergeFirst, BranchIntoOnce and WeaveNoBreaks are mutants: what the       *)
(* definition after each would be with a plausible mistake in the code.     *)
(* No specification uses them; README.md says which property each breaks.   *)
(***************************************************************************)
EXTENDS Integers, Sequences, FiniteSets

\* What the uninitialised `instruction` field of a dropped symbol reads as.
Junk == -1

Position == Nat \ {0}
Positions == {live \in SUBSET Position : IsFiniteSet(live)}
Entry == [s : Nat, ex : BOOLEAN, ins : Int]
Ops == {"lit", "get", "ref", "calc", "is", "put", "setindex", "new", "cast",
        "field", "unwrap"}
Instruction == [op : Ops, args : Seq(Int), to : Nat]
Params == [ret : BOOLEAN, live : Positions, stk : Nat, extra : Nat]
Terminal == [type : {"open", "goto", "branch", "call", "return"}, cond : Int,
             first : Int, second : Int, live : Positions, args : Seq(Int),
             inject : {"ok", "null", "over"}]
Block == [par : Params, syms : Seq(Entry), stack : Seq(Int),
          accRet : BOOLEAN, hasRet : BOOLEAN, retIns : Int,
          code : Seq(Instruction), tail : Terminal, final : BOOLEAN,
          made : {"ok", "short", "mismatched", "endless"}]

OpenTail == [type |-> "open", cond |-> 0, first |-> 0, second |-> 0,
             live |-> {}, args |-> <<>>, inject |-> "ok"]
NoParams == [ret |-> FALSE, live |-> {}, stk |-> 0, extra |-> 0]

\* create_block
EmptyBlock == [par |-> NoParams, syms |-> <<>>, stack |-> <<>>,
               accRet |-> FALSE, hasRet |-> FALSE, retIns |-> 0,
               code |-> <<>>, tail |-> OpenTail, final |-> FALSE, made |-> "ok"]

-----------------------------------------------------------------------------
(* Instructions.                                                           *)

One(b) == IF b THEN 1 ELSE 0

ParamCount(b) == One(b.par.ret) + Cardinality(b.par.live) + b.par.stk + b.par.extra
NextInstruction(b) == ParamCount(b) + Len(b.code)
LastInstruction(b) == NextInstruction(b) - 1

Instr(op, args, to) == [op |-> op, args |-> args, to |-> to]
Emit(b, op, args) == [b EXCEPT !.code = Append(@, Instr(op, args, 0))]
AddBlockref(b, dest) == [b EXCEPT !.code = Append(@, Instr("ref", <<>>, dest))]
Mirror(b, src) == Emit(b, "get", <<src>>)

PushFrom(b, src) == [b EXCEPT !.stack = <<src>> \o @]
PushStack(b) == PushFrom(b, LastInstruction(b))
PopStack(b, n) == [b EXCEPT !.stack = SubSeq(@, n + 1, Len(@))]

(* The symbol list.                                                        *)

Names(syms) == [q \in DOMAIN syms |-> syms[q].s]
With(syms) == {q \in DOMAIN syms : syms[q].ex}
Holds(b, s) == \E q \in DOMAIN b.syms : b.syms[q].s = s
Find(b, s) == CHOOSE q \in DOMAIN b.syms : b.syms[q].s = s
AddSymbol(b, s, ex, ins) ==
  [b EXCEPT !.syms = Append(@, [s |-> s, ex |-> ex, ins |-> ins])]
SetSymbolAnew(b, s, ins) == AddSymbol(b, s, TRUE, ins)
SetSymbol(b, s, ins) ==
  [b EXCEPT !.syms[Find(b, s)] = [s |-> s, ex |-> TRUE, ins |-> ins]]

-----------------------------------------------------------------------------
(* Creating and connecting blocks.  bs is the list of blocks, a block is    *)
(* named by its place in it.                                               *)

\* The parameter that carries position q, of those at the positions in live.
SlotAfter(ret, live, q) == One(ret) + Cardinality({p \in live : p <= q})
Slot(ret, live, q) == One(ret) + Cardinality({p \in live : p < q})

\* The positions of the context's symbols that have a value in every parent:
\* those the child takes as parameters.
CommonFirst(bs, c, ps) ==
  {q \in DOMAIN bs[c].syms :
     q \in DOMAIN bs[ps[1]].syms /\ bs[ps[1]].syms[q].ex}
Common(bs, c, ps) ==
  {q \in DOMAIN bs[c].syms : \A i \in DOMAIN ps :
     q \in DOMAIN bs[ps[i]].syms /\ bs[ps[i]].syms[q].ex}

(***************************************************************************)
(* The child of the blocks ps (a sequence: the stack is that of the first), *)
(* with the symbols of block c.  Three things can go wrong in the code: a   *)
(* parent whose symbol list is shorter than the context's runs off its end  *)
(* ("short"); a symbol of a parent is another than the context's in the     *)
(* same place, where debug builds exit ("mismatched"); and with a stack but *)
(* nothing before it the loop that rebuilds the stack counts a size_t down  *)
(* past 0 ("endless").                                                      *)
(***************************************************************************)
ChildBlock(bs, c, ps) ==
  LET ctx == bs[c]
      stk == bs[ps[1]].stack
      live == Common(bs, c, ps)
      base == One(ctx.hasRet) + Cardinality(live)
  IN [EmptyBlock EXCEPT
        !.par = [ret |-> ctx.hasRet, live |-> live, stk |-> Len(stk), extra |-> 0],
        !.syms = [q \in DOMAIN ctx.syms |->
                    [s |-> ctx.syms[q].s, ex |-> q \in live,
                     ins |-> IF q \in live THEN Slot(ctx.hasRet, live, q) ELSE Junk]],
        !.stack = [i \in DOMAIN stk |-> base + i - 1],
        !.accRet = ctx.hasRet,
        !.hasRet = ctx.hasRet,
        !.made = IF \E i \in DOMAIN ps : Len(bs[ps[i]].syms) < Len(ctx.syms)
                   THEN "short"
                 ELSE IF \E i \in DOMAIN ps, q \in DOMAIN ctx.syms :
                           bs[ps[i]].syms[q].s # ctx.syms[q].s
                   THEN "mismatched"
                 ELSE IF stk # <<>> /\ base = 0 THEN "endless" ELSE "ok"]

InjectUntilLast(src, dest) ==
  [live |-> IF ParamCount(dest) = 0 THEN {} ELSE {q \in With(dest.syms) : q < Len(src.syms)},
   args |-> dest.stack, inject |-> "ok"]

(***************************************************************************)
(* The arguments a tail passes to dest: the source's return struct, then    *)
(* the instruction of every symbol dest NOW holds a value for, then - the   *)
(* code reads dest's stack here, not the source's - dest's stack entries.   *)
(* The array has dest's parameter count, and the two symbol lists are       *)
(* walked together, so a list of dest longer than the source's ends in a    *)
(* null pointer and one with more values than parameters in an overrun.     *)
(***************************************************************************)
InjectParams(src, dest) ==
  LET live == With(dest.syms)
      count == One(dest.accRet) + Cardinality(live) + Len(dest.stack)
  IN IF ParamCount(dest) = 0
       THEN [live |-> {}, args |-> <<>>, inject |-> "ok"]
       ELSE [live |-> live, args |-> dest.stack,
             inject |-> IF Len(dest.syms) > Len(src.syms) THEN "null"
                        ELSE IF count > ParamCount(dest) THEN "over" ELSE "ok"]

\* The block p with a tail that goes to block d, whose contents are dest.  (The
\* exit(1) for a source without the return struct that dest accepts is left out:
\* ArgumentsFit says of every tail that it is never reached.)
JoinTo(b, d, dest) ==
  LET r == AddBlockref(b, d)
      i == InjectParams(b, dest)
  IN [r EXCEPT !.tail = [type |-> "goto", cond |-> 0, first |-> LastInstruction(r),
                         second |-> 0, live |-> i.live, args |-> i.args,
                         inject |-> i.inject]]

\* join_blocks, for every block of S.
JoinBlocks(bs, S, d) ==
  [b \in DOMAIN bs |-> IF b \in S THEN JoinTo(bs[b], d, bs[d]) ELSE bs[b]]

\* branch_block: the condition is the last value computed.
BranchBlock(bs, p, f, s) ==
  LET r == AddBlockref(AddBlockref(bs[p], f), s)
      i == InjectParams(bs[p], bs[f])
  IN [bs EXCEPT ![p] =
        [r EXCEPT !.tail = [type |-> "branch", cond |-> LastInstruction(bs[p]),
                            first |-> LastInstruction(r) - 1,
                            second |-> LastInstruction(r),
                            live |-> i.live, args |-> i.args, inject |-> i.inject]]]

\* The blocks a sequence of them names.
Blocks(ps) == {ps[i] : i \in DOMAIN ps}

\* tangle_blocks; the child is the last block of the result.
TangleBlocks(bs, c, ps) ==
  JoinBlocks(Append(bs, ChildBlock(bs, c, ps)), Blocks(ps), Len(bs) + 1)

\* fork_block and rejoin_block.
ForkBlock(bs, p) == TangleBlocks(bs, p, <<p>>)
RejoinInner(bs, c, inner) == TangleBlocks(bs, inner, <<inner>>)
RejoinBlock(bs, c, inner) == TangleBlocks(bs, c, <<inner>>)
MergeFirst(bs, c, first, second) == TangleBlocks(bs, c, <<first>>)
MergeBlocks(bs, c, first, second) == TangleBlocks(bs, c, <<first, second>>)

\* branch_into; the two children are the last two blocks of the result.
BranchIntoOnce(bs, p) ==
  BranchBlock(Append(bs, ChildBlock(bs, p, <<p>>)), p, Len(bs) + 1, Len(bs) + 2)
BranchInto(bs, p) ==
  LET child == ChildBlock(bs, p, <<p>>)
  IN BranchBlock(bs \o <<child, child>>, p, Len(bs) + 1, Len(bs) + 2)

\* weave_blocks: the blocks of brk go on to the second child of cond.
WeaveNoBreaks(bs, c, brk, cond) ==
  LET child == ChildBlock(bs, c, <<cond>> \o brk)
  IN BranchBlock(bs \o <<child, child>>, cond, Len(bs) + 1, Len(bs) + 2)
WeaveBlocks(bs, c, brk, cond) ==
  LET child == ChildBlock(bs, c, <<cond>> \o brk)
  IN BranchBlock(JoinBlocks(bs \o <<child, child>>, Blocks(brk), Len(bs) + 2),
                 cond, Len(bs) + 1, Len(bs) + 2)
=============================================================================
