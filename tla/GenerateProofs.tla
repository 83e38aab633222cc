--------------------------- MODULE GenerateProofs ---------------------------
(***************************************************************************)
(* The type invariant of Generate and what it says of blocks and stacks,    *)
(* for programs of any size.                                                *)
(*                                                                         *)
(* TypeOK is not inductive: an instruction takes its operands from the      *)
(* stack of the current block, so one must know how many results wait       *)
(* there, and after a join the current block is one that an enclosing call  *)
(* has kept, so one must know that nobody else has filled it meanwhile.     *)
(* Inner adds both: every block without a tail is held by exactly one call  *)
(* in progress or is the current one (Held), and h[i], the number of        *)
(* results the first i calls have left on the stack, is what the stacks of  *)
(* the held blocks have.                                                    *)
(*                                                                         *)
(* The last part is about the lists of symbols, which GenerateArguments goes *)
(* on with.  After a statement list the current block has the list of a     *)
(* block some call named before it, so one must know of every call in       *)
(* progress what the blocks it names know (Knows): those from before it     *)
(* have the names that were in scope where it began, and those that will be *)
(* joined begin with these.  Lists only ever grow, and only the current     *)
(* block's does, so what a call knows stays true as long as no block it     *)
(* names is the one being filled (Apart).                                   *)
(***************************************************************************)
EXTENDS Generate, FiniteSetTheorems, TLAPS

-----------------------------------------------------------------------------
(***************************************************************************)
(* What the operations of CodeBlocks return: each keeps the list of blocks  *)
(* a list of blocks, says which blocks it adds, which it gives a tail, and  *)
(* that it leaves the others alone.  The lemmas about the actions use only  *)
(* these facts.                                                            *)
(***************************************************************************)

LEMMA FunSeq ==
  ASSUME NEW n \in Nat, NEW T, NEW f \in [1 .. n -> T]
  PROVE  f \in Seq(T) /\ Len(f) = n
OBVIOUS

LEMMA ExceptAnywhere ==
  ASSUME NEW S, NEW s \in Seq(S), NEW i, NEW e \in S
  PROVE  /\ [s EXCEPT ![i] = e] \in Seq(S)
         /\ Len([s EXCEPT ![i] = e]) = Len(s)
<1>1. s \in [1 .. Len(s) -> S] /\ Len(s) \in Nat
  OBVIOUS
<1>2. [s EXCEPT ![i] = e] \in [1 .. Len(s) -> S]
  BY <1>1
<1> QED
  BY <1>1, <1>2, FunSeq

LEMMA ParamCountNat ==
  ASSUME NEW b \in Block
  PROVE  /\ ParamCount(b) \in Nat
         /\ NextInstruction(b) \in Nat
         /\ LastInstruction(b) \in Int
<1>1. IsFiniteSet(b.par.live)
  BY DEF Block, Params, Positions
<1>2. Cardinality(b.par.live) \in Nat
  BY <1>1, FS_CardinalityType
<1>3. b.par.stk \in Nat /\ b.par.extra \in Nat /\ One(b.par.ret) \in Nat
  BY DEF Block, Params, One
<1>4. Len(b.code) \in Nat
  BY DEF Block
<1> DEFINE r == One(b.par.ret)
           c == Cardinality(b.par.live)
           s == b.par.stk
           x == b.par.extra
           l == Len(b.code)
<1>5. r \in Nat /\ c \in Nat /\ s \in Nat /\ x \in Nat /\ l \in Nat
  BY <1>2, <1>3, <1>4
<1>6. /\ ParamCount(b) = r + c + s + x
      /\ NextInstruction(b) = ParamCount(b) + l
      /\ LastInstruction(b) = NextInstruction(b) - 1
  BY DEF ParamCount, NextInstruction, LastInstruction
<1> HIDE DEF r, c, s, x, l
<1> QED
  BY <1>5, <1>6

LEMMA InstrType ==
  ASSUME NEW op \in Ops, NEW args \in Seq(Int), NEW to \in Nat
  PROVE  Instr(op, args, to) \in Instruction
BY DEF Instr, Instruction

LEMMA EmitBlock ==
  ASSUME NEW b \in Block, NEW op \in Ops, NEW args \in Seq(Int)
  PROVE  /\ Emit(b, op, args) \in Block
         /\ Emit(b, op, args).stack = b.stack
         /\ Emit(b, op, args).tail = b.tail
         /\ Emit(b, op, args).final = b.final
<1>1. Instr(op, args, 0) \in Instruction
  BY InstrType
<1>2. Append(b.code, Instr(op, args, 0)) \in Seq(Instruction)
  BY <1>1 DEF Block
<1> QED
  BY <1>2 DEF Emit, Block

LEMMA AddBlockrefBlock ==
  ASSUME NEW b \in Block, NEW d \in Nat
  PROVE  /\ AddBlockref(b, d) \in Block
         /\ AddBlockref(b, d).stack = b.stack
         /\ AddBlockref(b, d).tail = b.tail
         /\ AddBlockref(b, d).final = b.final
<1>1. Instr("ref", <<>>, d) \in Instruction
  <2>1. "ref" \in Ops
    BY DEF Ops
  <2>2. <<>> \in Seq(Int)
    OBVIOUS
  <2> QED
    BY <2>1, <2>2, InstrType
<1>2. Append(b.code, Instr("ref", <<>>, d)) \in Seq(Instruction)
  BY <1>1 DEF Block
<1> QED
  BY <1>2 DEF AddBlockref, Block

LEMMA PushBlock ==
  ASSUME NEW b \in Block, NEW src \in Int
  PROVE  /\ PushFrom(b, src) \in Block
         /\ Len(PushFrom(b, src).stack) = Len(b.stack) + 1
         /\ PushFrom(b, src).tail = b.tail
         /\ PushFrom(b, src).final = b.final
<1>1. <<src>> \o b.stack \in Seq(Int) /\ Len(<<src>> \o b.stack) = Len(b.stack) + 1
  BY DEF Block
<1> QED
  BY <1>1 DEF PushFrom, Block

LEMMA PopBlock ==
  ASSUME NEW b \in Block, NEW n \in Nat, n <= Len(b.stack)
  PROVE  /\ PopStack(b, n) \in Block
         /\ Len(PopStack(b, n).stack) = Len(b.stack) - n
         /\ PopStack(b, n).tail = b.tail
         /\ PopStack(b, n).final = b.final
<1>1. /\ SubSeq(b.stack, n + 1, Len(b.stack)) \in Seq(Int)
      /\ Len(SubSeq(b.stack, n + 1, Len(b.stack))) = Len(b.stack) - n
  BY DEF Block
<1> QED
  BY <1>1 DEF PopStack, Block

LEMMA SymbolBlock ==
  ASSUME NEW b \in Block, NEW s \in Nat, NEW ex \in BOOLEAN, NEW ins \in Int
  PROVE  /\ AddSymbol(b, s, ex, ins) \in Block
         /\ AddSymbol(b, s, ex, ins).stack = b.stack
         /\ AddSymbol(b, s, ex, ins).tail = b.tail
         /\ AddSymbol(b, s, ex, ins).final = b.final
         /\ SetSymbol(b, s, ins) \in Block
         /\ SetSymbol(b, s, ins).stack = b.stack
         /\ SetSymbol(b, s, ins).tail = b.tail
         /\ SetSymbol(b, s, ins).final = b.final
<1>1. [s |-> s, ex |-> ex, ins |-> ins] \in Entry
  BY DEF Entry
<1>2. Append(b.syms, [s |-> s, ex |-> ex, ins |-> ins]) \in Seq(Entry)
  BY <1>1 DEF Block
<1>3. [s |-> s, ex |-> TRUE, ins |-> ins] \in Entry
  BY DEF Entry
<1>4. b.syms \in Seq(Entry)
  BY DEF Block
<1>5. [b.syms EXCEPT ![Find(b, s)] = [s |-> s, ex |-> TRUE, ins |-> ins]] \in Seq(Entry)
  BY <1>3, <1>4, ExceptAnywhere
<1> QED
  BY <1>2, <1>5 DEF AddSymbol, SetSymbol, Block

LEMMA LiveIsFinite ==
  ASSUME NEW s \in Seq(Entry), NEW live \in SUBSET DOMAIN s
  PROVE  live \in Positions
<1>1. DOMAIN s = 1 .. Len(s) /\ Len(s) \in Nat
  OBVIOUS
<1>2. IsFiniteSet(1 .. Len(s))
  BY <1>1, FS_Interval
<1>3. IsFiniteSet(live)
  BY <1>1, <1>2, FS_Subset
<1> QED
  BY <1>1, <1>3 DEF Positions, Position

LEMMA SlotNat ==
  ASSUME NEW ret \in BOOLEAN, NEW live, IsFiniteSet(live), NEW q
  PROVE  Slot(ret, live, q) \in Nat
<1>1. IsFiniteSet({p \in live : p < q})
  BY FS_Subset
<1>2. Cardinality({p \in live : p < q}) \in Nat
  BY <1>1, FS_CardinalityType
<1>3. One(ret) \in Nat
  BY DEF One
<1> QED
  BY <1>2, <1>3 DEF Slot

LEMMA OpenTailType == OpenTail \in Terminal
<1>1. {} \in Positions
  BY FS_EmptySet DEF Positions
<1>2. <<>> \in Seq(Int)
  OBVIOUS
<1> QED
  BY <1>1, <1>2 DEF OpenTail, Terminal

LEMMA EmptyBlockType == EmptyBlock \in Block
<1>1. {} \in Positions
  BY FS_EmptySet DEF Positions
<1>2. NoParams \in Params
  BY <1>1 DEF NoParams, Params
<1>3. <<>> \in Seq(Int) /\ <<>> \in Seq(Entry) /\ <<>> \in Seq(Instruction)
  OBVIOUS
<1> QED
  BY <1>2, <1>3, OpenTailType DEF EmptyBlock, Block

\* What every child block looks like.
Fresh(par, syms, stack, ret, made) ==
  [EmptyBlock EXCEPT !.par = par, !.syms = syms, !.stack = stack,
                     !.accRet = ret, !.hasRet = ret, !.made = made]

LEMMA NewBlock ==
  ASSUME NEW par \in Params, NEW syms \in Seq(Entry), NEW stack \in Seq(Int),
         NEW ret \in BOOLEAN, NEW made \in {"ok", "short", "mismatched", "endless"}
  PROVE  /\ Fresh(par, syms, stack, ret, made) \in Block
         /\ Fresh(par, syms, stack, ret, made).stack = stack
         /\ Fresh(par, syms, stack, ret, made).tail = OpenTail
         /\ ~Fresh(par, syms, stack, ret, made).final
<1>1. EmptyBlock \in Block /\ EmptyBlock.tail = OpenTail /\ ~EmptyBlock.final
  BY EmptyBlockType DEF EmptyBlock
<1> QED
  BY <1>1 DEF Block, Fresh

LEMMA ChildBlockBlock ==
  ASSUME NEW bs \in Seq(Block), NEW c \in DOMAIN bs, NEW ps,
         ps[1] \in DOMAIN bs
  PROVE  /\ ChildBlock(bs, c, ps) \in Block
         /\ Len(ChildBlock(bs, c, ps).stack) = Len(bs[ps[1]].stack)
         /\ ChildBlock(bs, c, ps).tail = OpenTail
         /\ ~ChildBlock(bs, c, ps).final
<1> DEFINE ctx == bs[c]
           stk == bs[ps[1]].stack
           live == Common(bs, c, ps)
           base == One(ctx.hasRet) + Cardinality(live)
           par == [ret |-> ctx.hasRet, live |-> live, stk |-> Len(stk), extra |-> 0]
           syms == [q \in DOMAIN ctx.syms |->
                      [s |-> ctx.syms[q].s, ex |-> q \in live,
                       ins |-> IF q \in live THEN Slot(ctx.hasRet, live, q) ELSE Junk]]
           stack == [i \in DOMAIN stk |-> base + i - 1]
           made == IF \E i \in DOMAIN ps : Len(bs[ps[i]].syms) < Len(ctx.syms)
                     THEN "short"
                   ELSE IF \E i \in DOMAIN ps, q \in DOMAIN ctx.syms :
                             bs[ps[i]].syms[q].s # ctx.syms[q].s
                     THEN "mismatched"
                   ELSE IF stk # <<>> /\ base = 0 THEN "endless" ELSE "ok"
<1>1. /\ ctx \in Block /\ bs[ps[1]] \in Block
      /\ ctx.syms \in Seq(Entry) /\ stk \in Seq(Int) /\ ctx.hasRet \in BOOLEAN
  <2>1. ctx \in Block /\ bs[ps[1]] \in Block
    OBVIOUS
  <2> HIDE DEF ctx
  <2> QED
    BY <2>1 DEF Block
<1>2. live \in SUBSET DOMAIN ctx.syms
  BY DEF Common
<1>3. live \in Positions
  BY <1>1, <1>2, LiveIsFinite
<1>4. par \in Params
  BY <1>1, <1>3 DEF Params
<1>5. syms \in Seq(Entry)
  <2>1. ASSUME NEW q \in DOMAIN ctx.syms
        PROVE  [s |-> ctx.syms[q].s, ex |-> q \in live,
                ins |-> IF q \in live THEN Slot(ctx.hasRet, live, q) ELSE Junk] \in Entry
    <3>1. ctx.syms[q].s \in Nat
      <4>1. ctx.syms[q] \in Entry
        BY <1>1
      <4> HIDE DEF ctx
      <4> QED
        BY <4>1 DEF Entry
    <3>2. Slot(ctx.hasRet, live, q) \in Int
      BY <1>1, <1>3, SlotNat DEF Positions
    <3>3. (q \in live) \in BOOLEAN
      OBVIOUS
    <3> HIDE DEF live
    <3> QED
      BY <3>1, <3>2, <3>3 DEF Entry, Junk
  <2>2. ctx.syms \in Seq(Entry)
    BY <1>1
  <2>3. DOMAIN ctx.syms = 1 .. Len(ctx.syms) /\ Len(ctx.syms) \in Nat
    BY <2>2
  <2>4. syms \in [1 .. Len(ctx.syms) -> Entry]
    BY <2>1, <2>3
  <2> QED
    BY <2>3, <2>4, FunSeq
<1>6. stack \in Seq(Int) /\ Len(stack) = Len(stk)
  <2>1. IsFiniteSet(live)
    BY <1>3 DEF Positions
  <2>2. Cardinality(live) \in Nat
    BY <2>1, FS_CardinalityType
  <2>3. One(ctx.hasRet) \in Nat
    BY <1>1 DEF One
  <2>4. base \in Nat
    BY <2>2, <2>3
  <2> HIDE DEF base, stk
  <2>5. stk \in Seq(Int)
    BY <1>1 DEF stk
  <2>6. DOMAIN stk = 1 .. Len(stk) /\ Len(stk) \in Nat
    BY <2>5
  <2>7. stack \in [1 .. Len(stk) -> Int]
    BY <2>4, <2>6
  <2> QED
    BY <2>6, <2>7, FunSeq
<1>7. made \in {"ok", "short", "mismatched", "endless"}
  OBVIOUS
<1>8. ChildBlock(bs, c, ps) = Fresh(par, syms, stack, ctx.hasRet, made)
  BY DEF ChildBlock, Fresh
<1>9. Len(stk) = Len(bs[ps[1]].stack)
  OBVIOUS
<1> DEFINE ret == ctx.hasRet
           new == Fresh(par, syms, stack, ret, made)
<1>10. ret \in BOOLEAN /\ ChildBlock(bs, c, ps) = new
  BY <1>1, <1>8
<1> HIDE DEF ctx, par, syms, stack, made, stk, live, base, ret
<1>11. new \in Block /\ new.stack = stack /\ new.tail = OpenTail /\ ~new.final
  BY <1>4, <1>5, <1>6, <1>7, <1>10, NewBlock
<1> HIDE DEF new
<1> QED
  BY <1>6, <1>9, <1>10, <1>11

-----------------------------------------------------------------------------
(* Connecting blocks.                                                      *)

\* From bs to bs2 the blocks of S get a tail and keep their stacks, the other
\* blocks stay as they are, and there are n new ones, without a tail.
Effect(bs, bs2, S, n) ==
  /\ bs2 \in Seq(Block)
  /\ Len(bs2) = Len(bs) + n
  /\ \A b \in DOMAIN bs \ S : bs2[b] = bs[b]
  /\ \A b \in S : /\ bs2[b].stack = bs[b].stack
                  /\ bs2[b].tail.type # "open"
                  /\ bs2[b].final <=> bs[b].final
  /\ \A b \in DOMAIN bs2 \ DOMAIN bs : bs2[b].tail.type = "open" /\ ~bs2[b].final

LEMMA InjectType ==
  ASSUME NEW src \in Block, NEW dest \in Block
  PROVE  /\ InjectParams(src, dest).live \in Positions
         /\ InjectParams(src, dest).args \in Seq(Int)
         /\ InjectParams(src, dest).inject \in {"ok", "null", "over"}
<1>1. dest.stack \in Seq(Int) /\ dest.syms \in Seq(Entry)
  BY DEF Block
<1>2. With(dest.syms) \in Positions
  BY <1>1, LiveIsFinite DEF With
<1>3. {} \in Positions /\ <<>> \in Seq(Int)
  BY FS_EmptySet DEF Positions
<1> QED
  BY <1>1, <1>2, <1>3 DEF InjectParams

LEMMA JoinToBlock ==
  ASSUME NEW b \in Block, NEW d \in Nat, NEW dest \in Block
  PROVE  /\ JoinTo(b, d, dest) \in Block
         /\ JoinTo(b, d, dest).stack = b.stack
         /\ JoinTo(b, d, dest).tail.type # "open"
         /\ JoinTo(b, d, dest).final <=> b.final
<1> DEFINE r == AddBlockref(b, d)
           i == InjectParams(b, dest)
           t == [type |-> "goto", cond |-> 0, first |-> LastInstruction(r),
                 second |-> 0, live |-> i.live, args |-> i.args, inject |-> i.inject]
<1>1. r \in Block /\ r.stack = b.stack /\ (r.final <=> b.final)
  BY AddBlockrefBlock
<1>2. LastInstruction(r) \in Int
  BY <1>1, ParamCountNat
<1>3. i.live \in Positions /\ i.args \in Seq(Int) /\ i.inject \in {"ok", "null", "over"}
  BY InjectType
<1>4. t \in Terminal /\ t.type # "open"
  <2> HIDE DEF i, r
  <2> QED
    BY <1>2, <1>3 DEF Terminal
<1>5. JoinTo(b, d, dest) = [r EXCEPT !.tail = t]
  BY DEF JoinTo
<1> HIDE DEF t, r
<1> QED
  BY <1>1, <1>4, <1>5 DEF Block

LEMMA JoinBlocksEffect ==
  ASSUME NEW bs \in Seq(Block), NEW S \in SUBSET DOMAIN bs, NEW d \in DOMAIN bs
  PROVE  Effect(bs, JoinBlocks(bs, S, d), S, 0)
<1> DEFINE bs2 == JoinBlocks(bs, S, d)
<1>1. DOMAIN bs = 1 .. Len(bs) /\ Len(bs) \in Nat /\ d \in Nat /\ bs[d] \in Block
  OBVIOUS
<1>2. ASSUME NEW b \in DOMAIN bs
      PROVE  /\ bs2[b] \in Block
             /\ b \notin S => bs2[b] = bs[b]
             /\ b \in S => /\ bs2[b].stack = bs[b].stack
                           /\ bs2[b].tail.type # "open"
                           /\ bs2[b].final <=> bs[b].final
  <2>1. bs[b] \in Block
    OBVIOUS
  <2>2. bs2[b] = IF b \in S THEN JoinTo(bs[b], d, bs[d]) ELSE bs[b]
    BY DEF JoinBlocks
  <2> HIDE DEF bs2
  <2> QED
    BY <1>1, <2>1, <2>2, JoinToBlock
<1>3. bs2 \in [1 .. Len(bs) -> Block]
  <2>1. bs2 = [b \in 1 .. Len(bs) |-> bs2[b]]
    BY <1>1 DEF JoinBlocks
  <2> HIDE DEF bs2
  <2> QED
    BY <1>1, <1>2, <2>1
<1>4. bs2 \in Seq(Block) /\ Len(bs2) = Len(bs)
  BY <1>1, <1>3, FunSeq
<1>5. DOMAIN bs2 = DOMAIN bs
  BY <1>1, <1>3
<1>6. bs2 = JoinBlocks(bs, S, d)
  OBVIOUS
<1> HIDE DEF bs2
<1>7. \A b \in DOMAIN bs \ S : bs2[b] = bs[b]
  BY <1>2
<1>8. \A b \in S : /\ bs2[b].stack = bs[b].stack
                   /\ bs2[b].tail.type # "open"
                   /\ bs2[b].final <=> bs[b].final
  BY <1>2, Zenon
<1>9. \A b \in DOMAIN bs2 \ DOMAIN bs : bs2[b].tail.type = "open" /\ ~bs2[b].final
  BY <1>5
<1>10. Len(bs2) = Len(bs) + 0
  BY <1>1, <1>4
<1>11. Effect(bs, bs2, S, 0)
  BY <1>4, <1>7, <1>8, <1>9, <1>10, Zenon DEF Effect
<1> QED
  BY <1>6, <1>11

LEMMA BranchBlockEffect ==
  ASSUME NEW bs \in Seq(Block), NEW p \in DOMAIN bs,
         NEW f \in DOMAIN bs, NEW s \in DOMAIN bs
  PROVE  Effect(bs, BranchBlock(bs, p, f, s), {p}, 0)
<1> DEFINE r == AddBlockref(AddBlockref(bs[p], f), s)
           i == InjectParams(bs[p], bs[f])
           t == [type |-> "branch", cond |-> LastInstruction(bs[p]),
                 first |-> LastInstruction(r) - 1, second |-> LastInstruction(r),
                 live |-> i.live, args |-> i.args, inject |-> i.inject]
           b2 == [r EXCEPT !.tail = t]
           bs2 == BranchBlock(bs, p, f, s)
<1>1. /\ DOMAIN bs = 1 .. Len(bs) /\ Len(bs) \in Nat
      /\ f \in Nat /\ s \in Nat /\ bs[p] \in Block /\ bs[f] \in Block
  OBVIOUS
<1>2. r \in Block /\ r.stack = bs[p].stack /\ r.final = bs[p].final
  <2> DEFINE one == AddBlockref(bs[p], f)
  <2>1. one \in Block /\ one.stack = bs[p].stack /\ one.final = bs[p].final
    BY <1>1, AddBlockrefBlock
  <2> HIDE DEF one
  <2>2. LET two == AddBlockref(one, s)
        IN two \in Block /\ two.stack = one.stack /\ two.final = one.final
    BY <1>1, <2>1, AddBlockrefBlock
  <2> QED
    BY <2>1, <2>2 DEF one
<1>3. LastInstruction(r) \in Int /\ LastInstruction(bs[p]) \in Int
  BY <1>1, <1>2, ParamCountNat
<1>4. i.live \in Positions /\ i.args \in Seq(Int) /\ i.inject \in {"ok", "null", "over"}
  BY <1>1, InjectType
<1>5. t \in Terminal /\ t.type # "open"
  <2> HIDE DEF i, r
  <2> QED
    BY <1>3, <1>4 DEF Terminal
<1>6. bs2 = [bs EXCEPT ![p] = b2]
  BY DEF BranchBlock
<1> HIDE DEF t, r
<1>7. b2 \in Block /\ b2.stack = bs[p].stack /\ b2.tail = t /\ b2.final = bs[p].final
  BY <1>2, <1>5 DEF Block
<1> HIDE DEF b2, bs2
<1>8. bs2 \in Seq(Block) /\ Len(bs2) = Len(bs) + 0 /\ DOMAIN bs2 = DOMAIN bs
  BY <1>1, <1>6, <1>7
<1>9. bs2[p] = b2 /\ \A b \in DOMAIN bs \ {p} : bs2[b] = bs[b]
  BY <1>1, <1>6
<1>10. \A b \in {p} : /\ bs2[b].stack = bs[b].stack
                      /\ bs2[b].tail.type # "open"
                      /\ bs2[b].final <=> bs[b].final
  BY <1>5, <1>7, <1>9
<1>11. \A b \in DOMAIN bs2 \ DOMAIN bs : bs2[b].tail.type = "open" /\ ~bs2[b].final
  BY <1>8
<1>12. Effect(bs, bs2, {p}, 0)
  BY <1>8, <1>9, <1>10, <1>11, Zenon DEF Effect
<1> QED
  BY <1>12 DEF bs2

LEMMA AddEffect ==
  ASSUME NEW bs \in Seq(Block), NEW n \in Nat, NEW new \in Seq(Block), Len(new) = n,
         \A i \in 1 .. n : new[i].tail = OpenTail /\ ~new[i].final
  PROVE  /\ Effect(bs, bs \o new, {}, n)
         /\ \A i \in 1 .. n : (bs \o new)[Len(bs) + i] = new[i]
<1> DEFINE bs2 == bs \o new
<1>1. /\ bs2 \in Seq(Block) /\ Len(bs2) = Len(bs) + n
      /\ DOMAIN bs = 1 .. Len(bs) /\ DOMAIN bs2 = 1 .. Len(bs) + n /\ Len(bs) \in Nat
  OBVIOUS
<1>2. \A b \in DOMAIN bs : bs2[b] = bs[b]
  OBVIOUS
<1>3. \A i \in 1 .. n : bs2[Len(bs) + i] = new[i]
  OBVIOUS
<1>4. ASSUME NEW b \in DOMAIN bs2 \ DOMAIN bs
      PROVE  bs2[b].tail.type = "open" /\ ~bs2[b].final
  <2>1. b - Len(bs) \in 1 .. n /\ b = Len(bs) + (b - Len(bs))
    BY <1>1
  <2>2. bs2[b] = new[b - Len(bs)]
    BY <2>1, <1>3
  <2>3. new[b - Len(bs)].tail = OpenTail /\ ~new[b - Len(bs)].final
    BY <2>1
  <2> HIDE DEF bs2
  <2> QED
    BY <2>2, <2>3 DEF OpenTail
<1> HIDE DEF bs2
<1>5. Effect(bs, bs2, {}, n)
  BY <1>1, <1>2, <1>4 DEF Effect
<1> QED
  BY <1>3, <1>5 DEF bs2

LEMMA EffectTrans ==
  ASSUME NEW bs \in Seq(Block), NEW bs1, NEW bs2, NEW n \in Nat,
         NEW S1 \in SUBSET DOMAIN bs, NEW S2 \in SUBSET DOMAIN bs,
         NEW S, S = S1 \cup S2,
         Effect(bs, bs1, S1, n), Effect(bs1, bs2, S2, 0)
  PROVE  /\ Effect(bs, bs2, S, n)
         /\ \A b \in DOMAIN bs1 \ DOMAIN bs : bs2[b] = bs1[b]
<1>1. /\ bs1 \in Seq(Block) /\ bs2 \in Seq(Block)
      /\ Len(bs1) = Len(bs) + n /\ Len(bs2) = Len(bs) + n
      /\ DOMAIN bs = 1 .. Len(bs) /\ DOMAIN bs1 = 1 .. Len(bs) + n
      /\ DOMAIN bs2 = 1 .. Len(bs) + n /\ Len(bs) \in Nat
  BY DEF Effect
<1>2. DOMAIN bs \subseteq DOMAIN bs1 /\ DOMAIN bs1 \subseteq DOMAIN bs2
  BY <1>1
<1>3. \A b \in DOMAIN bs \ S : bs2[b] = bs[b]
  BY <1>2, Zenon DEF Effect
<1>4. ASSUME NEW b \in S
      PROVE  /\ bs2[b].stack = bs[b].stack
             /\ bs2[b].tail.type # "open"
             /\ bs2[b].final <=> bs[b].final
  <2>1. b \in DOMAIN bs /\ b \in DOMAIN bs1
    BY <1>2
  <2>2. CASE b \in S2 /\ b \in S1
    BY <2>2, Zenon DEF Effect
  <2>3. CASE b \in S2 /\ b \notin S1
    <3>1. bs1[b] = bs[b]
      BY <2>1, <2>3 DEF Effect
    <3> QED
      BY <2>3, <3>1, Zenon DEF Effect
  <2>4. CASE b \notin S2
    <3>1. bs2[b] = bs1[b] /\ b \in S1
      BY <2>1, <2>4 DEF Effect
    <3> QED
      BY <3>1, Zenon DEF Effect
  <2> QED
    BY <2>2, <2>3, <2>4
<1>5. \A b \in DOMAIN bs1 \ DOMAIN bs : bs2[b] = bs1[b]
  BY Zenon DEF Effect
<1>6. \A b \in DOMAIN bs2 \ DOMAIN bs : bs2[b].tail.type = "open" /\ ~bs2[b].final
  <2> SUFFICES ASSUME NEW b \in DOMAIN bs2 \ DOMAIN bs
               PROVE  bs2[b].tail.type = "open" /\ ~bs2[b].final
    OBVIOUS
  <2>1. CASE b \in DOMAIN bs1
    <3>1. bs2[b] = bs1[b]
      BY <2>1, <1>5
    <3> QED
      BY <2>1, <3>1, Zenon DEF Effect
  <2>2. CASE b \notin DOMAIN bs1
    BY <2>2, Zenon DEF Effect
  <2> QED
    BY <2>1, <2>2
<1> QED
  BY <1>1, <1>3, <1>4, <1>5, <1>6, Zenon DEF Effect

LEMMA AddThenSeal ==
  ASSUME NEW bs \in Seq(Block), NEW bs1, NEW bs2, NEW n \in Nat,
         NEW S \in SUBSET DOMAIN bs,
         Effect(bs, bs1, {}, n), Effect(bs1, bs2, S, 0)
  PROVE  /\ Effect(bs, bs2, S, n)
         /\ \A b \in DOMAIN bs1 \ DOMAIN bs : bs2[b] = bs1[b]
<1> DEFINE none == {}
<1>1. none \in SUBSET DOMAIN bs /\ Effect(bs, bs1, none, n) /\ S = none \cup S
  OBVIOUS
<1> HIDE DEF none
<1> QED
  BY <1>1, EffectTrans, ZenonT(60)

LEMMA SealMore ==
  ASSUME NEW bs \in Seq(Block), NEW bs1, NEW bs2, NEW n \in Nat,
         NEW S \in SUBSET DOMAIN bs, NEW p \in DOMAIN bs,
         Effect(bs, bs1, S, n), Effect(bs1, bs2, {p}, 0)
  PROVE  /\ Effect(bs, bs2, S \cup {p}, n)
         /\ \A b \in DOMAIN bs1 \ DOMAIN bs : bs2[b] = bs1[b]
<1> DEFINE last == {p}
           all == S \cup {p}
<1>1. last \in SUBSET DOMAIN bs /\ Effect(bs1, bs2, last, 0) /\ all = S \cup last
  OBVIOUS
<1> HIDE DEF last, all
<1>2. /\ Effect(bs, bs2, all, n)
      /\ \A b \in DOMAIN bs1 \ DOMAIN bs : bs2[b] = bs1[b]
  BY <1>1, EffectTrans, ZenonT(60)
<1> QED
  BY <1>2 DEF all

\* The new block of TangleBlocks has as many results waiting as the first of
\* the blocks that lead to it.
LEMMA TangleEffect ==
  ASSUME NEW bs \in Seq(Block), NEW c \in DOMAIN bs, NEW ps,
         Blocks(ps) \subseteq DOMAIN bs, 1 \in DOMAIN ps
  PROVE  /\ Effect(bs, TangleBlocks(bs, c, ps), Blocks(ps), 1)
         /\ Len(TangleBlocks(bs, c, ps)[Len(bs) + 1].stack) = Len(bs[ps[1]].stack)
<1> DEFINE new == ChildBlock(bs, c, ps)
           bs1 == Append(bs, new)
           bs2 == JoinBlocks(bs1, Blocks(ps), Len(bs) + 1)
<1>1. ps[1] \in Blocks(ps) /\ ps[1] \in DOMAIN bs
  BY DEF Blocks
<1>2. new \in Block /\ new.tail = OpenTail /\ ~new.final
      /\ Len(new.stack) = Len(bs[ps[1]].stack)
  BY <1>1, ChildBlockBlock
<1>3. bs2 = TangleBlocks(bs, c, ps)
  BY DEF TangleBlocks
<1> HIDE DEF new
<1>4. Effect(bs, bs1, {}, 1) /\ bs1[Len(bs) + 1] = new
  <2>1. <<new>> \in Seq(Block) /\ Len(<<new>>) = 1
        /\ \A i \in 1 .. 1 : <<new>>[i].tail = OpenTail /\ ~<<new>>[i].final
    BY <1>2
  <2>2. bs1 = bs \o <<new>> /\ bs1[Len(bs) + 1] = new
    BY <1>2
  <2>3. Effect(bs, bs \o <<new>>, {}, 1)
    BY <2>1, AddEffect
  <2> QED
    BY <2>2, <2>3
<1> DEFINE S == Blocks(ps)
           d == Len(bs) + 1
<1>5. bs1 \in Seq(Block) /\ d \in DOMAIN bs1 /\ S \in SUBSET DOMAIN bs1
      /\ d \notin DOMAIN bs
  BY <1>2
<1> HIDE DEF bs1, S, d
<1>6. Effect(bs1, bs2, S, 0)
  BY <1>5, JoinBlocksEffect DEF S, d
<1> HIDE DEF bs2
<1>7. S \in SUBSET DOMAIN bs
  BY DEF S
<1>8. /\ Effect(bs, bs2, S, 1)
      /\ \A b \in DOMAIN bs1 \ DOMAIN bs : bs2[b] = bs1[b]
  BY <1>4, <1>6, <1>7, AddThenSeal
<1>9. bs2[d] = new
  BY <1>4, <1>5, <1>8 DEF d
<1> QED
  BY <1>2, <1>3, <1>8, <1>9 DEF S, d

\* Adding two children, the first step of BranchInto and WeaveBlocks.
LEMMA TwoChildren ==
  ASSUME NEW bs \in Seq(Block), NEW c \in DOMAIN bs, NEW ps, ps[1] \in DOMAIN bs
  PROVE  LET new == ChildBlock(bs, c, ps)
             bs1 == bs \o <<new, new>>
             d == Len(bs) + 1
             e == Len(bs) + 2
         IN /\ Effect(bs, bs1, {}, 2)
            /\ {d, e} \subseteq DOMAIN bs1 \ DOMAIN bs
            /\ Len(bs1[d].stack) = Len(bs[ps[1]].stack)
            /\ Len(bs1[e].stack) = Len(bs[ps[1]].stack)
<1> DEFINE new == ChildBlock(bs, c, ps)
           bs1 == bs \o <<new, new>>
           d == Len(bs) + 1
           e == Len(bs) + 2
<1>1. new \in Block /\ new.tail = OpenTail /\ ~new.final
      /\ Len(new.stack) = Len(bs[ps[1]].stack)
  BY ChildBlockBlock
<1> HIDE DEF new
<1>2. <<new, new>> \in Seq(Block) /\ Len(<<new, new>>) = 2
      /\ \A i \in 1 .. 2 : <<new, new>>[i].tail = OpenTail /\ ~<<new, new>>[i].final
  BY <1>1
<1>3. Effect(bs, bs1, {}, 2)
  BY <1>2, AddEffect
<1>4. bs1[d] = new /\ bs1[e] = new /\ {d, e} \subseteq DOMAIN bs1 \ DOMAIN bs
  BY <1>1
<1> QED
  BY <1>1, <1>3, <1>4 DEF new

LEMMA BranchIntoEffect ==
  ASSUME NEW bs \in Seq(Block), NEW p \in DOMAIN bs
  PROVE  /\ Effect(bs, BranchInto(bs, p), {p}, 2)
         /\ Len(BranchInto(bs, p)[Len(bs) + 1].stack) = Len(bs[p].stack)
         /\ Len(BranchInto(bs, p)[Len(bs) + 2].stack) = Len(bs[p].stack)
<1> DEFINE new == ChildBlock(bs, p, <<p>>)
           bs1 == bs \o <<new, new>>
           d == Len(bs) + 1
           e == Len(bs) + 2
           bs2 == BranchBlock(bs1, p, d, e)
<1>1. <<p>>[1] = p
  OBVIOUS
<1>2. /\ Effect(bs, bs1, {}, 2)
      /\ {d, e} \subseteq DOMAIN bs1 \ DOMAIN bs
      /\ Len(bs1[d].stack) = Len(bs[p].stack)
      /\ Len(bs1[e].stack) = Len(bs[p].stack)
  BY <1>1, TwoChildren
<1>3. bs2 = BranchInto(bs, p)
  BY DEF BranchInto
<1> HIDE DEF bs1, d, e
<1>4. bs1 \in Seq(Block) /\ p \in DOMAIN bs1 /\ d \in DOMAIN bs1 /\ e \in DOMAIN bs1
  BY <1>2 DEF Effect
<1>5. Effect(bs1, bs2, {p}, 0)
  BY <1>4, BranchBlockEffect
<1> HIDE DEF bs2
<1>6. {p} \in SUBSET DOMAIN bs
  OBVIOUS
<1>7. /\ Effect(bs, bs2, {p}, 2)
      /\ \A b \in DOMAIN bs1 \ DOMAIN bs : bs2[b] = bs1[b]
  BY <1>2, <1>5, <1>6, AddThenSeal
<1>8. bs2[d] = bs1[d] /\ bs2[e] = bs1[e]
  BY <1>2, <1>7
<1> QED
  BY <1>2, <1>3, <1>7, <1>8 DEF d, e

LEMMA WeaveEffect ==
  ASSUME NEW bs \in Seq(Block), NEW c \in DOMAIN bs, NEW p \in DOMAIN bs,
         NEW brk \in Seq(DOMAIN bs)
  PROVE  /\ Effect(bs, WeaveBlocks(bs, c, brk, p), Blocks(brk) \cup {p}, 2)
         /\ Len(WeaveBlocks(bs, c, brk, p)[Len(bs) + 1].stack) = Len(bs[p].stack)
         /\ Len(WeaveBlocks(bs, c, brk, p)[Len(bs) + 2].stack) = Len(bs[p].stack)
<1> DEFINE ps == <<p>> \o brk
           new == ChildBlock(bs, c, ps)
           bs1 == bs \o <<new, new>>
           d == Len(bs) + 1
           e == Len(bs) + 2
           S == Blocks(brk)
           bs2 == JoinBlocks(bs1, S, e)
           bs3 == BranchBlock(bs2, p, d, e)
<1>1. ps[1] = p
  OBVIOUS
<1>2. /\ Effect(bs, bs1, {}, 2)
      /\ {d, e} \subseteq DOMAIN bs1 \ DOMAIN bs
      /\ Len(bs1[d].stack) = Len(bs[p].stack)
      /\ Len(bs1[e].stack) = Len(bs[p].stack)
  <2> HIDE DEF ps
  <2> QED
    BY <1>1, TwoChildren
<1>3. bs3 = WeaveBlocks(bs, c, brk, p)
  BY DEF WeaveBlocks
<1>4. S \in SUBSET DOMAIN bs /\ {p} \in SUBSET DOMAIN bs
  BY DEF Blocks
<1> HIDE DEF bs1, d, e, S
<1>5. bs1 \in Seq(Block) /\ DOMAIN bs \subseteq DOMAIN bs1
  BY <1>2 DEF Effect
<1>6. Effect(bs1, bs2, S, 0)
  BY <1>2, <1>4, <1>5, JoinBlocksEffect
<1> HIDE DEF bs2
<1>7. /\ Effect(bs, bs2, S, 2)
      /\ \A b \in DOMAIN bs1 \ DOMAIN bs : bs2[b] = bs1[b]
  BY <1>2, <1>4, <1>6, AddThenSeal
<1>8. bs2 \in Seq(Block) /\ DOMAIN bs2 = DOMAIN bs1
  BY <1>5, <1>6 DEF Effect
<1>9. Effect(bs2, bs3, {p}, 0)
  BY <1>2, <1>5, <1>8, BranchBlockEffect
<1> HIDE DEF bs3
<1>10. /\ Effect(bs, bs3, S \cup {p}, 2)
       /\ \A b \in DOMAIN bs2 \ DOMAIN bs : bs3[b] = bs2[b]
  <2> DEFINE two == 2
  <2>1. two \in Nat /\ S \in SUBSET DOMAIN bs /\ Effect(bs, bs2, S, two)
    BY <1>4, <1>7
  <2> HIDE DEF two
  <2>2. /\ Effect(bs, bs3, S \cup {p}, two)
        /\ \A b \in DOMAIN bs2 \ DOMAIN bs : bs3[b] = bs2[b]
    BY <1>9, <2>1, SealMore, ZenonT(60)
  <2> QED
    BY <2>2 DEF two
<1>11. bs3[d] = bs1[d] /\ bs3[e] = bs1[e]
  BY <1>2, <1>7, <1>8, <1>10
<1> QED
  BY <1>2, <1>3, <1>10, <1>11 DEF d, e, S

-----------------------------------------------------------------------------
(* The inductive invariant.                                                *)

\* Calls that start between statements, with nothing on the stack.
Roots == {"block", "then", "else", "while", "wbody", "do", "docond",
          "define", "let", "discard", "if", "return"}

\* What a call has left on the stack while it waits.
Pushed(f) ==
  IF f.k \in {"linear", "element", "target"} THEN f.oth - f.n
  ELSE IF f.k = "call" THEN f.post - f.n + 1
  ELSE IF f.k = "compound" THEN 1
  ELSE IF f.k = "update" THEN f.oth + 1
  ELSE 0

\* The blocks a call refers to are among the n there are; its operands are
\* still to come.
FrameOK(n, f) ==
  /\ f.k \in {"block", "then", "else", "do", "docond", "tfirst", "tsecond"} => f.ctx \in 1 .. n
  /\ f.k \in {"then", "while", "wbody", "do", "docond", "tfirst", "tsecond", "call"} =>
       f.oth \in 1 .. n
  /\ f.k = "else" => f.oth \in 0 .. n
  /\ f.k = "wbody" => f.post \in 1 .. n
  /\ f.k \in {"do", "docond"} => /\ f.par \in 1 .. n /\ f.prev \in 1 .. n
                                 /\ f.brk \in Seq(1 .. n) /\ f.cont \in Seq(1 .. n)
  /\ f.k \in {"linear", "target"} => f.oth \in 1 .. 2 /\ f.n \in 1 .. f.oth
  /\ f.k = "element" => f.oth \in 2 .. 3 /\ f.n \in 1 .. f.oth
  /\ f.k = "update" => f.oth \in 1 .. 2
  /\ f.k = "call" => f.n \in 1 .. f.post + 1
  /\ f.k = "do" => Blocks(f.brk) \cap Blocks(f.cont) = {}

Open(bs, b) == bs[b].tail.type = "open"

\* Of the calls fs, those above the first k; the current block c is on top.
Held(c, fs, k) == ({c} \ {NoBlock}) \cup UNION {Pending(fs[i]) : i \in k + 1 .. Len(fs)}

\* Each block without a tail is the current one or held by one call.
Shape(bs, c, fs) ==
  /\ bs \in Seq(Block)
  /\ c \in 0 .. Len(bs)
  /\ fs \in Seq(Frames)
  /\ \A b \in DOMAIN bs : ~bs[b].final
  /\ \A i \in DOMAIN fs : FrameOK(Len(bs), fs[i])
  /\ \A b \in DOMAIN bs : Open(bs, b) <=> b \in Held(c, fs, 0)
  /\ \A i \in DOMAIN fs : c \notin Pending(fs[i])
  /\ \A i, j \in DOMAIN fs : i # j => Pending(fs[i]) \cap Pending(fs[j]) = {}

\* h counts the results on the stack.
Levels(bs, c, fs, h) ==
  /\ h \in [0 .. Len(fs) -> Nat]
  /\ h[0] = 0
  /\ \A i \in DOMAIN fs : h[i] = h[i - 1] + Pushed(fs[i])
  /\ \A i \in DOMAIN fs : fs[i].k \in Roots => \A j \in 0 .. i - 1 : h[j] = 0
  /\ \A i \in DOMAIN fs : \A b \in Pending(fs[i]) :
       Len(bs[b].stack) = IF fs[i].k \in {"tfirst", "tsecond"} THEN h[i - 1] ELSE 0
  /\ c # NoBlock => Len(bs[c].stack) = h[Len(fs)]

-----------------------------------------------------------------------------
(* What a call keeps.                                                      *)

LEMMA PendingIs ==
  ASSUME NEW f
  PROVE  /\ f.k \in {"then", "else", "tfirst", "tsecond", "call"} =>
              Pending(f) = {f.oth} \ {NoBlock}
         /\ f.k = "wbody" => Pending(f) = {f.post} \ {NoBlock}
         /\ f.k = "do" => Pending(f) = (Blocks(f.brk) \cup Blocks(f.cont)) \ {NoBlock}
         /\ f.k = "docond" => Pending(f) = Blocks(f.brk) \ {NoBlock}
         /\ f.k \notin {"then", "else", "tfirst", "tsecond", "call", "wbody", "do", "docond"}
              => Pending(f) = {}
BY DEF Pending

LEMMA PendingDomain ==
  ASSUME NEW n \in Nat, NEW f, FrameOK(n, f)
  PROVE  Pending(f) \subseteq 1 .. n
<1>1. CASE f.k \in {"then", "else", "tfirst", "tsecond", "call"}
  BY <1>1, PendingIs DEF FrameOK, NoBlock
<1>2. CASE f.k = "wbody"
  BY <1>2, PendingIs DEF FrameOK
<1>3. CASE f.k \in {"do", "docond"}
  <2>1. Blocks(f.brk) \subseteq 1 .. n /\ Blocks(f.cont) \subseteq 1 .. n
    BY <1>3, SMTT(30) DEF FrameOK, Blocks
  <2> QED
    BY <1>3, <2>1, PendingIs
<1>4. CASE f.k \notin {"then", "else", "tfirst", "tsecond", "call", "wbody", "do", "docond"}
  BY <1>4, PendingIs
<1> QED
  BY <1>1, <1>2, <1>3, <1>4

\* More blocks do not hurt a call.
LEMMA FrameGrows ==
  ASSUME NEW n \in Nat, NEW m \in Nat, n <= m, NEW f, FrameOK(n, f)
  PROVE  FrameOK(m, f)
<1>1. 1 .. n \subseteq 1 .. m /\ 0 .. n \subseteq 0 .. m
  OBVIOUS
<1>2. f.k \in {"do", "docond"} => f.brk \in Seq(1 .. m) /\ f.cont \in Seq(1 .. m)
  BY <1>1 DEF FrameOK
<1> QED
  BY <1>1, <1>2 DEF FrameOK

LEMMA HeldSplit ==
  ASSUME NEW c, NEW fs \in Seq(Frames), NEW k \in Nat, k <= Len(fs), Len(fs) <= k + 1
  PROVE  /\ \A b : b \in Held(c, fs, k) <=>
              \/ b = c /\ c # NoBlock
              \/ Len(fs) = k + 1 /\ b \in Pending(fs[k + 1])
         /\ \A b : b \in Held(c, fs, 0) <=>
              \/ b \in Held(c, fs, k)
              \/ \E i \in 1 .. k : b \in Pending(fs[i])
<1>1. CASE Len(fs) = k
  <2>1. k + 1 .. Len(fs) = {} /\ 0 + 1 .. Len(fs) = 1 .. k
    BY <1>1
  <2> QED
    BY <1>1, <2>1 DEF Held
<1>2. CASE Len(fs) = k + 1
  <2>1. k + 1 .. Len(fs) = {k + 1} /\ 0 + 1 .. Len(fs) = (1 .. k) \cup {k + 1}
    BY <1>2
  <2> QED
    BY <1>2, <2>1 DEF Held
<1> QED
  BY <1>1, <1>2

\* From bs to bs2 only the blocks of T change, and some are added; of all
\* these, those of T2 have no tail.
Changes(bs, bs2, T, T2) ==
  /\ bs2 \in Seq(Block)
  /\ Len(bs) <= Len(bs2)
  /\ \A b \in DOMAIN bs2 : ~bs2[b].final
  /\ \A b \in DOMAIN bs \ T : bs2[b] = bs[b]
  /\ T2 \subseteq T \cup (DOMAIN bs2 \ DOMAIN bs)
  /\ \A b \in T \cup (DOMAIN bs2 \ DOMAIN bs) : Open(bs2, b) <=> b \in T2

(***************************************************************************)
(* A step leaves the first k calls alone and replaces, adds or removes the  *)
(* one above them.  It may change the blocks held by that one and the       *)
(* current block, and add new ones; of all these, those held afterwards are *)
(* the ones without a tail.                                                *)
(***************************************************************************)
Step(bs, c, fs, k, bs2, c2, fs2) ==
  /\ c2 \in 0 .. Len(bs2) /\ fs2 \in Seq(Frames)
  /\ k \in Nat /\ k <= Len(fs) /\ Len(fs) <= k + 1
  /\ k <= Len(fs2) /\ Len(fs2) <= k + 1
  /\ \A i \in 1 .. k : fs2[i] = fs[i]
  /\ Changes(bs, bs2, Held(c, fs, k), Held(c2, fs2, k))
  /\ Len(fs2) = k + 1 => /\ FrameOK(Len(bs2), fs2[k + 1])
                         /\ c2 \notin Pending(fs2[k + 1])

\* The calls below the first k and what they hold.
LEMMA Rest ==
  ASSUME NEW bs, NEW c, NEW fs, Shape(bs, c, fs), NEW k \in Nat, k <= Len(fs), Len(fs) <= k + 1,
         NEW i \in 1 .. k
  PROVE  /\ i \in DOMAIN fs
         /\ Pending(fs[i]) \subseteq DOMAIN bs
         /\ Pending(fs[i]) \cap Held(c, fs, k) = {}
         /\ \A b \in Pending(fs[i]) : Open(bs, b)
<1>1. /\ fs \in Seq(Frames) /\ Len(fs) \in Nat
      /\ bs \in Seq(Block) /\ Len(bs) \in Nat
  BY DEF Shape
<1>2. i \in DOMAIN fs
  BY <1>1
<1>3. Pending(fs[i]) \subseteq DOMAIN bs
  BY <1>1, <1>2, PendingDomain DEF Shape
<1>4. \A b : b \in Held(c, fs, k) <=>
        (b = c /\ c # NoBlock) \/ (Len(fs) = k + 1 /\ b \in Pending(fs[k + 1]))
  BY <1>1, HeldSplit
<1>5. c \notin Pending(fs[i])
  BY <1>2 DEF Shape
<1>6. Len(fs) = k + 1 => Pending(fs[i]) \cap Pending(fs[k + 1]) = {}
  <2>1. Len(fs) = k + 1 => k + 1 \in DOMAIN fs /\ i # k + 1
    BY <1>1
  <2> QED
    BY <1>2, <2>1 DEF Shape
<1>7. Pending(fs[i]) \cap Held(c, fs, k) = {}
  BY <1>4, <1>5, <1>6
<1>8. \A b \in Pending(fs[i]) : b \in Held(c, fs, 0)
  BY <1>1, <1>2 DEF Held
<1>9. \A b \in Pending(fs[i]) : Open(bs, b)
  BY <1>3, <1>8 DEF Shape
<1> QED
  BY <1>2, <1>3, <1>7, <1>9

LEMMA HeldOpen ==
  ASSUME NEW bs, NEW c, NEW fs, Shape(bs, c, fs), NEW k \in Nat, k <= Len(fs), Len(fs) <= k + 1
  PROVE  /\ Held(c, fs, k) \subseteq DOMAIN bs
         /\ \A b \in Held(c, fs, k) : Open(bs, b)
<1>1. /\ fs \in Seq(Frames) /\ Len(fs) \in Nat
      /\ bs \in Seq(Block) /\ Len(bs) \in Nat /\ c \in 0 .. Len(bs)
  BY DEF Shape
<1>2. \A b : b \in Held(c, fs, k) <=>
        (b = c /\ c # NoBlock) \/ (Len(fs) = k + 1 /\ b \in Pending(fs[k + 1]))
  BY <1>1, HeldSplit
<1>3. Len(fs) = k + 1 => k + 1 \in DOMAIN fs
  BY <1>1
<1>4. Len(fs) = k + 1 => Pending(fs[k + 1]) \subseteq DOMAIN bs
  BY <1>1, <1>3, PendingDomain DEF Shape
<1>5. Held(c, fs, k) \subseteq DOMAIN bs
  BY <1>1, <1>2, <1>4 DEF NoBlock
<1>6. Held(c, fs, k) \subseteq Held(c, fs, 0)
  BY <1>1, HeldSplit
<1> QED
  BY <1>5, <1>6 DEF Shape

LEMMA StepShape ==
  ASSUME NEW bs, NEW c, NEW fs, NEW k, NEW bs2, NEW c2, NEW fs2,
         Shape(bs, c, fs), Step(bs, c, fs, k, bs2, c2, fs2)
  PROVE  /\ Shape(bs2, c2, fs2)
         /\ \A b \in DOMAIN bs : ~Open(bs, b) => bs2[b] = bs[b]
<1> DEFINE T == Held(c, fs, k)
           T2 == Held(c2, fs2, k)
           N == DOMAIN bs2 \ DOMAIN bs
<1>1. /\ fs \in Seq(Frames) /\ Len(fs) \in Nat
      /\ bs \in Seq(Block) /\ Len(bs) \in Nat
      /\ k \in Nat /\ k <= Len(fs) /\ Len(fs) <= k + 1
  BY DEF Shape, Step
<1>2. /\ fs2 \in Seq(Frames) /\ Len(fs2) \in Nat
      /\ bs2 \in Seq(Block) /\ Len(bs2) \in Nat
      /\ Len(bs) <= Len(bs2)
      /\ k <= Len(fs2) /\ Len(fs2) <= k + 1 /\ c2 \in 0 .. Len(bs2)
  BY DEF Step, Changes
<1>3. DOMAIN bs \subseteq DOMAIN bs2
  BY <1>1, <1>2
<1>4. T \subseteq DOMAIN bs /\ \A b \in T : Open(bs, b)
  BY <1>1, HeldOpen
<1>5. \A b \in DOMAIN bs \ T : bs2[b] = bs[b]
  BY DEF Step, Changes
<1>6. T2 \subseteq T \cup N /\ \A b \in T \cup N : Open(bs2, b) <=> b \in T2
  BY DEF Step, Changes
<1>7. \A i \in 1 .. k : /\ i \in DOMAIN fs /\ i \in DOMAIN fs2 /\ fs2[i] = fs[i]
                        /\ Pending(fs2[i]) = Pending(fs[i])
                        /\ Pending(fs[i]) \subseteq DOMAIN bs
                        /\ Pending(fs[i]) \cap T = {}
  BY <1>1, <1>2, Rest DEF Step
<1>8. \A b : b \in T2 <=>
        (b = c2 /\ c2 # NoBlock) \/ (Len(fs2) = k + 1 /\ b \in Pending(fs2[k + 1]))
  BY <1>1, <1>2, HeldSplit
<1> HIDE DEF T, T2, N
<1>9. \A i \in 1 .. k : Pending(fs[i]) \cap T2 = {}
  BY <1>6, <1>7 DEF N
<1>10. \A i \in DOMAIN fs2 : i \in 1 .. k \/ (i = k + 1 /\ Len(fs2) = k + 1)
  BY <1>1, <1>2
<1>11. \A i \in DOMAIN fs2 : FrameOK(Len(bs2), fs2[i])
  <2> SUFFICES ASSUME NEW i \in DOMAIN fs2 PROVE FrameOK(Len(bs2), fs2[i])
    OBVIOUS
  <2>1. CASE i \in 1 .. k
    <3>1. FrameOK(Len(bs), fs[i])
      BY <1>7, <2>1 DEF Shape
    <3>2. FrameOK(Len(bs2), fs[i])
      BY <1>1, <1>2, <3>1, FrameGrows
    <3> QED
      BY <1>7, <2>1, <3>2
  <2>2. CASE i = k + 1 /\ Len(fs2) = k + 1
    BY <2>2 DEF Step
  <2> QED
    BY <1>10, <2>1, <2>2
<1>12. \A i \in DOMAIN fs2 : c2 \notin Pending(fs2[i])
  <2> SUFFICES ASSUME NEW i \in DOMAIN fs2 PROVE c2 \notin Pending(fs2[i])
    OBVIOUS
  <2>1. CASE i \in 1 .. k
    <3>1. NoBlock \notin DOMAIN bs
      BY <1>1 DEF NoBlock
    <3> QED
      BY <1>7, <1>8, <1>9, <2>1, <3>1
  <2>2. CASE i = k + 1 /\ Len(fs2) = k + 1
    BY <2>2 DEF Step
  <2> QED
    BY <1>10, <2>1, <2>2
<1>13. \A i, j \in DOMAIN fs2 : i # j => Pending(fs2[i]) \cap Pending(fs2[j]) = {}
  <2> SUFFICES ASSUME NEW i \in DOMAIN fs2, NEW j \in DOMAIN fs2, i # j
               PROVE  Pending(fs2[i]) \cap Pending(fs2[j]) = {}
    OBVIOUS
  <2>1. CASE i \in 1 .. k /\ j \in 1 .. k
    BY <1>7, <2>1 DEF Shape
  <2>2. CASE i \in 1 .. k /\ j = k + 1 /\ Len(fs2) = k + 1
    <3>1. Pending(fs2[j]) \subseteq T2
      BY <1>8, <2>2
    <3> QED
      BY <1>7, <1>9, <2>2, <3>1
  <2>3. CASE j \in 1 .. k /\ i = k + 1 /\ Len(fs2) = k + 1
    <3>1. Pending(fs2[i]) \subseteq T2
      BY <1>8, <2>3
    <3> QED
      BY <1>7, <1>9, <2>3, <3>1
  <2> QED
    BY <1>10, <2>1, <2>2, <2>3
<1>14. \A b \in DOMAIN bs2 : Open(bs2, b) <=> b \in Held(c2, fs2, 0)
  <2> SUFFICES ASSUME NEW b \in DOMAIN bs2
               PROVE  Open(bs2, b) <=> b \in Held(c2, fs2, 0)
    OBVIOUS
  <2> DEFINE R == \E i \in 1 .. k : b \in Pending(fs[i])
  <2>1. b \in Held(c, fs, 0) <=> b \in T \/ R
    BY <1>1, HeldSplit DEF T
  <2>2. b \in Held(c2, fs2, 0) <=> b \in T2 \/ R
    <3>1. b \in Held(c2, fs2, 0) <=> b \in T2 \/ \E i \in 1 .. k : b \in Pending(fs2[i])
      BY <1>1, <1>2, HeldSplit DEF T2
    <3> QED
      BY <1>7, <3>1
  <2>3. R => b \notin T2 /\ b \notin T /\ b \in DOMAIN bs
    BY <1>7, <1>9
  <2> HIDE DEF R
  <2>4. CASE b \in T \cup N
    BY <1>6, <2>2, <2>3, <2>4 DEF N
  <2>5. CASE b \notin T \cup N
    <3>1. b \in DOMAIN bs /\ b \notin T /\ bs2[b] = bs[b] /\ b \notin T2
      BY <1>5, <1>6, <2>5 DEF N
    <3>2. Open(bs2, b) <=> Open(bs, b)
      BY <3>1 DEF Open
    <3>3. Open(bs, b) <=> b \in Held(c, fs, 0)
      BY <3>1 DEF Shape
    <3> QED
      BY <2>1, <2>2, <3>1, <3>2, <3>3
  <2> QED
    BY <2>4, <2>5
<1>15. Shape(bs2, c2, fs2)
  <2>1. bs2 \in Seq(Block) /\ \A b \in DOMAIN bs2 : ~bs2[b].final
    BY DEF Step, Changes
  <2> QED
    BY <1>2, <1>11, <1>12, <1>13, <1>14, <2>1 DEF Shape
<1> QED
  BY <1>4, <1>5, <1>15

\* The results on the stacks after a step.
StepLevel(h, k, bs2, c2, fs2) ==
  /\ Len(fs2) = k + 1 =>
       LET f == fs2[k + 1] IN
       /\ Pushed(f) \in Nat
       /\ f.k \in Roots => \A j \in 0 .. k : h[j] = 0
       /\ \A b \in Pending(f) :
            Len(bs2[b].stack) = IF f.k \in {"tfirst", "tsecond"} THEN h[k] ELSE 0
       /\ c2 # NoBlock => Len(bs2[c2].stack) = h[k] + Pushed(f)
  /\ Len(fs2) = k /\ c2 # NoBlock => Len(bs2[c2].stack) = h[k]

\* One more call, with its results.
Extend(h, k, n) == [i \in 0 .. k + 1 |-> IF i = k + 1 THEN h[k] + n ELSE h[i]]

LEMMA StepLevels ==
  ASSUME NEW bs, NEW c, NEW fs, NEW k, NEW bs2, NEW c2, NEW fs2, NEW h,
         Shape(bs, c, fs), Levels(bs, c, fs, h), Step(bs, c, fs, k, bs2, c2, fs2),
         StepLevel(h, k, bs2, c2, fs2)
  PROVE  \E h2 : /\ Levels(bs2, c2, fs2, h2)
                 /\ \A j \in 0 .. k : h2[j] = h[j]
                 /\ Len(fs2) = k + 1 => h2[k + 1] = h[k] + Pushed(fs2[k + 1])
<1>1. /\ fs \in Seq(Frames) /\ Len(fs) \in Nat /\ bs \in Seq(Block)
      /\ k \in Nat /\ k <= Len(fs) /\ Len(fs) <= k + 1
      /\ fs2 \in Seq(Frames) /\ Len(fs2) \in Nat /\ k <= Len(fs2) /\ Len(fs2) <= k + 1
      /\ c2 \in 0 .. Len(bs2)
  BY DEF Shape, Step
<1>2. /\ h \in [0 .. Len(fs) -> Nat] /\ h[0] = 0
      /\ \A j \in 0 .. k : h[j] \in Nat
  BY <1>1 DEF Levels
<1>3. \A i \in 1 .. k : /\ i \in DOMAIN fs /\ i \in DOMAIN fs2 /\ fs2[i] = fs[i]
                        /\ \A b \in Pending(fs[i]) : bs2[b] = bs[b]
  BY <1>1, Rest DEF Step, Changes
<1>4. \A i \in DOMAIN fs2 : i \in 1 .. k \/ (i = k + 1 /\ Len(fs2) = k + 1)
  BY <1>1
<1> DEFINE Level(g, i, f) ==
             /\ g[i] = g[i - 1] + Pushed(f)
             /\ f.k \in Roots => \A j \in 0 .. i - 1 : g[j] = 0
             /\ \A b \in Pending(f) :
                  Len(bs2[b].stack) = IF f.k \in {"tfirst", "tsecond"} THEN g[i - 1] ELSE 0
<1>5. \A i \in 1 .. k : Level(h, i, fs2[i])
  <2> SUFFICES ASSUME NEW i \in 1 .. k PROVE Level(h, i, fs[i])
    BY <1>3
  <2>1. /\ h[i] = h[i - 1] + Pushed(fs[i])
        /\ fs[i].k \in Roots => \A j \in 0 .. i - 1 : h[j] = 0
        /\ \A b \in Pending(fs[i]) :
             Len(bs[b].stack) = IF fs[i].k \in {"tfirst", "tsecond"} THEN h[i - 1] ELSE 0
    BY <1>3 DEF Levels
  <2> QED
    BY <1>3, <2>1
<1>6. CASE Len(fs2) = k
  <2> DEFINE h2 == [i \in 0 .. k |-> h[i]]
  <2>1. h2 \in [0 .. Len(fs2) -> Nat] /\ h2[0] = 0 /\ \A j \in 0 .. k : h2[j] = h[j]
    BY <1>1, <1>2, <1>6
  <2> HIDE DEF h2
  <2>2. \A i \in 1 .. k : i \in 0 .. k /\ i - 1 \in 0 .. k /\ 0 .. i - 1 \subseteq 0 .. k
    BY <1>1
  <2>3. \A i \in DOMAIN fs2 : Level(h2, i, fs2[i])
    <3> SUFFICES ASSUME NEW i \in 1 .. k PROVE Level(h2, i, fs2[i])
      BY <1>4, <1>6, <1>1
    <3>1. Level(h, i, fs2[i])
      BY <1>5
    <3> QED
      BY <2>1, <2>2, <3>1
  <2>4. c2 # NoBlock => Len(bs2[c2].stack) = h2[Len(fs2)]
    BY <1>1, <1>6, <2>1 DEF StepLevel
  <2>5. Levels(bs2, c2, fs2, h2)
    BY <2>1, <2>3, <2>4 DEF Levels
  <2>6. Len(fs2) # k + 1
    BY <1>1, <1>6
  <2> QED
    BY <2>1, <2>5, <2>6
<1>7. CASE Len(fs2) = k + 1
  <2> DEFINE f == fs2[k + 1]
             h2 == Extend(h, k, Pushed(f))
  <2>1. /\ Pushed(f) \in Nat
        /\ f.k \in Roots => \A j \in 0 .. k : h[j] = 0
        /\ \A b \in Pending(f) :
             Len(bs2[b].stack) = IF f.k \in {"tfirst", "tsecond"} THEN h[k] ELSE 0
        /\ c2 # NoBlock => Len(bs2[c2].stack) = h[k] + Pushed(f)
    BY <1>7 DEF StepLevel
  <2>2. \A i \in 1 .. k + 1 : i - 1 \in 0 .. k /\ 0 .. i - 1 \subseteq 0 .. k
    BY <1>1
  <2> HIDE DEF f
  <2>3. /\ h2 \in [0 .. Len(fs2) -> Nat] /\ h2[0] = 0
        /\ \A j \in 0 .. k : h2[j] = h[j]
        /\ h2[k + 1] = h[k] + Pushed(f)
    BY <1>1, <1>2, <1>7, <2>1 DEF Extend
  <2> HIDE DEF h2
  <2>4. \A i \in DOMAIN fs2 : Level(h2, i, fs2[i])
    <3> SUFFICES ASSUME NEW i \in DOMAIN fs2 PROVE Level(h2, i, fs2[i])
      OBVIOUS
    <3>1. CASE i \in 1 .. k
      <4>1. Level(h, i, fs2[i])
        BY <1>5, <3>1
      <4>2. i \in 0 .. k /\ i - 1 \in 0 .. k /\ 0 .. i - 1 \subseteq 0 .. k
        BY <1>1, <3>1
      <4> QED
        BY <2>3, <4>1, <4>2
    <3>2. CASE i = k + 1
      <4>1. i - 1 = k /\ fs2[i] = f /\ k \in 0 .. k
        BY <1>1, <3>2 DEF f
      <4> QED
        BY <2>1, <2>3, <3>2, <4>1
    <3> QED
      BY <1>4, <3>1, <3>2
  <2>5. c2 # NoBlock => Len(bs2[c2].stack) = h2[Len(fs2)]
    BY <1>7, <2>1, <2>3
  <2>6. Levels(bs2, c2, fs2, h2)
    BY <2>3, <2>4, <2>5 DEF Levels
  <2> QED
    BY <2>3, <2>6 DEF f
<1> QED
  BY <1>1, <1>6, <1>7

-----------------------------------------------------------------------------
(* The four ways a step treats the stack of calls.                         *)

Between == {"stmt", "defining", "letting"}
Filling == {"defining", "letting", "expr", "value"}

Ready(bs, c, fs, a, h) ==
  /\ Shape(bs, c, fs)
  /\ Levels(bs, c, fs, h)
  /\ a \in Filling => c # NoBlock
  /\ a \in Between => \A j \in 0 .. Len(fs) : h[j] = 0

\* A step from blocks bs ends well: the invariant holds again, and no block
\* that had its tail was touched.
EndsWell(bs, bs2, c2, fs2, a2) ==
  /\ \E h2 : Ready(bs2, c2, fs2, a2, h2)
  /\ \A b \in DOMAIN bs : ~Open(bs, b) => bs2[b] = bs[b]

LEMMA StepReady ==
  ASSUME NEW bs, NEW c, NEW fs, NEW a, NEW h, Ready(bs, c, fs, a, h),
         NEW k, NEW bs2, NEW c2, NEW fs2, NEW a2,
         Step(bs, c, fs, k, bs2, c2, fs2), StepLevel(h, k, bs2, c2, fs2),
         a2 \in Filling => c2 # NoBlock,
         a2 \in Between => /\ \A j \in 0 .. k : h[j] = 0
                           /\ Len(fs2) = k + 1 => Pushed(fs2[k + 1]) = 0
  PROVE  EndsWell(bs, bs2, c2, fs2, a2)
<1>1. /\ Shape(bs2, c2, fs2)
      /\ \A b \in DOMAIN bs : ~Open(bs, b) => bs2[b] = bs[b]
  BY StepShape DEF Ready
<1>2. PICK h2 : /\ Levels(bs2, c2, fs2, h2)
                /\ \A j \in 0 .. k : h2[j] = h[j]
                /\ Len(fs2) = k + 1 => h2[k + 1] = h[k] + Pushed(fs2[k + 1])
  BY StepLevels DEF Ready
<1>3. a2 \in Between => \A j \in 0 .. Len(fs2) : h2[j] = 0
  <2> SUFFICES ASSUME a2 \in Between, NEW j \in 0 .. Len(fs2) PROVE h2[j] = 0
    OBVIOUS
  <2>1. /\ k \in Nat /\ fs2 \in Seq(Frames) /\ k <= Len(fs2) /\ Len(fs2) <= k + 1
    BY DEF Step
  <2>2. j \in 0 .. k \/ (j = k + 1 /\ Len(fs2) = k + 1)
    BY <2>1
  <2>3. k \in 0 .. k
    BY <2>1
  <2> QED
    BY <1>2, <2>2, <2>3
<1>4. Ready(bs2, c2, fs2, a2, h2)
  BY <1>1, <1>2, <1>3 DEF Ready
<1> QED
  BY <1>1, <1>4 DEF EndsWell

\* What the current block holds, and what it and the call f do.
Only(c) == {c} \ {NoBlock}
Top(c, f) == Only(c) \cup Pending(f)

LEMMA HeldOnly ==
  ASSUME NEW c, NEW fs \in Seq(Frames), NEW k \in Nat, Len(fs) = k
  PROVE  Held(c, fs, k) = Only(c)
<1>1. k <= Len(fs) /\ Len(fs) <= k + 1 /\ Len(fs) # k + 1
  OBVIOUS
<1>2. \A b : b \in Held(c, fs, k) <=> b = c /\ c # NoBlock
  BY <1>1, HeldSplit
<1> QED
  BY <1>2 DEF Only

LEMMA HeldTop ==
  ASSUME NEW c, NEW fs \in Seq(Frames), NEW k \in Nat, Len(fs) = k + 1
  PROVE  Held(c, fs, k) = Top(c, fs[k + 1])
<1>1. k <= Len(fs) /\ Len(fs) <= k + 1
  OBVIOUS
<1>2. \A b : b \in Held(c, fs, k) <=> (b = c /\ c # NoBlock) \/ b \in Pending(fs[k + 1])
  BY <1>1, HeldSplit
<1> QED
  BY <1>2 DEF Top, Only

LEMMA StayReady ==
  ASSUME NEW bs, NEW c, NEW fs, NEW a, NEW h, Ready(bs, c, fs, a, h),
         NEW bs2, NEW c2 \in 0 .. Len(bs2), NEW a2,
         Changes(bs, bs2, Only(c), Only(c2)),
         c2 # NoBlock => Len(bs2[c2].stack) = h[Len(fs)],
         a2 \in Filling => c2 # NoBlock,
         a2 \in Between => a \in Between
  PROVE  EndsWell(bs, bs2, c2, fs, a2)
<1> DEFINE k == Len(fs)
<1>1. /\ fs \in Seq(Frames) /\ k \in Nat /\ Len(fs) = k
      /\ k <= Len(fs) /\ Len(fs) <= k + 1 /\ Len(fs) # k + 1
  BY DEF Ready, Shape
<1> HIDE DEF k
<1>2. Held(c, fs, k) = Only(c) /\ Held(c2, fs, k) = Only(c2)
  BY <1>1, HeldOnly
<1>3. Step(bs, c, fs, k, bs2, c2, fs)
  BY <1>1, <1>2 DEF Step
<1>4. StepLevel(h, k, bs2, c2, fs)
  BY <1>1 DEF StepLevel
<1>5. a \in Between => \A j \in 0 .. k : h[j] = 0
  BY <1>1 DEF Ready
<1> QED
  BY <1>1, <1>3, <1>4, <1>5, StepReady

LEMMA EnterReady ==
  ASSUME NEW bs, NEW c, NEW fs, NEW a, NEW h, Ready(bs, c, fs, a, h),
         NEW bs2, NEW c2 \in 0 .. Len(bs2), NEW a2, NEW f \in Frames,
         Changes(bs, bs2, Only(c), Top(c2, f)),
         FrameOK(Len(bs2), f), c2 \notin Pending(f), Pushed(f) \in Nat,
         f.k \in Roots => a \in Between,
         \A b \in Pending(f) :
           Len(bs2[b].stack) = IF f.k \in {"tfirst", "tsecond"} THEN h[Len(fs)] ELSE 0,
         c2 # NoBlock => Len(bs2[c2].stack) = h[Len(fs)] + Pushed(f),
         a2 \in Filling => c2 # NoBlock,
         a2 \in Between => a \in Between /\ Pushed(f) = 0
  PROVE  EndsWell(bs, bs2, c2, Append(fs, f), a2)
<1> DEFINE k == Len(fs)
           fs2 == Append(fs, f)
<1>1. /\ fs \in Seq(Frames) /\ k \in Nat /\ Len(fs) = k
      /\ k <= Len(fs) /\ Len(fs) <= k + 1 /\ Len(fs) # k + 1
  BY DEF Ready, Shape
<1>2. /\ fs2 \in Seq(Frames) /\ Len(fs2) = k + 1 /\ k <= Len(fs2) /\ Len(fs2) <= k + 1
      /\ fs2[k + 1] = f /\ \A i \in 1 .. k : fs2[i] = fs[i]
  BY <1>1
<1> HIDE DEF fs2, k
<1>3. Held(c, fs, k) = Only(c)
  BY <1>1, HeldOnly
<1>4. Held(c2, fs2, k) = Top(c2, f)
  BY <1>1, <1>2, HeldTop
<1>5. Step(bs, c, fs, k, bs2, c2, fs2)
  BY <1>1, <1>2, <1>3, <1>4 DEF Step
<1>6. a \in Between => \A j \in 0 .. k : h[j] = 0
  BY <1>1 DEF Ready
<1>7. Len(fs2) # k
  BY <1>1, <1>2
<1>8. StepLevel(h, k, bs2, c2, fs2)
  BY <1>1, <1>2, <1>6, <1>7 DEF StepLevel
<1>9. Len(fs2) = k + 1 => Pushed(fs2[k + 1]) = Pushed(f)
  BY <1>2
<1>10. EndsWell(bs, bs2, c2, fs2, a2)
  BY <1>5, <1>6, <1>8, <1>9, StepReady
<1> QED
  BY <1>10 DEF fs2

\* Facts about the topmost call and the results below it.
LEMMA TopReady ==
  ASSUME NEW bs, NEW c, NEW fs, NEW a, NEW h, Ready(bs, c, fs, a, h), fs # <<>>
  PROVE  LET t == fs[Len(fs)]
             g == h[Len(fs) - 1]
         IN /\ t \in Frames /\ FrameOK(Len(bs), t)
            /\ g \in Nat /\ h[Len(fs)] = g + Pushed(t)
            /\ t.k \in Roots => g = 0 /\ \A j \in 0 .. Len(fs) - 1 : h[j] = 0
            /\ \A b \in Pending(t) :
                 Len(bs[b].stack) = IF t.k \in {"tfirst", "tsecond"} THEN g ELSE 0
            /\ Pending(t) \subseteq DOMAIN bs
            /\ c \notin Pending(t)
            /\ Top(c, t) \subseteq DOMAIN bs
            /\ \A b \in Top(c, t) : Open(bs, b)
            /\ c # NoBlock => c \in DOMAIN bs /\ Len(bs[c].stack) = g + Pushed(t)
<1> DEFINE n == Len(fs)
           t == fs[n]
           k == n - 1
<1>1. fs \in Seq(Frames) /\ bs \in Seq(Block) /\ n \in DOMAIN fs /\ n \in Nat \ {0}
  BY DEF Ready, Shape
<1>2. k \in Nat /\ k <= Len(fs) /\ Len(fs) <= k + 1 /\ k + 1 = n /\ k \in 0 .. n - 1
  BY <1>1
<1>3. t \in Frames /\ FrameOK(Len(bs), t) /\ c \notin Pending(t)
  BY <1>1 DEF Ready, Shape
<1>4. h[k] \in Nat /\ h[n] = h[k] + Pushed(t)
  <2>1. k \in 0 .. n
    BY <1>1, <1>2
  <2> QED
    BY <1>1, <2>1 DEF Ready, Levels
<1>5. /\ t.k \in Roots => \A j \in 0 .. n - 1 : h[j] = 0
      /\ \A b \in Pending(t) :
           Len(bs[b].stack) = IF t.k \in {"tfirst", "tsecond"} THEN h[k] ELSE 0
  BY <1>1 DEF Ready, Levels
<1>6. Held(c, fs, k) = Top(c, t)
  <2> HIDE DEF k
  <2> QED
    BY <1>1, <1>2, HeldTop
<1>7. Top(c, t) \subseteq DOMAIN bs /\ \A b \in Top(c, t) : Open(bs, b)
  <2> HIDE DEF k
  <2> QED
    BY <1>2, <1>6, HeldOpen DEF Ready
<1>8. c # NoBlock => c \in DOMAIN bs /\ Len(bs[c].stack) = h[n]
  BY <1>7 DEF Ready, Levels, Top, Only
<1>9. Pending(t) \subseteq DOMAIN bs
  BY <1>7 DEF Top
<1> HIDE DEF t, n
<1> QED
  BY <1>2, <1>3, <1>4, <1>5, <1>7, <1>8, <1>9 DEF t, n

LEMMA LeaveReady ==
  ASSUME NEW bs, NEW c, NEW fs, NEW a, NEW h, Ready(bs, c, fs, a, h), fs # <<>>,
         NEW bs2, NEW c2 \in 0 .. Len(bs2), NEW a2,
         Changes(bs, bs2, Top(c, fs[Len(fs)]), Only(c2)),
         c2 # NoBlock => Len(bs2[c2].stack) = h[Len(fs) - 1],
         a2 \in Filling => c2 # NoBlock,
         a2 \in Between => fs[Len(fs)].k \in Roots
  PROVE  EndsWell(bs, bs2, c2, SubSeq(fs, 1, Len(fs) - 1), a2)
<1> DEFINE k == Len(fs) - 1
           fs2 == SubSeq(fs, 1, k)
<1>1. /\ fs \in Seq(Frames) /\ k \in Nat /\ Len(fs) = k + 1 /\ Len(fs) - 1 = k
      /\ k <= Len(fs) /\ Len(fs) <= k + 1
  BY DEF Ready, Shape
<1>2. /\ fs2 \in Seq(Frames) /\ Len(fs2) = k /\ k <= Len(fs2) /\ Len(fs2) <= k + 1
      /\ \A i \in 1 .. k : fs2[i] = fs[i]
  BY <1>1
<1> HIDE DEF fs2, k
<1>3. Held(c, fs, k) = Top(c, fs[Len(fs)])
  BY <1>1, HeldTop
<1>4. Held(c2, fs2, k) = Only(c2)
  BY <1>1, <1>2, HeldOnly
<1>5. Len(fs2) # k + 1
  BY <1>1, <1>2
<1>6. Step(bs, c, fs, k, bs2, c2, fs2)
  BY <1>1, <1>2, <1>3, <1>4, <1>5 DEF Step
<1>7. fs[Len(fs)].k \in Roots => \A j \in 0 .. k : h[j] = 0
  BY <1>1, TopReady
<1>8. StepLevel(h, k, bs2, c2, fs2)
  BY <1>1, <1>5 DEF StepLevel
<1>9. EndsWell(bs, bs2, c2, fs2, a2)
  BY <1>5, <1>6, <1>7, <1>8, StepReady
<1> QED
  BY <1>9 DEF fs2, k

LEMMA SwapReady ==
  ASSUME NEW bs, NEW c, NEW fs, NEW a, NEW h, Ready(bs, c, fs, a, h), fs # <<>>,
         NEW bs2, NEW c2 \in 0 .. Len(bs2), NEW a2, NEW f \in Frames,
         Changes(bs, bs2, Top(c, fs[Len(fs)]), Top(c2, f)),
         FrameOK(Len(bs2), f), c2 \notin Pending(f), Pushed(f) \in Nat,
         f.k \in Roots => fs[Len(fs)].k \in Roots,
         \A b \in Pending(f) :
           Len(bs2[b].stack) = IF f.k \in {"tfirst", "tsecond"} THEN h[Len(fs) - 1] ELSE 0,
         c2 # NoBlock => Len(bs2[c2].stack) = h[Len(fs) - 1] + Pushed(f),
         a2 \in Filling => c2 # NoBlock,
         a2 \in Between => fs[Len(fs)].k \in Roots /\ Pushed(f) = 0
  PROVE  EndsWell(bs, bs2, c2, Append(SubSeq(fs, 1, Len(fs) - 1), f), a2)
<1> DEFINE k == Len(fs) - 1
           fs2 == Append(SubSeq(fs, 1, k), f)
<1>1. /\ fs \in Seq(Frames) /\ k \in Nat /\ Len(fs) = k + 1 /\ Len(fs) - 1 = k
      /\ k <= Len(fs) /\ Len(fs) <= k + 1
  BY DEF Ready, Shape
<1>2. /\ fs2 \in Seq(Frames) /\ Len(fs2) = k + 1 /\ k <= Len(fs2) /\ Len(fs2) <= k + 1
      /\ fs2[k + 1] = f /\ \A i \in 1 .. k : fs2[i] = fs[i]
  <2> DEFINE below == SubSeq(fs, 1, k)
  <2>1. below \in Seq(Frames) /\ Len(below) = k /\ \A i \in 1 .. k : below[i] = fs[i]
    BY <1>1
  <2> HIDE DEF below
  <2>2. fs2 = Append(below, f)
    BY DEF below
  <2> HIDE DEF fs2, k
  <2> QED
    BY <1>1, <2>1, <2>2
<1> HIDE DEF fs2, k
<1>3. Held(c, fs, k) = Top(c, fs[Len(fs)])
  BY <1>1, HeldTop
<1>4. Held(c2, fs2, k) = Top(c2, f)
  BY <1>1, <1>2, HeldTop
<1>5. Step(bs, c, fs, k, bs2, c2, fs2)
  BY <1>1, <1>2, <1>3, <1>4 DEF Step
<1>6. fs[Len(fs)].k \in Roots => \A j \in 0 .. k : h[j] = 0
  BY <1>1, TopReady
<1>7. Len(fs2) # k
  BY <1>1, <1>2
<1>8. StepLevel(h, k, bs2, c2, fs2)
  BY <1>1, <1>2, <1>6, <1>7 DEF StepLevel
<1>9. Len(fs2) = k + 1 => Pushed(fs2[k + 1]) = Pushed(f)
  BY <1>2
<1>10. EndsWell(bs, bs2, c2, fs2, a2)
  BY <1>5, <1>6, <1>8, <1>9, StepReady
<1> QED
  BY <1>10 DEF fs2, k

-----------------------------------------------------------------------------
(* Filling a block.                                                        *)

\* x is the block b after some more instructions, with n results waiting.
Fills(x, b, n) ==
  x \in Block /\ x.tail = b.tail /\ x.final = b.final /\ Len(x.stack) = n

LEMMA FillsTrans ==
  ASSUME NEW b, NEW x, NEW y, NEW n, NEW m, Fills(x, b, n), Fills(y, x, m)
  PROVE  Fills(y, b, m)
BY DEF Fills

LEMMA StackInt ==
  ASSUME NEW b \in Block
  PROVE  /\ b.stack \in Seq(Int) /\ Len(b.stack) \in Nat
         /\ \A i \in 1 .. Len(b.stack) : b.stack[i] \in Int
<1>1. b.stack \in Seq(Int)
  BY DEF Block
<1> QED
  BY <1>1

LEMMA EmitFills ==
  ASSUME NEW b \in Block, NEW op \in Ops, NEW args \in Seq(Int)
  PROVE  Fills(Emit(b, op, args), b, Len(b.stack))
BY EmitBlock DEF Fills

LEMMA MirrorFills ==
  ASSUME NEW b \in Block, NEW src \in Int
  PROVE  Fills(Mirror(b, src), b, Len(b.stack))
<1>1. "get" \in Ops /\ <<src>> \in Seq(Int)
  BY DEF Ops
<1> QED
  BY <1>1, EmitFills DEF Mirror

LEMMA PushFills ==
  ASSUME NEW b \in Block
  PROVE  /\ Fills(PushStack(b), b, Len(b.stack) + 1)
         /\ PushStack(b).stack[1] \in Int
<1>1. LastInstruction(b) \in Int
  BY ParamCountNat
<1>2. Fills(PushStack(b), b, Len(b.stack) + 1)
  BY <1>1, PushBlock DEF PushStack, Fills
<1>3. 1 \in 1 .. Len(PushStack(b).stack) /\ PushStack(b) \in Block
  BY <1>2, StackInt DEF Fills
<1> QED
  BY <1>2, <1>3, StackInt

LEMMA PopFills ==
  ASSUME NEW b \in Block, NEW n \in Nat, n <= Len(b.stack)
  PROVE  Fills(PopStack(b, n), b, Len(b.stack) - n)
BY PopBlock DEF Fills

LEMMA SymbolFills ==
  ASSUME NEW b \in Block, NEW s \in Nat, NEW ex \in BOOLEAN, NEW ins \in Int
  PROVE  /\ Fills(AddSymbol(b, s, ex, ins), b, Len(b.stack))
         /\ Fills(SetSymbol(b, s, ins), b, Len(b.stack))
BY SymbolBlock DEF Fills

\* The operands a step takes from the stack, in the order of their pushing.
Operands(b, n) == [i \in 1 .. n |-> b.stack[n + 1 - i]]

LEMMA OperandsInt ==
  ASSUME NEW b \in Block, NEW n \in Nat, n <= Len(b.stack)
  PROVE  Operands(b, n) \in Seq(Int)
<1> DEFINE args == [i \in 1 .. n |-> b.stack[n + 1 - i]]
           s == b.stack
<1>1. s \in Seq(Int) /\ Len(s) \in Nat
  BY StackInt
<1>2. \A i \in 1 .. n : n + 1 - i \in 1 .. Len(s)
  BY <1>1
<1> HIDE DEF s
<1>3. args \in [1 .. n -> Int]
  BY <1>1, <1>2 DEF s
<1> HIDE DEF args
<1>4. args \in Seq(Int)
  BY <1>3, FunSeq
<1> QED
  BY <1>4 DEF args, Operands

LEMMA ComputeFills ==
  ASSUME NEW b \in Block, 1 <= Len(b.stack)
  PROVE  Fills(Compute(b), b, Len(b.stack) - 1)
<1>1. b.stack[1] \in Int /\ LastInstruction(b) \in Int
  BY StackInt, ParamCountNat
<1>2. "calc" \in Ops /\ <<b.stack[1], LastInstruction(b)>> \in Seq(Int)
  BY <1>1 DEF Ops
<1>3. Fills(PopStack(b, 1), b, Len(b.stack) - 1)
  BY PopFills
<1>4. Fills(Compute(b), PopStack(b, 1), Len(b.stack) - 1)
  BY <1>2, <1>3, EmitFills DEF Compute, Fills
<1> QED
  BY <1>3, <1>4, FillsTrans

LEMMA StoreFills ==
  ASSUME NEW b \in Block, NEW n \in 2 .. 3, n - 1 <= Len(b.stack)
  PROVE  Fills(Store(b, n), b, Len(b.stack) - (n - 1))
<1> DEFINE s == b.stack
           l == LastInstruction(b)
           p == PopStack(b, n - 1)
<1>1. s \in Seq(Int) /\ Len(s) \in Nat /\ l \in Int /\ s[1] \in Int /\ (n = 3 => s[2] \in Int)
  BY StackInt, ParamCountNat
<1>2. /\ "put" \in Ops /\ "setindex" \in Ops
      /\ <<s[1], l>> \in Seq(Int) /\ (n = 3 => <<s[2], l, s[1]>> \in Seq(Int))
  BY <1>1 DEF Ops
<1>3. Fills(p, b, Len(s) - (n - 1))
  BY PopFills
<1> DEFINE e == IF n = 2 THEN Emit(p, "put", <<s[1], l>>)
                ELSE Emit(p, "setindex", <<s[2], l, s[1]>>)
<1>4. Store(b, n) = Mirror(e, l)
  BY DEF Store
<1> HIDE DEF p, s, l
<1>5. Fills(e, p, Len(s) - (n - 1))
  <2>1. CASE n = 2
    BY <1>2, <1>3, <2>1, EmitFills DEF Fills
  <2>2. CASE n = 3
    BY <1>2, <1>3, <2>2, EmitFills, ZenonT(40) DEF Fills
  <2> QED
    BY <2>1, <2>2
<1> HIDE DEF e
<1>6. Fills(Mirror(e, l), e, Len(s) - (n - 1))
  BY <1>1, <1>5, MirrorFills DEF Fills
<1>7. Fills(Mirror(e, l), b, Len(s) - (n - 1))
  BY <1>3, <1>5, <1>6, FillsTrans
<1> QED
  BY <1>4, <1>7 DEF s

LEMMA LoadFills ==
  ASSUME NEW b \in Block, NEW n \in 1 .. 2, n - 1 <= Len(b.stack)
  PROVE  Fills(Load(b, n), b, Len(b.stack) + 2)
<1> DEFINE t == PushStack(b)
           args == Operands(t, n)
           e == Emit(t, "get", args)
<1>1. Fills(t, b, Len(b.stack) + 1) /\ Len(b.stack) \in Nat
  BY PushFills, StackInt
<1>2. Load(b, n) = PushStack(e)
  BY DEF Load, Operands
<1>3. args \in Seq(Int)
  <2> HIDE DEF t
  <2>1. t \in Block /\ n \in Nat /\ n <= Len(t.stack)
    BY <1>1 DEF Fills
  <2> QED
    BY <2>1, OperandsInt
<1>4. "get" \in Ops
  BY DEF Ops
<1> HIDE DEF t, args
<1>5. Fills(e, t, Len(b.stack) + 1)
  BY <1>1, <1>3, <1>4, EmitFills DEF Fills
<1> HIDE DEF e
<1>6. Fills(PushStack(e), e, Len(b.stack) + 2)
  BY <1>1, <1>5, PushFills DEF Fills
<1>7. Fills(PushStack(e), b, Len(b.stack) + 2)
  BY <1>1, <1>5, <1>6, FillsTrans
<1> QED
  BY <1>2, <1>7

LEMMA RestoreFills ==
  ASSUME NEW b \in Block, NEW n \in 1 .. 2, n + 1 <= Len(b.stack)
  PROVE  Fills(Restore(b, n), b, Len(b.stack) - 1 - n)
<1> DEFINE new == Compute(b)
           ops == Operands(new, n)
           args == ops \o <<LastInstruction(new)>>
           p == PopStack(new, n)
           op == IF n = 1 THEN "put" ELSE "setindex"
<1>1. Fills(new, b, Len(b.stack) - 1) /\ Len(b.stack) \in Nat
  BY ComputeFills, StackInt
<1>2. Restore(b, n) = Emit(p, op, args)
  BY DEF Restore, Operands
<1> HIDE DEF new
<1>3. /\ new \in Block /\ n \in Nat /\ n <= Len(new.stack)
      /\ Len(new.stack) = Len(b.stack) - 1
  BY <1>1 DEF Fills
<1>4. ops \in Seq(Int) /\ LastInstruction(new) \in Int
  BY <1>3, OperandsInt, ParamCountNat
<1> HIDE DEF ops
<1>5. args \in Seq(Int) /\ op \in Ops
  BY <1>4 DEF Ops
<1>6. Fills(p, new, Len(b.stack) - 1 - n)
  BY <1>3, PopFills
<1> HIDE DEF p, op, args
<1>7. Fills(Emit(p, op, args), p, Len(b.stack) - 1 - n)
  BY <1>5, <1>6, EmitFills DEF Fills
<1>8. Fills(Emit(p, op, args), b, Len(b.stack) - 1 - n)
  BY <1>1, <1>6, <1>7, FillsTrans
<1> QED
  BY <1>2, <1>8

-----------------------------------------------------------------------------
(* The changes a step makes to the blocks.                                 *)

LEMMA SameChanges ==
  ASSUME NEW bs \in Seq(Block), \A b \in DOMAIN bs : ~bs[b].final,
         NEW T \in SUBSET DOMAIN bs, \A b \in T : Open(bs, b)
  PROVE  Changes(bs, bs, T, T)
BY DEF Changes

\* The blocks of T have no tail, and no block is the last of the program.
Tidy(bs, T) ==
  /\ bs \in Seq(Block) /\ \A b \in DOMAIN bs : ~bs[b].final
  /\ T \subseteq DOMAIN bs /\ \A b \in T : Open(bs, b)

\* Block c is x now.
Put(bs, c, x) == [bs EXCEPT ![c] = x]

\* A step gives block c more instructions; n results wait on it.
Filled(bs, bs2, c, n) == \E x : bs2 = Put(bs, c, x) /\ Fills(x, bs[c], n)

LEMMA FillChanges ==
  ASSUME NEW bs, NEW T, Tidy(bs, T), NEW c, c \in T, NEW n, NEW bs2, Filled(bs, bs2, c, n)
  PROVE  /\ Changes(bs, bs2, T, T)
         /\ Len(bs2) = Len(bs) /\ Len(bs2[c].stack) = n
<1>0. /\ bs \in Seq(Block) /\ \A b \in DOMAIN bs : ~bs[b].final
      /\ T \subseteq DOMAIN bs /\ \A b \in T : Open(bs, b)
  BY DEF Tidy
<1>6. PICK x : bs2 = Put(bs, c, x) /\ Fills(x, bs[c], n)
  BY DEF Filled
<1>1. x \in Block /\ x.tail = bs[c].tail /\ x.final = bs[c].final /\ Len(x.stack) = n
  BY <1>6 DEF Fills
<1>2. /\ bs2 \in Seq(Block) /\ Len(bs2) = Len(bs) /\ DOMAIN bs2 = DOMAIN bs
      /\ bs2[c] = x /\ \A b \in DOMAIN bs \ {c} : bs2[b] = bs[b]
  BY <1>0, <1>1, <1>6 DEF Put
<1>3. \A b \in DOMAIN bs2 : ~bs2[b].final
  BY <1>0, <1>1, <1>2
<1>4. \A b \in T : Open(bs2, b)
  BY <1>0, <1>1, <1>2 DEF Open
<1>5. Changes(bs, bs2, T, T)
  BY <1>0, <1>2, <1>3, <1>4 DEF Changes
<1> QED
  BY <1>1, <1>2, <1>5

\* A block gets its tail by itself, without a block it leads to.
LEMMA SealChanges ==
  ASSUME NEW bs \in Seq(Block), \A b \in DOMAIN bs : ~bs[b].final,
         NEW T \in SUBSET DOMAIN bs, \A b \in T : Open(bs, b),
         NEW c \in T, NEW x \in Block, x.tail.type # "open", x.final = bs[c].final
  PROVE  Changes(bs, Put(bs, c, x), T, T \ {c})
<1> DEFINE bs2 == Put(bs, c, x)
<1>1. /\ bs2 \in Seq(Block) /\ Len(bs2) = Len(bs) /\ DOMAIN bs2 = DOMAIN bs
      /\ bs2[c] = x /\ \A b \in DOMAIN bs \ {c} : bs2[b] = bs[b]
  BY DEF Put
<1> HIDE DEF bs2
<1>2. \A b \in DOMAIN bs2 : ~bs2[b].final
  BY <1>1
<1>3. \A b \in T : Open(bs2, b) <=> b \in T \ {c}
  BY <1>1 DEF Open
<1>4. Changes(bs, bs2, T, T \ {c})
  BY <1>1, <1>2, <1>3 DEF Changes
<1> QED
  BY <1>4 DEF bs2

-----------------------------------------------------------------------------
(* Steps that only fill the current block.                                 *)

\* The current block.
LEMMA CurReady ==
  ASSUME NEW bs, NEW c, NEW fs, NEW a, NEW h, Ready(bs, c, fs, a, h), c # NoBlock
  PROVE  /\ bs \in Seq(Block) /\ fs \in Seq(Frames) /\ Len(bs) \in Nat
         /\ \A b \in DOMAIN bs : ~bs[b].final
         /\ c \in DOMAIN bs /\ c \in 1 .. Len(bs) /\ bs[c] \in Block
         /\ Only(c) = {c} /\ Only(c) \subseteq DOMAIN bs
         /\ \A b \in Only(c) : Open(bs, b)
         /\ Tidy(bs, Only(c))
         /\ Len(bs[c].stack) = h[Len(fs)] /\ h[Len(fs)] \in Nat
<1>1. /\ bs \in Seq(Block) /\ fs \in Seq(Frames) /\ Len(bs) \in Nat /\ Len(fs) \in Nat
      /\ \A b \in DOMAIN bs : ~bs[b].final
      /\ c \in DOMAIN bs /\ c \in 1 .. Len(bs)
  BY DEF Ready, Shape, NoBlock
<1>2. Only(c) = {c}
  BY DEF Only
<1>3. Open(bs, c)
  BY <1>1 DEF Ready, Shape, Held
<1>4. Len(bs[c].stack) = h[Len(fs)] /\ h[Len(fs)] \in Nat
  BY <1>1 DEF Ready, Levels
<1>5. Tidy(bs, Only(c))
  BY <1>1, <1>2, <1>3 DEF Tidy
<1> QED
  BY <1>1, <1>2, <1>3, <1>4, <1>5

LEMMA FillStay ==
  ASSUME NEW bs, NEW c, NEW fs, NEW a, NEW h, Ready(bs, c, fs, a, h), c # NoBlock,
         NEW bs2, Filled(bs, bs2, c, Len(bs[c].stack)),
         NEW a2, a2 \in Between => a \in Between
  PROVE  EndsWell(bs, bs2, c, fs, a2)
<1> DEFINE T == Only(c)
           n == Len(bs[c].stack)
<1>7. c \in T /\ Tidy(bs, T)
  BY CurReady
<1>1. /\ bs \in Seq(Block) /\ Len(bs) \in Nat
      /\ n = h[Len(fs)] /\ c \in 0 .. Len(bs)
  BY CurReady
<1>0. Filled(bs, bs2, c, n)
  OBVIOUS
<1> HIDE DEF T, n
<1>2. Changes(bs, bs2, T, T) /\ Len(bs2) = Len(bs) /\ Len(bs2[c].stack) = n
  BY <1>0, <1>7, FillChanges
<1> QED
  BY <1>1, <1>2, StayReady DEF T

\* Calls that hold no block.
Light == {"block", "while", "define", "let", "discard", "if", "return", "set", "compound",
          "linear", "instanceof", "element", "target", "update", "tcond"}

LEMMA LightPending ==
  ASSUME NEW f, f.k \in Light
  PROVE  Pending(f) = {}
BY PendingIs DEF Light

LEMMA FillEnter ==
  ASSUME NEW bs, NEW c, NEW fs, NEW a, NEW h, Ready(bs, c, fs, a, h), c # NoBlock,
         NEW f \in Frames, f.k \in Light, FrameOK(Len(bs), f), Pushed(f) \in Nat,
         f.k \in Roots => a \in Between,
         NEW bs2, Filled(bs, bs2, c, Len(bs[c].stack) + Pushed(f)),
         NEW a2, a2 \notin Between
  PROVE  EndsWell(bs, bs2, c, Append(fs, f), a2)
<1> DEFINE T == Only(c)
           n == Len(bs[c].stack) + Pushed(f)
<1>7. c \in T /\ Tidy(bs, T)
  BY CurReady
<1>1. /\ bs \in Seq(Block) /\ Len(bs) \in Nat
      /\ n = h[Len(fs)] + Pushed(f) /\ c \in 0 .. Len(bs)
  BY CurReady
<1>0. Filled(bs, bs2, c, n)
  OBVIOUS
<1> HIDE DEF T, n
<1>2. Changes(bs, bs2, T, T) /\ Len(bs2) = Len(bs) /\ Len(bs2[c].stack) = n
  BY <1>0, <1>7, FillChanges
<1>3. Pending(f) = {} /\ Top(c, f) = T
  BY LightPending DEF Top, T
<1> QED
  BY <1>1, <1>2, <1>3, EnterReady DEF T

LEMMA FillLeave ==
  ASSUME NEW bs, NEW c, NEW fs, NEW a, NEW h, Ready(bs, c, fs, a, h), c # NoBlock,
         fs # <<>>, fs[Len(fs)].k \in Light,
         NEW n \in Nat, NEW bs2, Filled(bs, bs2, c, n),
         Len(bs[c].stack) = n + Pushed(fs[Len(fs)]), Pushed(fs[Len(fs)]) \in Nat,
         NEW a2, a2 \in Between => fs[Len(fs)].k \in Roots
  PROVE  EndsWell(bs, bs2, c, SubSeq(fs, 1, Len(fs) - 1), a2)
<1> DEFINE T == Only(c)
           t == fs[Len(fs)]
           g == h[Len(fs) - 1]
<1>7. c \in T /\ Tidy(bs, T)
  BY CurReady
<1>1. /\ bs \in Seq(Block) /\ Len(bs) \in Nat
      /\ c \in 0 .. Len(bs)
  BY CurReady
<1>2. Len(bs[c].stack) = g + Pushed(t) /\ g \in Nat
  BY TopReady
<1>3. n = g
  <2> HIDE DEF g, t
  <2> QED
    BY <1>2 DEF t
<1> HIDE DEF T, g
<1>4. Changes(bs, bs2, T, T) /\ Len(bs2) = Len(bs) /\ Len(bs2[c].stack) = n
  BY <1>7, FillChanges
<1>5. Top(c, t) = T
  BY LightPending DEF Top, T
<1> HIDE DEF t
<1> QED
  BY <1>1, <1>3, <1>4, <1>5, LeaveReady DEF T, t, g

LEMMA FillSwap ==
  ASSUME NEW bs, NEW c, NEW fs, NEW a, NEW h, Ready(bs, c, fs, a, h), c # NoBlock,
         fs # <<>>, fs[Len(fs)].k \in Light,
         NEW f \in Frames, f.k \in Light \ Roots, FrameOK(Len(bs), f), Pushed(f) \in Nat,
         NEW n \in Nat, NEW bs2, Filled(bs, bs2, c, n + Pushed(f)),
         Len(bs[c].stack) = n + Pushed(fs[Len(fs)]), Pushed(fs[Len(fs)]) \in Nat,
         NEW a2, a2 \notin Between
  PROVE  EndsWell(bs, bs2, c, Append(SubSeq(fs, 1, Len(fs) - 1), f), a2)
<1> DEFINE T == Only(c)
           t == fs[Len(fs)]
           g == h[Len(fs) - 1]
           m == n + Pushed(f)
<1>7. c \in T /\ Tidy(bs, T)
  BY CurReady
<1>1. /\ bs \in Seq(Block) /\ Len(bs) \in Nat
      /\ c \in 0 .. Len(bs)
  BY CurReady
<1>2. Len(bs[c].stack) = g + Pushed(t) /\ g \in Nat
  BY TopReady
<1>3. n = g
  <2> HIDE DEF g, t
  <2> QED
    BY <1>2 DEF t
<1>0. Filled(bs, bs2, c, m)
  OBVIOUS
<1> HIDE DEF T, g, m
<1>4. Changes(bs, bs2, T, T) /\ Len(bs2) = Len(bs) /\ Len(bs2[c].stack) = m
  BY <1>0, <1>7, FillChanges
<1>5. Top(c, t) = T /\ Top(c, f) = T /\ Pending(f) = {}
  BY LightPending DEF Top, T
<1>6. m = g + Pushed(f)
  BY <1>3 DEF m
<1> HIDE DEF t
<1> QED
  BY <1>1, <1>4, <1>5, <1>6, SwapReady DEF T, t, g

\* The current block as a step leaves it.
LEMMA FilledBy ==
  ASSUME NEW bs, NEW c, NEW x, NEW n, Fills(x, bs[c], n), NEW bs2, bs2 = [bs EXCEPT ![c] = x]
  PROVE  Filled(bs, bs2, c, n)
BY DEF Filled, Put

LEMMA FilledNot ==
  ASSUME NEW bs, NEW c, NEW fs, NEW a, NEW h, Ready(bs, c, fs, a, h), c # NoBlock
  PROVE  Filled(bs, bs, c, Len(bs[c].stack))
<1>1. bs \in Seq(Block) /\ c \in DOMAIN bs /\ bs[c] \in Block
  BY CurReady
<1>2. Fills(bs[c], bs[c], Len(bs[c].stack))
  BY <1>1 DEF Fills
<1>3. bs = [bs EXCEPT ![c] = bs[c]]
  BY <1>1
<1> QED
  BY <1>2, <1>3, FilledBy

-----------------------------------------------------------------------------
(* Steps that note something in a call that waits.                         *)

\* Call i is f now, and holds what it held, or the current block too.
LEMMA KeepShape ==
  ASSUME NEW bs, NEW c, NEW fs, Shape(bs, c, fs),
         NEW i \in DOMAIN fs, NEW f \in Frames, FrameOK(Len(bs), f),
         NEW c2,
         \/ c2 = c /\ \A b : b \in Pending(f) <=> b \in Pending(fs[i])
         \/ /\ c2 = NoBlock /\ c # NoBlock
            /\ \A b : b \in Pending(f) <=> b \in Pending(fs[i]) \/ b = c
  PROVE  Shape(bs, c2, [fs EXCEPT ![i] = f])
<1> DEFINE fs2 == [fs EXCEPT ![i] = f]
<1>1. /\ fs \in Seq(Frames) /\ bs \in Seq(Block) /\ Len(bs) \in Nat /\ c \in 0 .. Len(bs)
      /\ \A j \in DOMAIN fs : FrameOK(Len(bs), fs[j]) /\ c \notin Pending(fs[j])
      /\ \A j, k \in DOMAIN fs : j # k => Pending(fs[j]) \cap Pending(fs[k]) = {}
      /\ \A b \in DOMAIN bs : Open(bs, b) <=> b \in Held(c, fs, 0)
  BY DEF Shape
<1>2. /\ fs2 \in Seq(Frames) /\ DOMAIN fs2 = DOMAIN fs /\ fs2[i] = f
      /\ \A j \in DOMAIN fs : j # i => fs2[j] = fs[j]
      /\ Len(fs2) = Len(fs)
  BY <1>1
<1>3. c2 \in 0 .. Len(bs)
  BY <1>1 DEF NoBlock
<1> HIDE DEF fs2
<1>4. \A j \in DOMAIN fs2 : FrameOK(Len(bs), fs2[j])
  BY <1>1, <1>2
<1>5. \A j \in DOMAIN fs2 : NoBlock \notin Pending(fs2[j])
  BY DEF Pending
<1>6. \A j \in DOMAIN fs2 : c2 \notin Pending(fs2[j])
  BY <1>1, <1>2, <1>5
<1>7. \A j, k \in DOMAIN fs2 : j # k => Pending(fs2[j]) \cap Pending(fs2[k]) = {}
  <2> SUFFICES ASSUME NEW j \in DOMAIN fs2, NEW k \in DOMAIN fs2, j # k, NEW b,
                      b \in Pending(fs2[j]), b \in Pending(fs2[k])
               PROVE  FALSE
    OBVIOUS
  <2>1. CASE j = i
    BY <1>1, <1>2, <2>1
  <2>2. CASE k = i
    BY <1>1, <1>2, <2>2
  <2>3. CASE j # i /\ k # i
    BY <1>1, <1>2, <2>3
  <2> QED
    BY <2>1, <2>2, <2>3
<1>8. \A b \in DOMAIN bs : b \in Held(c2, fs2, 0) <=> b \in Held(c, fs, 0)
  <2> SUFFICES ASSUME NEW b \in DOMAIN bs
               PROVE  b \in Held(c2, fs2, 0) <=> b \in Held(c, fs, 0)
    OBVIOUS
  <2>1. 0 + 1 .. Len(fs2) = DOMAIN fs2 /\ 0 + 1 .. Len(fs) = DOMAIN fs
    BY <1>1, <1>2
  <2>2. b \in Held(c, fs, 0) <=> (b = c /\ c # NoBlock) \/ \E j \in DOMAIN fs : b \in Pending(fs[j])
    BY <2>1 DEF Held
  <2>3. b \in Held(c2, fs2, 0)
          <=> (b = c2 /\ c2 # NoBlock) \/ \E j \in DOMAIN fs2 : b \in Pending(fs2[j])
    BY <2>1 DEF Held
  <2>4. (\E j \in DOMAIN fs2 : b \in Pending(fs2[j])) <=>
          (\E j \in DOMAIN fs : j # i /\ b \in Pending(fs[j])) \/ b \in Pending(f)
    BY <1>2
  <2>5. (\E j \in DOMAIN fs : b \in Pending(fs[j])) <=>
          (\E j \in DOMAIN fs : j # i /\ b \in Pending(fs[j])) \/ b \in Pending(fs[i])
    OBVIOUS
  <2>6. b # NoBlock
    BY <1>1 DEF NoBlock
  <2> QED
    BY <2>2, <2>3, <2>4, <2>5, <2>6
<1>9. Shape(bs, c2, fs2)
  BY <1>1, <1>2, <1>3, <1>4, <1>6, <1>7, <1>8 DEF Shape
<1> QED
  BY <1>9 DEF fs2

LEMMA KeepReady ==
  ASSUME NEW bs, NEW c, NEW fs, NEW h, Ready(bs, c, fs, "stmt", h),
         NEW i \in DOMAIN fs, NEW f \in Frames, FrameOK(Len(bs), f),
         f.k = fs[i].k, f.k = "do",
         NEW c2,
         \/ c2 = c /\ \A b : b \in Pending(f) <=> b \in Pending(fs[i])
         \/ /\ c2 = NoBlock /\ c # NoBlock
            /\ \A b : b \in Pending(f) <=> b \in Pending(fs[i]) \/ b = c
  PROVE  Ready(bs, c2, [fs EXCEPT ![i] = f], "stmt", h)
<1> DEFINE fs2 == [fs EXCEPT ![i] = f]
<1>1. Shape(bs, c2, fs2)
  BY KeepShape DEF Ready
<1>2. /\ fs \in Seq(Frames) /\ Len(fs) \in Nat
      /\ h \in [0 .. Len(fs) -> Nat] /\ h[0] = 0
      /\ \A j \in 0 .. Len(fs) : h[j] = 0
      /\ \A j \in DOMAIN fs : h[j] = h[j - 1] + Pushed(fs[j])
      /\ \A j \in DOMAIN fs : fs[j].k \in Roots => \A k \in 0 .. j - 1 : h[k] = 0
      /\ \A j \in DOMAIN fs : \A b \in Pending(fs[j]) :
           Len(bs[b].stack) = IF fs[j].k \in {"tfirst", "tsecond"} THEN h[j - 1] ELSE 0
      /\ c # NoBlock => Len(bs[c].stack) = h[Len(fs)]
  BY DEF Ready, Shape, Levels, Between
<1>3. /\ fs2 \in Seq(Frames) /\ DOMAIN fs2 = DOMAIN fs /\ fs2[i] = f
      /\ \A j \in DOMAIN fs : j # i => fs2[j] = fs[j]
      /\ Len(fs2) = Len(fs)
  BY <1>2
<1>4. c # NoBlock => Len(bs[c].stack) = 0
  <2>1. Len(fs) \in 0 .. Len(fs)
    BY <1>2
  <2> QED
    BY <1>2, <2>1
<1>5. c2 # NoBlock => Len(bs[c2].stack) = h[Len(fs2)]
  BY <1>2, <1>3
<1> HIDE DEF fs2
<1>6. \A j \in DOMAIN fs2 : fs2[j].k = fs[j].k /\ Pushed(fs2[j]) = Pushed(fs[j])
  <2>1. Pushed(f) = 0 /\ Pushed(fs[i]) = 0
    BY DEF Pushed
  <2> QED
    BY <1>3, <2>1
<1>7. \A j \in DOMAIN fs2 : h[j] = h[j - 1] + Pushed(fs2[j])
  BY <1>2, <1>3, <1>6
<1>8. \A j \in DOMAIN fs2 : fs2[j].k \in Roots => \A k \in 0 .. j - 1 : h[k] = 0
  BY <1>2, <1>3, <1>6
<1>9. \A j \in DOMAIN fs2 : \A b \in Pending(fs2[j]) :
        Len(bs[b].stack) = IF fs2[j].k \in {"tfirst", "tsecond"} THEN h[j - 1] ELSE 0
  <2> SUFFICES ASSUME NEW j \in DOMAIN fs2, NEW b \in Pending(fs2[j])
               PROVE  Len(bs[b].stack)
                        = IF fs2[j].k \in {"tfirst", "tsecond"} THEN h[j - 1] ELSE 0
    OBVIOUS
  <2>1. CASE j = i
    <3>1. b \in Pending(fs[i]) \/ (b = c /\ c # NoBlock)
      BY <1>3, <2>1
    <3> QED
      BY <1>2, <1>3, <1>4, <2>1, <3>1
  <2>2. CASE j # i
    BY <1>2, <1>3, <2>2
  <2> QED
    BY <2>1, <2>2
<1>10. Levels(bs, c2, fs2, h)
  BY <1>2, <1>3, <1>5, <1>7, <1>8, <1>9 DEF Levels
<1>11. "stmt" \notin Filling
  BY DEF Filling
<1>12. Ready(bs, c2, fs2, "stmt", h)
  BY <1>1, <1>2, <1>3, <1>10, <1>11 DEF Ready
<1> QED
  BY <1>12 DEF fs2

LEMMA TriggerFrame ==
  ASSUME NEW n \in Nat, NEW f \in Frames, FrameOK(n, f), f.k = "do", NEW c \in 1 .. n
  PROVE  LET g == LoopTrigger(f, c)
         IN /\ g \in Frames /\ FrameOK(n, g) /\ g.k = "do"
            /\ \A b : b \in Pending(g) <=> b \in Pending(f)
<1> DEFINE g == LoopTrigger(f, c)
<1>1. /\ f.ctx \in 1 .. n /\ f.oth \in 1 .. n /\ f.par \in 1 .. n /\ f.prev \in 1 .. n
      /\ f.brk \in Seq(1 .. n) /\ f.cont \in Seq(1 .. n)
      /\ Blocks(f.brk) \cap Blocks(f.cont) = {}
  BY DEF FrameOK
<1>2. /\ g \in Frames /\ g.k = "do" /\ g.oth = f.oth /\ g.par = f.par
      /\ g.brk = f.brk /\ g.cont = f.cont
      /\ g.ctx \in 1 .. n /\ g.prev \in 1 .. n
  <2>1. CASE f.done
    BY <1>1, <2>1 DEF LoopTrigger
  <2>2. CASE ~f.done /\ f.cont # <<>>
    <3>1. g = [f EXCEPT !.ctx = f.prev, !.done = TRUE]
      BY <2>2 DEF LoopTrigger
    <3> HIDE DEF g
    <3> QED
      BY <1>1, <3>1 DEF Frames, FrameKinds
  <2>3. CASE ~f.done /\ f.cont = <<>>
    <3>1. g = [f EXCEPT !.prev = c] /\ c \in Nat
      BY <2>3 DEF LoopTrigger
    <3> HIDE DEF g
    <3>2. g \in Frames
      BY <3>1 DEF Frames
    <3>3. /\ g.k = f.k /\ g.oth = f.oth /\ g.par = f.par
          /\ g.brk = f.brk /\ g.cont = f.cont /\ g.ctx = f.ctx /\ g.prev = c
      BY <3>1 DEF Frames
    <3> QED
      BY <1>1, <3>2, <3>3
  <2> QED
    BY <2>1, <2>2, <2>3
<1> HIDE DEF g
<1>3. FrameOK(n, g)
  BY <1>1, <1>2 DEF FrameOK
<1>4. Pending(g) = Pending(f)
  BY <1>2 DEF Pending
<1> QED
  BY <1>2, <1>3, <1>4 DEF g

\* The end of a statement.
LEMMA DoneReady ==
  ASSUME NEW bs, NEW bs2, NEW c2, NEW fs2, EndsWell(bs, bs2, c2, fs2, "stmt"),
         NEW fs3, fs3 = IF fs2 # <<>> /\ fs2[Len(fs2)].k = "do" /\ c2 # NoBlock
                          THEN [fs2 EXCEPT ![Len(fs2)] = LoopTrigger(fs2[Len(fs2)], c2)] ELSE fs2
  PROVE  EndsWell(bs, bs2, c2, fs3, "stmt")
<1>1. PICK h : Ready(bs2, c2, fs2, "stmt", h)
  BY DEF EndsWell
<1>2. CASE fs2 # <<>> /\ fs2[Len(fs2)].k = "do" /\ c2 # NoBlock
  <2> DEFINE i == Len(fs2)
             f == fs2[i]
             g == LoopTrigger(f, c2)
  <2>1. /\ fs2 \in Seq(Frames) /\ bs2 \in Seq(Block) /\ Len(bs2) \in Nat
        /\ c2 \in 0 .. Len(bs2) /\ \A j \in DOMAIN fs2 : FrameOK(Len(bs2), fs2[j])
    BY <1>1 DEF Ready, Shape
  <2>2. i \in DOMAIN fs2 /\ f \in Frames /\ FrameOK(Len(bs2), f) /\ f.k = "do"
        /\ c2 \in 1 .. Len(bs2)
    BY <1>2, <2>1 DEF NoBlock
  <2> HIDE DEF f
  <2>3. /\ g \in Frames /\ FrameOK(Len(bs2), g) /\ g.k = "do"
        /\ \A b : b \in Pending(g) <=> b \in Pending(f)
    BY <2>1, <2>2, TriggerFrame
  <2> HIDE DEF g, i
  <2>4. /\ g.k = fs2[i].k /\ \A b : b \in Pending(g) <=> b \in Pending(fs2[i])
    BY <2>2, <2>3 DEF f
  <2>5. Ready(bs2, c2, [fs2 EXCEPT ![i] = g], "stmt", h)
    BY <1>1, <2>2, <2>3, <2>4, KeepReady
  <2>6. fs3 = [fs2 EXCEPT ![i] = g]
    BY <1>2 DEF g, f, i
  <2> QED
    BY <2>5, <2>6 DEF EndsWell
<1>3. CASE ~(fs2 # <<>> /\ fs2[Len(fs2)].k = "do" /\ c2 # NoBlock)
  <2>1. fs3 = fs2
    BY <1>3
  <2> QED
    BY <2>1
<1> QED
  BY <1>2, <1>3

-----------------------------------------------------------------------------
(* The steps.                                                              *)

\* What a step leaves behind.
Well == EndsWell(blocks, blocks', cur', frames', at')

\* A step either ends well or ends the compilation.
Outcome ==
  \/ Well
  \/ /\ UNCHANGED <<blocks, cur, frames, at>>
     /\ status' \in {"missing", "rejected", "crashed"}

LEMMA DoneWell ==
  ASSUME NEW fs2, NEW c2, NEW bs2, Done(fs2, c2, bs2), EndsWell(blocks, bs2, c2, fs2, "stmt")
  PROVE  Well
<1> DEFINE fs3 == IF fs2 # <<>> /\ fs2[Len(fs2)].k = "do" /\ c2 # NoBlock
                    THEN [fs2 EXCEPT ![Len(fs2)] = LoopTrigger(fs2[Len(fs2)], c2)] ELSE fs2
<1>1. frames' = fs3 /\ cur' = c2 /\ at' = "stmt" /\ blocks' = bs2
  BY DEF Done, Produce
<1>2. fs3 = IF fs2 # <<>> /\ fs2[Len(fs2)].k = "do" /\ c2 # NoBlock
              THEN [fs2 EXCEPT ![Len(fs2)] = LoopTrigger(fs2[Len(fs2)], c2)] ELSE fs2
  OBVIOUS
<1> HIDE DEF fs3
<1>3. EndsWell(blocks, bs2, c2, fs3, "stmt")
  BY <1>2, DoneReady
<1> QED
  BY <1>1, <1>3 DEF Well

\* A new call.
LEMMA FrameType ==
  ASSUME scope \in Seq(Nat), NEW k \in FrameKinds
  PROVE  Frame(k) \in Frames /\ Frame(k).k = k
BY DEF Frame, Frames

LEMMA FrameSym ==
  ASSUME scope \in Seq(Nat), NEW k \in FrameKinds, NEW s \in Nat
  PROVE  LET f == [Frame(k) EXCEPT !.sym = s]
         IN f \in Frames /\ f.k = k
<1> DEFINE F == Frame(k)
<1>1. F \in Frames /\ F.k = k
  BY FrameType
<1> HIDE DEF F
<1>2. LET f == [F EXCEPT !.sym = s]
      IN f \in Frames /\ f.k = k
  BY <1>1 DEF Frames
<1> QED
  BY <1>2 DEF F

LEMMA FrameCount ==
  ASSUME scope \in Seq(Nat), NEW k \in FrameKinds, NEW n \in Nat
  PROVE  LET f == [Frame(k) EXCEPT !.n = n, !.oth = n]
         IN f \in Frames /\ f.k = k /\ f.n = n /\ f.oth = n
<1> DEFINE F == Frame(k)
<1>1. F \in Frames /\ F.k = k
  BY FrameType
<1> HIDE DEF F
<1>2. LET f == [F EXCEPT !.n = n, !.oth = n]
      IN f \in Frames /\ f.k = k /\ f.n = n /\ f.oth = n
  BY <1>1 DEF Frames
<1> QED
  BY <1>2 DEF F

\* A call that waits, and nothing else but what it has put on the stack.
LEMMA Entered ==
  ASSUME NEW h, Ready(blocks, cur, frames, at, h), cur # NoBlock,
         NEW f \in Frames, f.k \in Light, FrameOK(Len(blocks), f), Pushed(f) \in Nat,
         f.k \in Roots => at \in Between, at' = "expr",
         frames' = Append(frames, f), cur' = cur,
         Filled(blocks, blocks', cur, Len(blocks[cur].stack) + Pushed(f))
  PROVE  Well
<1>1. "expr" \notin Between
  BY DEF Between
<1>2. EndsWell(blocks, blocks', cur, Append(frames, f), "expr")
  BY <1>1, FillEnter
<1> QED
  BY <1>2 DEF Well

\* What a step that fills the current block finds there.
LEMMA CurFacts ==
  ASSUME NEW h, Ready(blocks, cur, frames, at, h), cur # NoBlock
  PROVE  /\ blocks \in Seq(Block) /\ cur \in DOMAIN blocks /\ cur \in 1 .. Len(blocks)
         /\ blocks[cur] \in Block /\ LastInstruction(blocks[cur]) \in Int
         /\ frames \in Seq(Frames) /\ Len(blocks) \in Nat
         /\ Filled(blocks, blocks, cur, Len(blocks[cur].stack))
         /\ Len(blocks[cur].stack) \in Nat
<1>1. /\ blocks \in Seq(Block) /\ cur \in DOMAIN blocks /\ cur \in 1 .. Len(blocks)
      /\ blocks[cur] \in Block /\ frames \in Seq(Frames) /\ Len(blocks) \in Nat
  BY CurReady
<1>2. LastInstruction(blocks[cur]) \in Int
  BY <1>1, ParamCountNat
<1>3. Filled(blocks, blocks, cur, Len(blocks[cur].stack))
  BY FilledNot
<1>4. Len(blocks[cur].stack) \in Nat
  BY <1>1, StackInt
<1> QED
  BY <1>1, <1>2, <1>3, <1>4

LEMMA TopFacts ==
  ASSUME NEW h, Ready(blocks, cur, frames, at, h), at = "value", frames # <<>>
  PROVE  /\ cur # NoBlock /\ top \in Frames /\ FrameOK(Len(blocks), top)
         /\ h[Len(frames) - 1] \in Nat
         /\ Len(blocks[cur].stack) = h[Len(frames) - 1] + Pushed(top)
<1>1. cur # NoBlock
  BY DEF Ready, Filling
<1> QED
  BY <1>1, TopReady DEF top

LEMMA ModesApart ==
  /\ "expr" \notin Between /\ "value" \notin Between /\ "stmt" \in Between
  /\ "defining" \in Between /\ "letting" \in Between
  /\ "stmt" \notin Filling
  /\ "expr" \in Filling /\ "value" \in Filling /\ "defining" \in Filling /\ "letting" \in Filling
BY DEF Between, Filling

\* Calls with no operands to count.
Plain == {"define", "let", "discard", "if", "return", "set", "instanceof", "tcond"}

LEMMA PlainFrame ==
  ASSUME NEW f, f.k \in Plain, NEW n
  PROVE  f.k \in Light /\ FrameOK(n, f) /\ Pushed(f) = 0
BY DEF Plain, Light, FrameOK, Pushed

LEMMA Waiting0 ==
  ASSUME NEW h, Ready(blocks, cur, frames, at, h), cur # NoBlock,
         NEW f \in Frames, f.k \in Light, FrameOK(Len(blocks), f), Pushed(f) = 0,
         f.k \in Roots => at \in Between, at' = "expr",
         Enter(f), UNCHANGED <<blocks, cur>>
  PROVE  Well
<1>1. Filled(blocks, blocks', cur, Len(blocks[cur].stack) + Pushed(f))
  <2>1. Len(blocks[cur].stack) + Pushed(f) = Len(blocks[cur].stack)
    BY CurFacts
  <2> QED
    BY <2>1, CurFacts
<1> QED
  BY <1>1, Entered DEF Enter

\* FillLeave and FillSwap for the topmost call.
LEMMA Left ==
  ASSUME NEW h, Ready(blocks, cur, frames, at, h), cur # NoBlock, frames # <<>>,
         top.k \in Light, Pushed(top) \in Nat,
         NEW n \in Nat, NEW bs2, Filled(blocks, bs2, cur, n),
         Len(blocks[cur].stack) = n + Pushed(top),
         NEW a2, a2 \in Between => top.k \in Roots
  PROVE  EndsWell(blocks, bs2, cur, Below, a2)
BY FillLeave DEF top, Below

LEMMA Swapped ==
  ASSUME NEW h, Ready(blocks, cur, frames, at, h), cur # NoBlock, frames # <<>>,
         top.k \in Light, Pushed(top) \in Nat,
         NEW f \in Frames, f.k \in Light \ Roots, FrameOK(Len(blocks), f), Pushed(f) \in Nat,
         NEW n \in Nat, NEW bs2, Filled(blocks, bs2, cur, n + Pushed(f)),
         Len(blocks[cur].stack) = n + Pushed(top),
         NEW a2, a2 \notin Between
  PROVE  EndsWell(blocks, bs2, cur, Append(Below, f), a2)
BY FillSwap DEF top, Below

LEMMA ClauseWell ==
  ASSUME NEW fs, NEW kind, NEW more, NEW bs2, AfterClause(fs, kind, more, cur, bs2),
         EndsWell(blocks, bs2, cur, fs, "stmt"), EndsWell(blocks, bs2, cur, fs, kind)
  PROVE  Well
<1>1. CASE more
  BY <1>1 DEF AfterClause, Produce, Well
<1>2. CASE ~more
  BY <1>2, DoneWell DEF AfterClause
<1> QED
  BY <1>1, <1>2

LEMMA DefineBareWell ==
  ASSUME NEW h, Ready(blocks, cur, frames, at, h), symbols \in Nat,
         NEW more, DefineBare(more)
  PROVE  Well
<1> DEFINE x == AddSymbol(blocks[cur], symbols', FALSE, 0)
           bs2 == [blocks EXCEPT ![cur] = x]
<1>1. /\ cur # NoBlock /\ at \in Between /\ symbols' \in Nat
      /\ AfterClause(frames, "defining", more, cur, bs2)
  BY DEF DefineBare, StartsClause, Between
<1>2. blocks[cur] \in Block /\ 0 \in Int /\ FALSE \in BOOLEAN
  BY <1>1, CurFacts
<1>5. Fills(x, blocks[cur], Len(blocks[cur].stack))
  BY <1>1, <1>2, SymbolFills
<1> HIDE DEF x
<1>3. Filled(blocks, bs2, cur, Len(blocks[cur].stack))
  BY <1>5, FilledBy
<1> HIDE DEF bs2
<1>4. /\ EndsWell(blocks, bs2, cur, frames, "stmt")
      /\ EndsWell(blocks, bs2, cur, frames, "defining")
  BY <1>1, <1>3, FillStay
<1> QED
  BY <1>1, <1>4, ClauseWell

LEMMA EndClauseWell ==
  ASSUME NEW h, Ready(blocks, cur, frames, at, h),
         NEW k \in {"define", "let"}, NEW mode, NEW more, EndClause(k, mode, more)
  PROVE  Well
<1> DEFINE x == AddSymbol(blocks[cur], top.sym, TRUE, LastInstruction(blocks[cur]))
           bs2 == [blocks EXCEPT ![cur] = x]
           n == Len(blocks[cur].stack)
<1>1. /\ at = "value" /\ frames # <<>> /\ top.k \in Plain /\ top.k \in Roots
      /\ AfterClause(Below, mode, more, cur, bs2)
  BY DEF EndClause, Returned, Waiting, Plain, Roots
<1>2. cur # NoBlock /\ top \in Frames
  BY <1>1, TopFacts
<1>3. top.sym \in Nat
  BY <1>2 DEF Frames
<1>4. Fills(x, blocks[cur], n)
  BY <1>2, <1>3, CurFacts, SymbolFills
<1> HIDE DEF x
<1>5. Filled(blocks, bs2, cur, n)
  BY <1>4, FilledBy
<1>6. top.k \in Light /\ Pushed(top) = 0
  BY <1>1, PlainFrame
<1>8. n \in Nat /\ Pushed(top) \in Nat /\ n = n + Pushed(top)
  BY <1>2, <1>6, CurFacts
<1> HIDE DEF bs2
<1>7. \A a2 : EndsWell(blocks, bs2, cur, Below, a2)
  <2> TAKE a2
  <2> QED
    BY <1>1, <1>2, <1>5, <1>6, <1>8, Left DEF n
<1> QED
  BY <1>1, <1>7, ClauseWell

LEMMA DefineValueWell ==
  ASSUME NEW h, Ready(blocks, cur, frames, at, h), symbols \in Nat, scope \in Seq(Nat),
         DefineValue \/ Let
  PROVE  Well
<1>1. PICK k \in {"define", "let"} :
        /\ cur # NoBlock /\ at \in Between /\ symbols' \in Nat /\ at' = "expr"
        /\ Enter([Frame(k) EXCEPT !.sym = symbols']) /\ UNCHANGED <<blocks, cur>>
  <2>1. CASE DefineValue
    <3>1. /\ cur # NoBlock /\ at \in Between /\ symbols' \in Nat /\ at' = "expr"
          /\ Enter([Frame("define") EXCEPT !.sym = symbols']) /\ UNCHANGED <<blocks, cur>>
      BY <2>1 DEF DefineValue, StartsClause, Between
    <3> QED
      BY <3>1
  <2>2. CASE Let
    <3>1. /\ cur # NoBlock /\ at \in Between /\ symbols' \in Nat /\ at' = "expr"
          /\ Enter([Frame("let") EXCEPT !.sym = symbols']) /\ UNCHANGED <<blocks, cur>>
      BY <2>2 DEF Let, StartsClause, Between
    <3> QED
      BY <3>1
  <2> QED
    BY <2>1, <2>2
<1> DEFINE f == [Frame(k) EXCEPT !.sym = symbols']
<1>2. k \in FrameKinds /\ k \in Plain
  BY DEF FrameKinds, Plain
<1>3. f \in Frames /\ f.k = k /\ Enter(f)
  BY <1>1, <1>2, FrameSym
<1> HIDE DEF f
<1>4. f.k \in Plain
  BY <1>2, <1>3
<1>5. f.k \in Light /\ FrameOK(Len(blocks), f) /\ Pushed(f) = 0
  BY <1>4, PlainFrame
<1> QED
  BY <1>1, <1>3, <1>5, Waiting0

LEMMA WaitsWell ==
  ASSUME NEW h, Ready(blocks, cur, frames, at, h), scope \in Seq(Nat),
         ExpressionStatement \/ If \/ Return
  PROVE  Well
<1>1. PICK k \in {"discard", "if", "return"} :
        /\ cur # NoBlock /\ at = "stmt" /\ at' = "expr"
        /\ Enter(Frame(k)) /\ UNCHANGED <<blocks, cur>>
  BY DEF ExpressionStatement, If, Return, Waits, Statement
<1>2. k \in FrameKinds /\ k \in Plain /\ at \in Between
  BY <1>1 DEF FrameKinds, Plain, Between
<1>3. Frame(k) \in Frames /\ Frame(k).k = k
  BY <1>2, FrameType
<1> DEFINE f == Frame(k)
<1>4. f \in Frames /\ f.k \in Plain /\ Enter(f)
  BY <1>1, <1>2, <1>3
<1> HIDE DEF f
<1>5. f.k \in Light /\ FrameOK(Len(blocks), f) /\ Pushed(f) = 0
  BY <1>4, PlainFrame
<1> QED
  BY <1>1, <1>2, <1>4, <1>5, Waiting0

\* Operand, for the calls that have pushed nothing yet.
LEMMA OperandWell ==
  ASSUME NEW h, Ready(blocks, cur, frames, at, h),
         NEW k, NEW f \in Frames, f.k \in Light \ Roots, FrameOK(Len(blocks), f), Pushed(f) = 0,
         Operand(k, f)
  PROVE  Well
<1>1. at = "expr" /\ at' = "expr" /\ Enter(f) /\ UNCHANGED <<blocks, cur>>
  BY DEF Operand, Expression
<1>2. cur # NoBlock
  BY <1>1 DEF Ready, Filling
<1> QED
  BY <1>1, <1>2, Waiting0

LEMMA ExpressionWaits ==
  ASSUME NEW h, Ready(blocks, cur, frames, at, h), scope \in Seq(Nat),
         \/ \E s \in Nat : Set(s)
         \/ \E n \in 1 .. 2 : Linear(n)
         \/ InstanceOf \/ Ternary
         \/ \E n \in 2 .. 3 : SetElement(n)
         \/ \E n \in 1 .. 2, postfix \in BOOLEAN : UpdateElement(n, postfix)
  PROVE  Well
<1>0. /\ "set" \in FrameKinds /\ "linear" \in FrameKinds /\ "element" \in FrameKinds
      /\ "target" \in FrameKinds /\ "instanceof" \in FrameKinds /\ "tcond" \in FrameKinds
  BY DEF FrameKinds
<1>1. CASE \E s \in Nat : Set(s)
  <2>1. PICK s \in Nat : Set(s)
    BY <1>1
  <2> DEFINE f == [Frame("set") EXCEPT !.sym = s]
  <2>2. f \in Frames /\ f.k = "set"
    BY <1>0, FrameSym
  <2>3. Operand("set", f)
    BY <2>1 DEF Set
  <2> HIDE DEF f
  <2>5. f.k \in Plain /\ f.k \notin Roots
    BY <2>2 DEF Plain, Roots
  <2>4. f.k \in Light \ Roots /\ FrameOK(Len(blocks), f) /\ Pushed(f) = 0
    BY <2>5, PlainFrame
  <2> QED
    BY <2>2, <2>3, <2>4, OperandWell
<1>2. CASE \E n \in 1 .. 2 : Linear(n)
  <2>1. PICK n \in 1 .. 2 : Linear(n)
    BY <1>2
  <2>5. n \in Nat
    OBVIOUS
  <2> DEFINE f == [Frame("linear") EXCEPT !.n = n, !.oth = n]
  <2>2. f \in Frames /\ f.k = "linear" /\ f.n = n /\ f.oth = n
    BY <1>0, <2>5, FrameCount
  <2>3. Operand("linear", f)
    BY <2>1 DEF Linear
  <2> HIDE DEF f
  <2>4. f.k \in Light \ Roots /\ FrameOK(Len(blocks), f) /\ Pushed(f) = 0
    BY <2>2 DEF Light, Roots, FrameOK, Pushed
  <2> QED
    BY <2>2, <2>3, <2>4, OperandWell
<1>3. CASE InstanceOf \/ Ternary
  <2>1. PICK k, m : k \in {"instanceof", "tcond"} /\ Operand(m, Frame(k))
    BY <1>3 DEF InstanceOf, Ternary
  <2>0. k \in {"instanceof", "tcond"} /\ k \in FrameKinds
    BY <2>1 DEF FrameKinds
  <2> DEFINE f == Frame(k)
  <2>2. f \in Frames /\ f.k = k
    BY <1>0, <2>0, FrameType
  <2>3. Operand(m, f)
    BY <2>1
  <2> HIDE DEF f
  <2>5. f.k \in Plain /\ f.k \notin Roots
    BY <2>0, <2>2 DEF Plain, Roots
  <2>4. f.k \in Light \ Roots /\ FrameOK(Len(blocks), f) /\ Pushed(f) = 0
    BY <2>5, PlainFrame
  <2> QED
    BY <2>2, <2>3, <2>4, OperandWell
<1>4. CASE \E n \in 2 .. 3 : SetElement(n)
  <2>1. PICK n \in 2 .. 3 : SetElement(n)
    BY <1>4
  <2>5. n \in Nat
    OBVIOUS
  <2> DEFINE f == [Frame("element") EXCEPT !.n = n, !.oth = n]
  <2>2. f \in Frames /\ f.k = "element" /\ f.n = n /\ f.oth = n
    BY <1>0, <2>5, FrameCount
  <2>3. Operand("element", f)
    BY <2>1 DEF SetElement
  <2> HIDE DEF f
  <2>4. f.k \in Light \ Roots /\ FrameOK(Len(blocks), f) /\ Pushed(f) = 0
    BY <2>2 DEF Light, Roots, FrameOK, Pushed
  <2> QED
    BY <2>2, <2>3, <2>4, OperandWell
<1>5. CASE \E n \in 1 .. 2, postfix \in BOOLEAN : UpdateElement(n, postfix)
  <2>1. PICK n \in 1 .. 2, postfix \in BOOLEAN : UpdateElement(n, postfix)
    BY <1>5
  <2>5. n \in Nat
    OBVIOUS
  <2> DEFINE f == [Frame("target") EXCEPT !.n = n, !.oth = n, !.done = postfix]
  <2>6. postfix \in BOOLEAN /\ "target" \in FrameKinds
    BY <1>0
  <2>2. f \in Frames /\ f.k = "target" /\ f.n = n /\ f.oth = n
    <3> DEFINE F == Frame("target")
               g == [F EXCEPT !.n = n, !.oth = n]
    <3>1. g \in Frames /\ g.k = "target" /\ g.n = n /\ g.oth = n
      BY <2>5, <2>6, FrameCount
    <3>2. f = [g EXCEPT !.done = postfix]
      OBVIOUS
    <3> HIDE DEF f, g
    <3> QED
      BY <2>6, <3>1, <3>2 DEF Frames
  <2>3. Operand("update", f)
    BY <2>1 DEF UpdateElement
  <2> HIDE DEF f
  <2>4. f.k \in Light \ Roots /\ FrameOK(Len(blocks), f) /\ Pushed(f) = 0
    BY <2>2 DEF Light, Roots, FrameOK, Pushed
  <2> QED
    BY <2>2, <2>3, <2>4, OperandWell
<1> QED
  BY <1>1, <1>2, <1>3, <1>4, <1>5

\* An expression that is done, in the current block.
LEMMA ValueStays ==
  ASSUME NEW h, Ready(blocks, cur, frames, at, h), cur # NoBlock,
         NEW x, Fills(x, blocks[cur], Len(blocks[cur].stack)),
         Value(cur, [blocks EXCEPT ![cur] = x]), frames' = frames
  PROVE  Well
<1> DEFINE bs2 == [blocks EXCEPT ![cur] = x]
<1>1. Filled(blocks, bs2, cur, Len(blocks[cur].stack))
  BY FilledBy
<1>2. cur' = cur /\ at' = "value" /\ blocks' = bs2
  BY DEF Value, Produce
<1> HIDE DEF bs2
<1>3. EndsWell(blocks, bs2, cur, frames, "value")
  BY <1>1, FillStay, ModesApart
<1> QED
  BY <1>2, <1>3 DEF Well

LEMMA ValueLeaves ==
  ASSUME NEW h, Ready(blocks, cur, frames, at, h), at = "value", frames # <<>>,
         top.k \in Light, Pushed(top) \in Nat,
         NEW n, n = Len(blocks[cur].stack) - Pushed(top),
         NEW x, Fills(x, blocks[cur], n),
         Value(cur, [blocks EXCEPT ![cur] = x]), frames' = Below
  PROVE  Well
<1> DEFINE bs2 == [blocks EXCEPT ![cur] = x]
<1>1. Filled(blocks, bs2, cur, n)
  BY FilledBy
<1>2. cur' = cur /\ at' = "value" /\ blocks' = bs2
  BY DEF Value, Produce
<1>3. /\ cur # NoBlock /\ h[Len(frames) - 1] \in Nat
      /\ Len(blocks[cur].stack) = h[Len(frames) - 1] + Pushed(top)
  BY TopFacts
<1>4. n \in Nat /\ Len(blocks[cur].stack) = n + Pushed(top)
  BY <1>3
<1> HIDE DEF bs2
<1>5. EndsWell(blocks, bs2, cur, Below, "value")
  BY <1>1, <1>3, <1>4, Left, ModesApart
<1> QED
  BY <1>2, <1>5 DEF Well

LEMMA LiteralWell ==
  ASSUME NEW h, Ready(blocks, cur, frames, at, h), Literal
  PROVE  Well
<1> DEFINE x == Emit(blocks[cur], "lit", <<>>)
<1>1. /\ cur # NoBlock /\ Value(cur, [blocks EXCEPT ![cur] = x]) /\ frames' = frames
  BY ModesApart DEF Literal, Ready
<1>2. "lit" \in Ops /\ <<>> \in Seq(Int) /\ blocks[cur] \in Block
  BY <1>1, CurFacts DEF Ops
<1>3. Fills(x, blocks[cur], Len(blocks[cur].stack))
  BY <1>2, EmitFills
<1> HIDE DEF x
<1> QED
  BY <1>1, <1>3, ValueStays

\* The instruction the symbol list names.
LEMMA SymbolIns ==
  ASSUME NEW b \in Block, NEW s, Holds(b, s)
  PROVE  b.syms[Find(b, s)].ins \in Int
<1>1. b.syms \in Seq(Entry)
  BY DEF Block
<1>2. Find(b, s) \in DOMAIN b.syms
  BY DEF Find, Holds
<1>3. b.syms[Find(b, s)] \in Entry
  BY <1>1, <1>2
<1> DEFINE e == b.syms[Find(b, s)]
<1> HIDE DEF e
<1> QED
  BY <1>3 DEF Entry, e

LEMMA GetWell ==
  ASSUME NEW h, Ready(blocks, cur, frames, at, h), NEW s, Get(s)
  PROVE  Outcome
<1> DEFINE b == blocks[cur]
           x == Mirror(b, b.syms[Find(b, s)].ins)
<1>1. cur # NoBlock /\ frames' = frames
  BY ModesApart DEF Get, Expression, Ready
<1>2. b \in Block
  BY <1>1, CurFacts
<1>3. CASE Holds(b, s) /\ b.syms[Find(b, s)].ex
  <2>1. Value(cur, [blocks EXCEPT ![cur] = x])
    BY <1>3 DEF Get
  <2>2. Fills(x, b, Len(b.stack))
    <3> HIDE DEF b
    <3> QED
      BY <1>2, <1>3, SymbolIns, MirrorFills
  <2> HIDE DEF x
  <2> QED
    BY <1>1, <2>1, <2>2, ValueStays DEF Outcome
<1>4. CASE ~(Holds(b, s) /\ b.syms[Find(b, s)].ex)
  BY <1>1, <1>4 DEF Get, Outcome
<1> QED
  BY <1>3, <1>4

LEMMA PostfixWell ==
  ASSUME NEW h, Ready(blocks, cur, frames, at, h), NEW s \in Nat, Postfix(s)
  PROVE  Outcome
<1> DEFINE b == blocks[cur]
           ins == b.syms[Find(b, s)].ins
           old == Mirror(b, ins)
           p == PushStack(old)
           e == Emit(p, "lit", <<>>)
           new == Compute(e)
           y == SetSymbol(new, s, LastInstruction(new))
           x == Mirror(y, LastInstruction(old))
           n == Len(b.stack)
<1>1. cur # NoBlock /\ frames' = frames
  BY ModesApart DEF Postfix, Expression, Ready
<1>2. b \in Block /\ n \in Nat
  BY <1>1, CurFacts
<1>3. CASE Holds(b, s) /\ b.syms[Find(b, s)].ex
  <2>1. Value(cur, [blocks EXCEPT ![cur] = x])
    BY <1>3 DEF Postfix
  <2>2. Fills(x, b, n)
    <3>1. ins \in Int
      BY <1>2, <1>3, SymbolIns
    <3> HIDE DEF b, ins
    <3>2. Fills(old, b, n)
      BY <1>2, <3>1, MirrorFills DEF n
    <3> HIDE DEF old, n
    <3>3. Fills(p, old, n + 1) /\ old \in Block
      BY <3>2, PushFills DEF Fills
    <3>4. "lit" \in Ops /\ <<>> \in Seq(Int)
      BY DEF Ops
    <3> HIDE DEF p
    <3>5. Fills(e, p, n + 1)
      BY <3>3, <3>4, EmitFills DEF Fills
    <3> HIDE DEF e
    <3>6. Fills(new, e, n)
      <4>1. e \in Block /\ Len(e.stack) = n + 1 /\ 1 <= Len(e.stack)
        BY <1>2, <3>5 DEF Fills
      <4>2. Fills(new, e, Len(e.stack) - 1)
        BY <4>1, ComputeFills
      <4>3. Len(e.stack) - 1 = n
        BY <1>2, <4>1
      <4> QED
        BY <4>2, <4>3
    <3> HIDE DEF new
    <3>7. Fills(y, new, n)
      <4>1. new \in Block /\ Len(new.stack) = n
        BY <3>6 DEF Fills
      <4>2. LastInstruction(new) \in Int
        BY <4>1, ParamCountNat
      <4> QED
        BY <4>1, <4>2, SymbolFills
    <3> HIDE DEF y
    <3>8. Fills(x, y, n)
      <4>1. y \in Block /\ Len(y.stack) = n
        BY <3>7 DEF Fills
      <4>2. LastInstruction(old) \in Int
        BY <3>3, ParamCountNat
      <4> QED
        BY <4>1, <4>2, MirrorFills
    <3> QED
      BY <3>2, <3>3, <3>5, <3>6, <3>7, <3>8 DEF Fills
  <2> HIDE DEF x
  <2> QED
    BY <1>1, <2>1, <2>2, ValueStays DEF Outcome
<1>4. CASE ~(Holds(b, s) /\ b.syms[Find(b, s)].ex)
  BY <1>1, <1>4 DEF Postfix, Outcome
<1> QED
  BY <1>3, <1>4

LEMMA CompoundWell ==
  ASSUME NEW h, Ready(blocks, cur, frames, at, h), scope \in Seq(Nat), NEW s \in Nat, Compound(s)
  PROVE  Outcome
<1> DEFINE b == blocks[cur]
           ins == b.syms[Find(b, s)].ins
           old == Mirror(b, ins)
           x == PushStack(old)
           n == Len(b.stack)
           f == [Frame("compound") EXCEPT !.sym = s]
<1>1. cur # NoBlock /\ cur' = cur /\ at = "expr" /\ at' = "expr"
  BY ModesApart DEF Compound, Expression, Ready
<1>2. b \in Block /\ n \in Nat
  BY <1>1, CurFacts
<1>3. CASE Holds(b, s) /\ b.syms[Find(b, s)].ex
  <2>1. blocks' = [blocks EXCEPT ![cur] = x] /\ Enter(f)
    BY <1>3 DEF Compound, Produce
  <2>2. Fills(x, b, n + 1)
    <3>1. ins \in Int
      BY <1>2, <1>3, SymbolIns
    <3> HIDE DEF b, ins
    <3>2. Fills(old, b, n)
      BY <1>2, <3>1, MirrorFills DEF n
    <3> HIDE DEF old, n
    <3>3. Fills(x, old, n + 1) /\ old \in Block
      BY <3>2, PushFills DEF Fills
    <3> QED
      BY <3>2, <3>3 DEF Fills
  <2> HIDE DEF x
  <2>3. Filled(blocks, blocks', cur, n + 1)
    BY <2>1, <2>2, FilledBy
  <2>4. "compound" \in FrameKinds
    BY DEF FrameKinds
  <2>5. f \in Frames /\ f.k = "compound"
    BY <2>4, FrameSym
  <2> HIDE DEF f
  <2>6. f.k \in Light \ Roots /\ FrameOK(Len(blocks), f) /\ Pushed(f) = 1
    BY <2>5 DEF Light, Roots, FrameOK, Pushed
  <2>7. Filled(blocks, blocks', cur, Len(blocks[cur].stack) + Pushed(f))
    BY <2>3, <2>6
  <2>9. /\ f.k \in Light /\ (f.k \in Roots => at \in Between) /\ Pushed(f) \in Nat
        /\ FrameOK(Len(blocks), f) /\ frames' = Append(frames, f)
    BY <2>1, <2>6 DEF Enter
  <2> HIDE DEF b, n
  <2>8. Well
    BY <1>1, <2>5, <2>7, <2>9, Entered
  <2> QED
    BY <2>8 DEF Outcome
<1>4. CASE ~(Holds(b, s) /\ b.syms[Find(b, s)].ex)
  BY <1>1, <1>4 DEF Compound, Outcome
<1> QED
  BY <1>3, <1>4

-----------------------------------------------------------------------------
(* The ends of expressions.                                                *)

LEMMA EndExpressionWell ==
  ASSUME NEW h, Ready(blocks, cur, frames, at, h), EndExpression
  PROVE  Well
<1>1. /\ at = "value" /\ frames # <<>> /\ top.k = "discard" /\ Done(Below, cur, blocks)
  BY DEF EndExpression, Returned, Waiting
<1>2. cur # NoBlock
  BY <1>1, TopFacts
<1>3. top.k \in Plain /\ top.k \in Roots
  BY <1>1 DEF Plain, Roots
<1>4. top.k \in Light /\ Pushed(top) = 0
  BY <1>3, PlainFrame
<1>5. /\ Len(blocks[cur].stack) \in Nat
      /\ Filled(blocks, blocks, cur, Len(blocks[cur].stack))
      /\ Len(blocks[cur].stack) = Len(blocks[cur].stack) + Pushed(top)
      /\ Pushed(top) \in Nat
  BY <1>2, <1>4, CurFacts
<1>6. EndsWell(blocks, blocks, cur, Below, "stmt")
  BY <1>1, <1>2, <1>3, <1>4, <1>5, Left
<1> QED
  BY <1>1, <1>6, DoneWell

LEMMA ReturnTailBlock ==
  ASSUME NEW b \in Block, NEW args \in Seq(Int)
  PROVE  LET x == ReturnTail(b, args)
         IN x \in Block /\ x.tail.type = "return" /\ x.final = b.final /\ x.stack = b.stack
<1> DEFINE r == Emit(b, "unwrap", <<0>>)
           l == LastInstruction(r)
           a == <<0>> \o args
           t == [OpenTail EXCEPT !.type = "return", !.first = l, !.args = a]
           x == [r EXCEPT !.tail = t]
<1>1. "unwrap" \in Ops /\ <<0>> \in Seq(Int)
  BY DEF Ops
<1>2. Fills(r, b, Len(b.stack)) /\ r.stack = b.stack
  BY <1>1, EmitFills, EmitBlock
<1>3. r \in Block /\ r.final = b.final
  BY <1>2 DEF Fills
<1>4. l \in Int
  <2> HIDE DEF r
  <2> QED
    BY <1>3, ParamCountNat
<1>5. a \in Seq(Int)
  <2>1. <<0>> \in Seq(Int)
    OBVIOUS
  <2> QED
    BY <2>1
<1> HIDE DEF r, l, a
<1>6. t \in Terminal /\ t.type = "return"
  BY <1>4, <1>5, OpenTailType DEF Terminal, OpenTail
<1> HIDE DEF t
<1>7. x \in Block /\ x.tail = t /\ x.final = r.final /\ x.stack = r.stack
  BY <1>3, <1>6 DEF Block
<1>8. ReturnTail(b, args) = x
  BY DEF ReturnTail, r, l, a, t
<1> HIDE DEF x
<1> QED
  BY <1>2, <1>3, <1>6, <1>7, <1>8

LEMMA EndReturnWell ==
  ASSUME NEW h, Ready(blocks, cur, frames, at, h), EndReturn
  PROVE  Well
<1> DEFINE b == blocks[cur]
           x == ReturnTail(b, <<LastInstruction(b)>>)
           bs2 == Put(blocks, cur, x)
<1>1. /\ at = "value" /\ frames # <<>> /\ top.k = "return" /\ Done(Below, NoBlock, bs2)
  BY DEF EndReturn, Returned, Waiting, Put
<1>2. cur # NoBlock
  BY <1>1, TopFacts
<1>3. top.k \in Roots /\ top.k \in Light
  BY <1>1 DEF Roots, Light
<1>4. b \in Block /\ <<LastInstruction(b)>> \in Seq(Int)
  BY <1>2, CurFacts
<1>5. x \in Block /\ x.tail.type # "open" /\ x.final = b.final
  BY <1>4, ReturnTailBlock
<1>6. /\ blocks \in Seq(Block) /\ \A d \in DOMAIN blocks : ~blocks[d].final
      /\ Only(cur) = {cur} /\ Only(cur) \subseteq DOMAIN blocks
      /\ \A d \in Only(cur) : Open(blocks, d)
      /\ cur \in DOMAIN blocks /\ Len(blocks) \in Nat
  BY <1>2, CurReady
<1> HIDE DEF x
<1>7. Changes(blocks, bs2, Only(cur), Only(cur) \ {cur})
  <2>1. cur \in Only(cur) /\ Only(cur) \in SUBSET DOMAIN blocks
    BY <1>6
  <2> QED
    BY <1>5, <1>6, <2>1, SealChanges
<1>8. Only(cur) \ {cur} = Only(NoBlock) /\ Top(cur, top) = Only(cur)
  BY <1>3, <1>6, LightPending DEF Only, Top
<1>9. NoBlock \in 0 .. Len(bs2) /\ NoBlock = NoBlock
  <2>1. Len(bs2) \in Nat
    BY <1>5, <1>6 DEF Put
  <2> HIDE DEF bs2
  <2> QED
    BY <2>1 DEF NoBlock
<1> HIDE DEF bs2
<1>10. EndsWell(blocks, bs2, NoBlock, Below, "stmt")
  BY <1>1, <1>3, <1>7, <1>8, <1>9, LeaveReady, ModesApart DEF top, Below
<1> QED
  BY <1>1, <1>10, DoneWell

LEMMA EndSetWell ==
  ASSUME NEW h, Ready(blocks, cur, frames, at, h), EndSet
  PROVE  Outcome
<1> DEFINE b == blocks[cur]
           x == SetSymbol(b, top.sym, LastInstruction(b))
<1>1. at = "value" /\ frames # <<>> /\ top.k = "set"
  BY DEF EndSet, Returned, Waiting
<1>2. cur # NoBlock /\ top \in Frames
  BY <1>1, TopFacts
<1>3. CASE Holds(b, top.sym)
  <2>1. Value(cur, [blocks EXCEPT ![cur] = x]) /\ frames' = Below
    BY <1>3 DEF EndSet, Assign
  <2>2. b \in Block /\ LastInstruction(b) \in Int /\ top.sym \in Nat
    BY <1>2, CurFacts DEF Frames
  <2>3. Fills(x, b, Len(b.stack))
    BY <2>2, SymbolFills
  <2>4. top.k \in Plain
    BY <1>1 DEF Plain
  <2>5. top.k \in Light /\ Pushed(top) = 0
    BY <2>4, PlainFrame
  <2>6. Len(b.stack) = Len(b.stack) - Pushed(top) /\ Pushed(top) \in Nat
    BY <1>2, <2>5, CurFacts
  <2> HIDE DEF x
  <2>7. Well
    BY <1>1, <2>1, <2>3, <2>5, <2>6, ValueLeaves
  <2> QED
    BY <2>7 DEF Outcome
<1>4. CASE ~Holds(b, top.sym)
  BY <1>4 DEF EndSet, Outcome
<1> QED
  BY <1>3, <1>4

LEMMA EndCompoundWell ==
  ASSUME NEW h, Ready(blocks, cur, frames, at, h), EndCompound
  PROVE  Well
<1> DEFINE b == blocks[cur]
           new == Compute(b)
           x == SetSymbol(new, top.sym, LastInstruction(new))
           n == Len(b.stack) - 1
<1>1. at = "value" /\ frames # <<>> /\ top.k = "compound" /\ frames' = Below
      /\ Value(cur, [blocks EXCEPT ![cur] = x])
  BY DEF EndCompound, Returned, Waiting
<1>2. /\ cur # NoBlock /\ top \in Frames /\ h[Len(frames) - 1] \in Nat
      /\ Len(b.stack) = h[Len(frames) - 1] + Pushed(top)
  BY <1>1, TopFacts
<1>3. top.k \in Light /\ Pushed(top) = 1
  BY <1>1 DEF Light, Pushed
<1>4. b \in Block /\ 1 <= Len(b.stack) /\ top.sym \in Nat /\ Len(b.stack) \in Nat
  <2>1. top.sym \in Nat
    BY <1>2 DEF Frames
  <2>2. b \in Block /\ Len(b.stack) \in Nat
    BY <1>2, <1>3, CurFacts
  <2> QED
    BY <1>2, <1>3, <2>1, <2>2, SMTT(30)
<1>5. Fills(new, b, n)
  BY <1>4, ComputeFills
<1> HIDE DEF new
<1>6. new \in Block /\ Len(new.stack) = n
  BY <1>5 DEF Fills
<1>7. LastInstruction(new) \in Int
  BY <1>6, ParamCountNat
<1>8. Fills(x, new, n)
  BY <1>4, <1>6, <1>7, SymbolFills
<1> HIDE DEF x
<1>9. Fills(x, b, n)
  BY <1>5, <1>8, FillsTrans
<1>10. n = Len(b.stack) - Pushed(top) /\ Pushed(top) \in Nat
  BY <1>3
<1> QED
  BY <1>1, <1>3, <1>9, <1>10, ValueLeaves

LEMMA EndInstanceOfWell ==
  ASSUME NEW h, Ready(blocks, cur, frames, at, h), EndInstanceOf
  PROVE  Well
<1> DEFINE b == blocks[cur]
           x == Emit(b, "is", <<NextInstruction(b)>>)
<1>1. at = "value" /\ frames # <<>> /\ top.k = "instanceof" /\ frames' = Below
      /\ Value(cur, [blocks EXCEPT ![cur] = x])
  BY DEF EndInstanceOf, Returned, Waiting
<1>2. cur # NoBlock
  BY <1>1, TopFacts
<1>3. b \in Block /\ LastInstruction(b) \in Int /\ Len(b.stack) \in Nat
  BY <1>2, CurFacts
<1>4. NextInstruction(b) \in Int
  BY <1>3, ParamCountNat
<1>9. <<NextInstruction(b)>> \in Seq(Int) /\ "is" \in Ops
  BY <1>4 DEF Ops
<1>5. Fills(x, b, Len(b.stack))
  BY <1>3, <1>9, EmitFills
<1>6. top.k \in Plain
  BY <1>1 DEF Plain
<1>7. top.k \in Light /\ Pushed(top) = 0
  BY <1>6, PlainFrame
<1>8. Len(b.stack) = Len(b.stack) - Pushed(top) /\ Pushed(top) \in Nat
  BY <1>3, <1>7
<1> HIDE DEF x
<1> QED
  BY <1>1, <1>5, <1>7, <1>8, ValueLeaves

\* One operand less to come.
LEMMA FrameLess ==
  ASSUME NEW f \in Frames, f.n > 1
  PROVE  LET g == [f EXCEPT !.n = f.n - 1]
         IN /\ g \in Frames /\ g.n = f.n - 1
            /\ g.k = f.k /\ g.oth = f.oth /\ g.post = f.post /\ g.done = f.done
<1>1. f.n \in Nat
  BY DEF Frames
<1> DEFINE m == f.n - 1
<1>2. m \in Nat
  BY <1>1
<1> HIDE DEF m
<1>3. LET g == [f EXCEPT !.n = m]
      IN /\ g \in Frames /\ g.n = m
         /\ g.k = f.k /\ g.oth = f.oth /\ g.post = f.post /\ g.done = f.done
  BY <1>2 DEF Frames
<1> QED
  BY <1>3 DEF m

LEMMA OperandPushed ==
  ASSUME NEW h, Ready(blocks, cur, frames, at, h), at = "value", frames # <<>>,
         top.k \in {"linear", "element", "target"}, top.n > 1,
         Replace([top EXCEPT !.n = top.n - 1]), at' = "expr", cur' = cur,
         blocks' = [blocks EXCEPT ![cur] = PushStack(blocks[cur])]
  PROVE  Well
<1> DEFINE b == blocks[cur]
           f == [top EXCEPT !.n = top.n - 1]
           n == h[Len(frames) - 1]
<1>1. /\ cur # NoBlock /\ top \in Frames /\ FrameOK(Len(blocks), top)
      /\ n \in Nat /\ Len(b.stack) = n + Pushed(top)
  BY TopFacts
<1>2. /\ f \in Frames /\ f.n = top.n - 1 /\ f.k = top.k /\ f.oth = top.oth
  BY <1>1, FrameLess
<1>3. top.n \in Nat /\ top.oth \in Nat /\ top.n <= top.oth
      /\ (top.k \in {"linear", "target"} => top.oth \in 1 .. 2)
      /\ (top.k = "element" => top.oth \in 2 .. 3)
  BY <1>1, SMTT(30) DEF FrameOK, Frames
<1>4. Replace(f)
  OBVIOUS
<1> HIDE DEF f, n
<1>12. Pushed(top) = top.oth - top.n /\ Pushed(f) = top.oth - (top.n - 1)
  BY <1>2 DEF Pushed
<1>5. Pushed(top) \in Nat /\ Pushed(f) \in Nat /\ Pushed(f) = Pushed(top) + 1
  BY <1>3, <1>12
<1>6. FrameOK(Len(blocks), f)
  BY <1>2, <1>3 DEF FrameOK
<1>7. top.k \in Light /\ f.k \in Light \ Roots
  BY <1>2 DEF Light, Roots
<1>8. b \in Block /\ Len(b.stack) + 1 = n + Pushed(f)
  BY <1>1, <1>5, CurFacts
<1>9. Fills(PushStack(b), b, n + Pushed(f))
  <2>1. Fills(PushStack(b), b, Len(b.stack) + 1)
    BY <1>8, PushFills
  <2> QED
    BY <1>8, <2>1
<1>10. Filled(blocks, blocks', cur, n + Pushed(f))
  BY <1>9, FilledBy
<1>11. EndsWell(blocks, blocks', cur, Append(Below, f), "expr")
  BY <1>1, <1>2, <1>5, <1>6, <1>7, <1>10, Swapped, ModesApart
<1> QED
  BY <1>4, <1>11 DEF Well, Replace

LEMMA EndOperandWell ==
  ASSUME NEW h, Ready(blocks, cur, frames, at, h), EndOperand
  PROVE  Well
<1> DEFINE c == blocks[cur]
           b == PushStack(c)
           args == Operands(b, top.oth)
           p == PopStack(b, top.oth)
           x == Emit(p, "calc", args)
           g == h[Len(frames) - 1]
<1>1. at = "value" /\ frames # <<>> /\ top.k = "linear"
  BY DEF EndOperand, Returned, Waiting
<1>2. /\ cur # NoBlock /\ top \in Frames /\ FrameOK(Len(blocks), top)
      /\ g \in Nat /\ Len(c.stack) = g + Pushed(top)
  BY <1>1, TopFacts
<1>3. CASE top.n > 1
  <2>1. /\ Replace([top EXCEPT !.n = top.n - 1]) /\ at' = "expr" /\ cur' = cur
        /\ blocks' = [blocks EXCEPT ![cur] = b]
    BY <1>3 DEF EndOperand, Produce
  <2> QED
    BY <1>1, <1>3, <2>1, OperandPushed
<1>4. CASE ~(top.n > 1)
  <2>1. frames' = Below /\ Value(cur, [blocks EXCEPT ![cur] = x])
    BY <1>4 DEF EndOperand, Operands
  <2>2. top.n = 1 /\ top.oth \in 1 .. 2
    BY <1>1, <1>2, <1>4 DEF FrameOK
  <2>3. Pushed(top) = top.oth - 1 /\ Pushed(top) \in Nat /\ top.k \in Light
    BY <1>1, <2>2 DEF Pushed, Light
  <2>4. c \in Block
    BY <1>2, CurFacts
  <2> HIDE DEF c
  <2>5. Fills(b, c, Len(c.stack) + 1) /\ Len(c.stack) + 1 = g + top.oth
    BY <1>2, <2>2, <2>3, <2>4, PushFills
  <2> HIDE DEF b, g
  <2>6. b \in Block /\ Len(b.stack) = g + top.oth /\ top.oth \in Nat /\ top.oth <= Len(b.stack)
    BY <1>2, <2>2, <2>5 DEF Fills
  <2>7. args \in Seq(Int) /\ "calc" \in Ops
    BY <2>6, OperandsInt DEF Ops
  <2>8. Fills(p, b, g)
    <3>1. Fills(p, b, Len(b.stack) - top.oth)
      BY <2>6, PopFills
    <3>2. Len(b.stack) - top.oth = g
      BY <1>2, <2>2, <2>6
    <3> QED
      BY <3>1, <3>2
  <2> HIDE DEF p, args
  <2>9. Fills(x, p, g)
    <3>1. p \in Block /\ Len(p.stack) = g
      BY <2>8 DEF Fills
    <3> QED
      BY <2>7, <3>1, EmitFills
  <2> HIDE DEF x
  <2>10. Fills(x, c, g)
    BY <2>5, <2>8, <2>9, FillsTrans
  <2>11. g = Len(c.stack) - Pushed(top)
    BY <1>2, <2>2, <2>3
  <2> QED
    BY <1>1, <2>1, <2>3, <2>10, <2>11, ValueLeaves DEF c
<1> QED
  BY <1>3, <1>4

LEMMA EndElementWell ==
  ASSUME NEW h, Ready(blocks, cur, frames, at, h), EndElement
  PROVE  Well
<1> DEFINE b == blocks[cur]
           x == Store(b, top.oth)
           g == h[Len(frames) - 1]
<1>1. at = "value" /\ frames # <<>> /\ top.k = "element"
  BY DEF EndElement, Returned, Waiting
<1>2. /\ cur # NoBlock /\ top \in Frames /\ FrameOK(Len(blocks), top)
      /\ g \in Nat /\ Len(b.stack) = g + Pushed(top)
  BY <1>1, TopFacts
<1>3. CASE top.n > 1
  <2>1. /\ Replace([top EXCEPT !.n = top.n - 1]) /\ at' = "expr" /\ cur' = cur
        /\ blocks' = [blocks EXCEPT ![cur] = PushStack(b)]
    BY <1>3 DEF EndElement, Produce
  <2> QED
    BY <1>1, <1>3, <2>1, OperandPushed
<1>4. CASE ~(top.n > 1)
  <2>1. frames' = Below /\ Value(cur, [blocks EXCEPT ![cur] = x])
    BY <1>4 DEF EndElement
  <2>2. top.n = 1 /\ top.oth \in 2 .. 3
    BY <1>1, <1>2, <1>4 DEF FrameOK
  <2>3. Pushed(top) = top.oth - 1 /\ Pushed(top) \in Nat /\ top.k \in Light
    BY <1>1, <2>2 DEF Pushed, Light
  <2>4. b \in Block /\ top.oth - 1 <= Len(b.stack)
    BY <1>2, <2>2, <2>3, CurFacts
  <2>5. Fills(x, b, Len(b.stack) - (top.oth - 1))
    BY <2>2, <2>4, StoreFills
  <2> HIDE DEF x
  <2>6. Len(b.stack) - (top.oth - 1) = Len(b.stack) - Pushed(top)
    BY <2>3
  <2> QED
    BY <1>1, <2>1, <2>3, <2>5, <2>6, ValueLeaves
<1> QED
  BY <1>3, <1>4

LEMMA EndUpdateWell ==
  ASSUME NEW h, Ready(blocks, cur, frames, at, h), EndUpdate
  PROVE  Well
<1> DEFINE b == blocks[cur]
           r == Restore(b, top.oth)
           x == Mirror(r, LastInstruction(r) - 1)
           g == h[Len(frames) - 1]
           n == Len(b.stack) - 1 - top.oth
<1>1. at = "value" /\ frames # <<>> /\ top.k = "update" /\ frames' = Below
      /\ Value(cur, [blocks EXCEPT ![cur] = x])
  BY DEF EndUpdate, Returned, Waiting
<1>2. /\ cur # NoBlock /\ top \in Frames /\ FrameOK(Len(blocks), top)
      /\ g \in Nat /\ Len(b.stack) = g + Pushed(top)
  BY <1>1, TopFacts
<1>3. top.oth \in 1 .. 2 /\ Pushed(top) = top.oth + 1 /\ Pushed(top) \in Nat /\ top.k \in Light
  BY <1>1, <1>2 DEF FrameOK, Pushed, Light
<1>4. b \in Block /\ top.oth + 1 <= Len(b.stack)
  BY <1>2, <1>3, CurFacts, SMTT(30)
<1>5. Fills(r, b, n)
  BY <1>3, <1>4, RestoreFills
<1>6. n = Len(b.stack) - Pushed(top)
  BY <1>2, <1>3, SMTT(30)
<1> HIDE DEF r, n
<1>7. r \in Block /\ Len(r.stack) = n
  BY <1>5 DEF Fills
<1>8. LastInstruction(r) - 1 \in Int
  BY <1>7, ParamCountNat
<1>9. Fills(x, r, n)
  BY <1>7, <1>8, MirrorFills
<1> HIDE DEF x
<1>10. Fills(x, b, n)
  BY <1>5, <1>9, FillsTrans
<1> QED
  BY <1>1, <1>3, <1>6, <1>10, ValueLeaves

LEMMA EndTargetWell ==
  ASSUME NEW h, Ready(blocks, cur, frames, at, h), EndTarget
  PROVE  Well
<1> DEFINE b == blocks[cur]
           old == Load(b, top.oth)
           g == h[Len(frames) - 1]
           m == g + top.oth + 1
<1>1. at = "value" /\ frames # <<>> /\ top.k = "target"
  BY DEF EndTarget, Returned, Waiting
<1>2. /\ cur # NoBlock /\ top \in Frames /\ FrameOK(Len(blocks), top)
      /\ g \in Nat /\ Len(b.stack) = g + Pushed(top)
  BY <1>1, TopFacts
<1>3. CASE top.n > 1
  <2>1. /\ Replace([top EXCEPT !.n = top.n - 1]) /\ at' = "expr" /\ cur' = cur
        /\ blocks' = [blocks EXCEPT ![cur] = PushStack(b)]
    BY <1>3 DEF EndTarget, Produce
  <2> QED
    BY <1>1, <1>3, <2>1, OperandPushed
<1>4. CASE ~(top.n > 1)
  <2>1. top.n = 1 /\ top.oth \in 1 .. 2
    BY <1>1, <1>2, <1>4 DEF FrameOK
  <2>2. Pushed(top) = top.oth - 1 /\ Pushed(top) \in Nat /\ top.k \in Light
    BY <1>1, <2>1 DEF Pushed, Light
  <2>8. b \in Block /\ Len(b.stack) \in Nat /\ Len(b.stack) = g + (top.oth - 1)
    BY <1>2, <2>2, CurFacts
  <2>3. /\ b \in Block /\ top.oth - 1 <= Len(b.stack) /\ Len(b.stack) + 2 = m
        /\ m \in Nat /\ 2 <= m
    <3>1. \A i \in Nat, j \in 1 .. 2, l \in Nat : l = i + (j - 1) =>
            j - 1 <= l /\ l + 2 = i + j + 1 /\ i + j + 1 \in Nat /\ 2 <= i + j + 1
      OBVIOUS
    <3> HIDE DEF b, g
    <3>2. g \in Nat
      BY <1>2
    <3> QED
      BY <2>1, <2>8, <3>1, <3>2, Zenon DEF m
  <2>4. Fills(old, b, Len(b.stack) + 2)
    BY <2>1, <2>3, LoadFills
  <2>5. g = Len(b.stack) - Pushed(top)
    BY <1>2, <2>1, <2>2
  <2>6. CASE top.done
    <3> DEFINE e == Emit(old, "lit", <<>>)
               r == Restore(e, top.oth)
               x == Mirror(r, old.stack[1])
    <3>1. frames' = Below /\ Value(cur, [blocks EXCEPT ![cur] = x])
      BY <1>4, <2>6 DEF EndTarget
    <3> HIDE DEF old, b, m
    <3>2. old \in Block /\ Len(old.stack) = m /\ Fills(old, b, m)
      BY <2>3, <2>4 DEF Fills
    <3>3. old.stack[1] \in Int
      BY <2>3, <3>2, StackInt
    <3>4. "lit" \in Ops /\ <<>> \in Seq(Int)
      BY DEF Ops
    <3>5. Fills(e, old, m)
      BY <3>2, <3>4, EmitFills
    <3> HIDE DEF e
    <3>6. e \in Block /\ Len(e.stack) = m /\ top.oth + 1 <= Len(e.stack)
          /\ Len(e.stack) - 1 - top.oth = g
      <4>1. e \in Block /\ Len(e.stack) = m
        BY <3>5 DEF Fills
      <4>2. g \in Nat /\ top.oth \in Nat /\ m = g + top.oth + 1
        BY <1>2, <2>1 DEF m
      <4> HIDE DEF g
      <4> QED
        BY <4>1, <4>2
    <3>7. Fills(r, e, g)
      <4>1. Fills(r, e, Len(e.stack) - 1 - top.oth)
        BY <2>1, <3>6, RestoreFills
      <4> QED
        BY <3>6, <4>1
    <3> HIDE DEF r, g
    <3>8. r \in Block /\ Len(r.stack) = g
      BY <3>7 DEF Fills
    <3>9. Fills(x, r, g)
      BY <3>3, <3>8, MirrorFills
    <3> HIDE DEF x
    <3>10. Fills(x, b, g)
      BY <3>2, <3>5, <3>7, <3>9, FillsTrans
    <3> QED
      BY <1>1, <2>2, <2>5, <3>1, <3>10, ValueLeaves DEF b
  <2>7. CASE ~top.done
    <3> DEFINE f == [top EXCEPT !.k = "update"]
    <3>1. /\ Replace(f) /\ at' = "expr" /\ cur' = cur
          /\ blocks' = [blocks EXCEPT ![cur] = old]
      BY <1>4, <2>7 DEF EndTarget, Produce
    <3>2. f \in Frames /\ f.k = "update" /\ f.oth = top.oth
      BY <1>2 DEF Frames, FrameKinds
    <3> HIDE DEF f
    <3>3. /\ f.k \in Light \ Roots /\ FrameOK(Len(blocks), f)
          /\ Pushed(f) = top.oth + 1 /\ Pushed(f) \in Nat
      BY <2>1, <3>2 DEF Light, Roots, FrameOK, Pushed
    <3>4. Fills(old, b, g + Pushed(f))
      <4>1. Len(b.stack) + 2 = g + Pushed(f)
        BY <1>2, <2>1, <2>3, <3>3
      <4> QED
        BY <2>4, <4>1
    <3> HIDE DEF old
    <3>5. Filled(blocks, blocks', cur, g + Pushed(f))
      BY <3>1, <3>4, FilledBy
    <3> HIDE DEF g
    <3>6. EndsWell(blocks, blocks', cur, Append(Below, f), "expr")
      BY <1>1, <1>2, <2>2, <3>2, <3>3, <3>5, Swapped, ModesApart
    <3> QED
      BY <3>1, <3>6 DEF Well, Replace
  <2> QED
    BY <2>6, <2>7
<1> QED
  BY <1>3, <1>4

-----------------------------------------------------------------------------
(* Steps that add and join blocks.                                         *)

\* Those of T without those of S, and the n new ones.
Becomes(T, S, bs, n, T2) ==
  \A b : b \in T2 <=> (b \in T /\ b \notin S) \/ b \in Len(bs) + 1 .. Len(bs) + n

LEMMA EffectTidy ==
  ASSUME NEW bs, NEW T, Tidy(bs, T), NEW S, S \subseteq T, NEW n \in Nat,
         NEW bs2, Effect(bs, bs2, S, n), NEW T2, Becomes(T, S, bs, n, T2)
  PROVE  /\ Changes(bs, bs2, T, T2)
         /\ Len(bs2) = Len(bs) + n
         /\ \A b \in DOMAIN bs : bs2[b].stack = bs[b].stack
<1> USE DEF Becomes
<1>0. /\ bs \in Seq(Block) /\ \A b \in DOMAIN bs : ~bs[b].final
      /\ T \subseteq DOMAIN bs /\ \A b \in T : Open(bs, b)
  BY DEF Tidy
<1>1. /\ bs2 \in Seq(Block) /\ Len(bs2) = Len(bs) + n /\ Len(bs) \in Nat
      /\ \A b \in DOMAIN bs \ S : bs2[b] = bs[b]
  BY <1>0 DEF Effect
<1>2. \A b : b \in Len(bs) + 1 .. Len(bs) + n <=> b \in DOMAIN bs2 \ DOMAIN bs
  BY <1>0, <1>1
<1>3. \A b \in DOMAIN bs : bs2[b].stack = bs[b].stack /\ (bs2[b].final <=> bs[b].final)
  <2> SUFFICES ASSUME NEW b \in DOMAIN bs
               PROVE  bs2[b].stack = bs[b].stack /\ (bs2[b].final <=> bs[b].final)
    OBVIOUS
  <2>1. CASE b \in S
    BY <2>1, Zenon DEF Effect
  <2>2. CASE b \notin S
    BY <1>0, <1>1, <2>2
  <2> QED
    BY <2>1, <2>2
<1>4. \A b \in DOMAIN bs2 : ~bs2[b].final
  <2> SUFFICES ASSUME NEW b \in DOMAIN bs2 PROVE ~bs2[b].final
    OBVIOUS
  <2>1. CASE b \in DOMAIN bs
    BY <1>0, <1>3, <2>1
  <2>2. CASE b \notin DOMAIN bs
    BY <2>2, Zenon DEF Effect
  <2> QED
    BY <2>1, <2>2
<1>5. \A b \in T \cup (DOMAIN bs2 \ DOMAIN bs) : Open(bs2, b) <=> b \in T2
  <2> SUFFICES ASSUME NEW b \in T \cup (DOMAIN bs2 \ DOMAIN bs)
               PROVE  Open(bs2, b) <=> b \in T2
    OBVIOUS
  <2>1. CASE b \in S
    <3>1. bs2[b].tail.type # "open"
      BY <2>1, Zenon DEF Effect
    <3>2. b \notin T2
      BY <1>0, <1>2, <2>1
    <3> QED
      BY <3>1, <3>2 DEF Open
  <2>2. CASE b \in T \ S
    <3>1. bs2[b] = bs[b]
      BY <1>0, <1>1, <2>2
    <3> QED
      BY <1>0, <2>2, <3>1 DEF Open
  <2>3. CASE b \in DOMAIN bs2 \ DOMAIN bs
    <3>1. bs2[b].tail.type = "open"
      BY <2>3, Zenon DEF Effect
    <3> QED
      BY <1>2, <2>3, <3>1 DEF Open
  <2> QED
    BY <2>1, <2>2, <2>3
<1>6. T2 \subseteq T \cup (DOMAIN bs2 \ DOMAIN bs)
  BY <1>0, <1>2
<1>7. Len(bs) <= Len(bs2) /\ \A b \in DOMAIN bs \ T : bs2[b] = bs[b]
  BY <1>0, <1>1
<1>8. Changes(bs, bs2, T, T2)
  BY <1>0, <1>1, <1>4, <1>5, <1>6, <1>7 DEF Changes
<1> QED
  BY <1>1, <1>3, <1>8

LEMMA ChangesTrans ==
  ASSUME NEW bs \in Seq(Block), NEW bs1, NEW bs2, NEW T, NEW T1, NEW T2,
         T \subseteq DOMAIN bs, Changes(bs, bs1, T, T1), Changes(bs1, bs2, T1, T2)
  PROVE  Changes(bs, bs2, T, T2)
<1> DEFINE D == DOMAIN bs
           D1 == DOMAIN bs1
           D2 == DOMAIN bs2
<1>1. /\ bs1 \in Seq(Block) /\ bs2 \in Seq(Block)
      /\ Len(bs) \in Nat /\ Len(bs1) \in Nat /\ Len(bs2) \in Nat
      /\ Len(bs) <= Len(bs1) /\ Len(bs1) <= Len(bs2)
  BY DEF Changes
<1>2. T \subseteq D /\ D \subseteq D1 /\ D1 \subseteq D2
  BY <1>1
<1>3. /\ \A b \in D \ T : bs1[b] = bs[b]
      /\ T1 \subseteq T \cup (D1 \ D)
      /\ \A b \in T \cup (D1 \ D) : Open(bs1, b) <=> b \in T1
      /\ \A b \in D1 \ T1 : bs2[b] = bs1[b]
      /\ T2 \subseteq T1 \cup (D2 \ D1)
      /\ \A b \in T1 \cup (D2 \ D1) : Open(bs2, b) <=> b \in T2
      /\ \A b \in D2 : ~bs2[b].final
  BY DEF Changes
<1> HIDE DEF D, D1, D2
<1>4. \A b \in D \ T : bs2[b] = bs[b]
  BY <1>2, <1>3
<1>5. T2 \subseteq T \cup (D2 \ D)
  BY <1>2, <1>3
<1>6. \A b \in T \cup (D2 \ D) : Open(bs2, b) <=> b \in T2
  <2> SUFFICES ASSUME NEW b \in T \cup (D2 \ D) PROVE Open(bs2, b) <=> b \in T2
    OBVIOUS
  <2>1. CASE b \in T1 \cup (D2 \ D1)
    BY <1>3, <2>1
  <2>2. CASE b \in D1 \ T1
    <3>1. b \in T \cup (D1 \ D) /\ bs2[b] = bs1[b]
      BY <1>3, <2>2
    <3>2. ~Open(bs1, b) /\ b \notin T2
      BY <1>3, <2>2, <3>1
    <3> QED
      BY <3>1, <3>2 DEF Open
  <2> QED
    BY <1>2, <2>1, <2>2
<1>7. Len(bs) <= Len(bs2)
  BY <1>1
<1> QED
  BY <1>1, <1>3, <1>4, <1>5, <1>6, <1>7 DEF Changes, D, D2

\* A new block takes over from the current one, and a call waits for its end.
LEMMA ForkEnter ==
  ASSUME NEW h, Ready(blocks, cur, frames, at, h), cur # NoBlock, at = "stmt",
         NEW f \in Frames, f.k \in Roots, \A b : b \notin Pending(f), Pushed(f) = 0,
         FrameOK(Len(blocks) + 1, f), NEW a2
  PROVE  EndsWell(blocks, ForkBlock(blocks, cur), Len(blocks) + 1, Append(frames, f), a2)
<1> DEFINE bs2 == ForkBlock(blocks, cur)
           n == Len(blocks)
           T == Only(cur)
           c2 == n + 1
<1>1. /\ blocks \in Seq(Block) /\ cur \in DOMAIN blocks /\ n \in Nat
      /\ Tidy(blocks, T) /\ T = {cur}
      /\ Len(blocks[cur].stack) = h[Len(frames)] /\ h[Len(frames)] \in Nat
  BY CurReady
<1>2. /\ Effect(blocks, bs2, {cur}, 1)
      /\ Len(bs2[c2].stack) = Len(blocks[cur].stack)
  <2> DEFINE ps == <<cur>>
  <2>1. 1 \in DOMAIN ps /\ ps[1] = cur /\ Blocks(ps) = {cur}
    BY DEF Blocks
  <2> HIDE DEF ps
  <2>2. /\ Effect(blocks, TangleBlocks(blocks, cur, ps), Blocks(ps), 1)
        /\ Len(TangleBlocks(blocks, cur, ps)[n + 1].stack) = Len(blocks[ps[1]].stack)
    BY <1>1, <2>1, TangleEffect, ZenonT(60)
  <2> QED
    BY <2>1, <2>2 DEF ForkBlock, ps
<1>3. c2 # NoBlock /\ c2 \in 1 .. c2 /\ c2 \in Nat
  BY <1>1 DEF NoBlock
<1>4. \A b : b \in Top(c2, f) <=> (b \in T /\ b \notin {cur}) \/ b \in n + 1 .. n + 1
  BY <1>1, <1>3 DEF Top, Only
<1> HIDE DEF T, bs2
<1>5. Changes(blocks, bs2, T, Top(c2, f)) /\ Len(bs2) = n + 1
  <2> DEFINE S == {cur}
             T2 == Top(c2, f)
             one == 1
  <2>1. S \subseteq T /\ one \in Nat /\ Tidy(blocks, T)
    BY <1>1
  <2>2. Effect(blocks, bs2, S, one)
    BY <1>2
  <2>3. Becomes(T, S, blocks, one, T2)
    BY <1>4 DEF Becomes
  <2> HIDE DEF S, T2, one
  <2>4. Changes(blocks, bs2, T, T2) /\ Len(bs2) = Len(blocks) + one
    BY <2>1, <2>2, <2>3, EffectTidy
  <2> QED
    BY <2>4 DEF T2, one
<1>6. at \in Between /\ c2 \in 0 .. Len(bs2) /\ FrameOK(Len(bs2), f)
  BY <1>1, <1>3, <1>5, ModesApart
<1> HIDE DEF c2
<1>7. c2 # NoBlock => Len(bs2[c2].stack) = h[Len(frames)] + Pushed(f)
  BY <1>1, <1>2
<1>8. c2 \notin Pending(f) /\ Pushed(f) \in Nat
  OBVIOUS
<1>9. \A b \in Pending(f) :
        Len(bs2[b].stack) = IF f.k \in {"tfirst", "tsecond"} THEN h[Len(frames)] ELSE 0
  OBVIOUS
<1>10. EndsWell(blocks, bs2, c2, Append(frames, f), a2)
  BY <1>3, <1>5, <1>6, <1>7, <1>8, <1>9, EnterReady DEF T
<1> QED
  BY <1>10 DEF bs2, c2

LEMMA NestedWell ==
  ASSUME NEW h, Ready(blocks, cur, frames, at, h), scope \in Seq(Nat), Nested
  PROVE  Well
<1> DEFINE f == [Frame("block") EXCEPT !.ctx = cur]
<1>1. /\ at = "stmt" /\ cur # NoBlock /\ frames' = Append(frames, f)
      /\ cur' = Len(blocks) + 1 /\ at' = "stmt" /\ blocks' = ForkBlock(blocks, cur)
  BY DEF Nested, Statement, Enter, Produce
<1>2. cur \in 1 .. Len(blocks) /\ Len(blocks) \in Nat
  BY <1>1, CurFacts
<1>3. f \in Frames /\ f.k = "block" /\ f.ctx = cur
  <2>1. "block" \in FrameKinds
    BY DEF FrameKinds
  <2> DEFINE F == Frame("block")
  <2>2. F \in Frames /\ F.k = "block"
    BY <2>1, FrameType
  <2> HIDE DEF F
  <2>4. cur \in Nat
    BY <1>2
  <2>3. [F EXCEPT !.ctx = cur] \in Frames /\ [F EXCEPT !.ctx = cur].k = "block"
        /\ [F EXCEPT !.ctx = cur].ctx = cur
    BY <2>2, <2>4 DEF Frames
  <2> QED
    BY <2>3 DEF F
<1> HIDE DEF f
<1>4. f.k \in Roots /\ f.k \in Light /\ Pushed(f) = 0 /\ FrameOK(Len(blocks) + 1, f)
  BY <1>2, <1>3 DEF Roots, Light, Pushed, FrameOK
<1>5. \A b : b \notin Pending(f)
  BY <1>4, LightPending
<1>6. EndsWell(blocks, ForkBlock(blocks, cur), Len(blocks) + 1, Append(frames, f), "stmt")
  BY <1>1, <1>3, <1>4, <1>5, ForkEnter
<1> QED
  BY <1>1, <1>6 DEF Well

LEMMA WhileWell ==
  ASSUME NEW h, Ready(blocks, cur, frames, at, h), scope \in Seq(Nat), While
  PROVE  Well
<1> DEFINE n == Len(blocks) + 1
           f == [Frame("while") EXCEPT !.oth = n]
<1>1. /\ at = "stmt" /\ cur # NoBlock /\ frames' = Append(frames, f)
      /\ cur' = n /\ at' = "expr" /\ blocks' = ForkBlock(blocks, cur)
  BY DEF While, Statement, Enter, Produce
<1>2. n \in Nat /\ n \in 1 .. n
  BY <1>1, CurFacts
<1> HIDE DEF n
<1>3. f \in Frames /\ f.k = "while" /\ f.oth = n
  <2>1. "while" \in FrameKinds
    BY DEF FrameKinds
  <2> DEFINE F == Frame("while")
  <2>2. F \in Frames /\ F.k = "while"
    BY <2>1, FrameType
  <2> HIDE DEF F
  <2>3. [F EXCEPT !.oth = n] \in Frames /\ [F EXCEPT !.oth = n].k = "while"
        /\ [F EXCEPT !.oth = n].oth = n
    BY <1>2, <2>2 DEF Frames
  <2> QED
    BY <2>3 DEF F
<1> HIDE DEF f
<1>4. f.k \in Roots /\ f.k \in Light /\ Pushed(f) = 0 /\ FrameOK(n, f)
  BY <1>2, <1>3 DEF Roots, Light, Pushed, FrameOK
<1>5. \A b : b \notin Pending(f)
  BY <1>4, LightPending
<1>6. EndsWell(blocks, ForkBlock(blocks, cur), n, Append(frames, f), "expr")
  BY <1>1, <1>3, <1>4, <1>5, ForkEnter DEF n
<1> QED
  BY <1>1, <1>6 DEF Well

LEMMA DoWhileWell ==
  ASSUME NEW h, Ready(blocks, cur, frames, at, h), scope \in Seq(Nat), DoWhile
  PROVE  Well
<1> DEFINE n == Len(blocks) + 1
           f == [Frame("do") EXCEPT !.par = cur, !.oth = n, !.ctx = n, !.prev = n]
<1>1. /\ at = "stmt" /\ cur # NoBlock /\ frames' = Append(frames, f)
      /\ cur' = n /\ at' = "stmt" /\ blocks' = ForkBlock(blocks, cur)
  BY DEF DoWhile, Statement, Enter, Produce
<1>2. n \in Nat /\ n \in 1 .. n /\ cur \in 1 .. n /\ cur \in Nat
  BY <1>1, CurFacts
<1> HIDE DEF n
<1>3. /\ f \in Frames /\ f.k = "do" /\ f.oth = n /\ f.par = cur /\ f.ctx = n /\ f.prev = n
      /\ f.brk = <<>> /\ f.cont = <<>>
  <2>1. "do" \in FrameKinds
    BY DEF FrameKinds
  <2> DEFINE F == Frame("do")
             g == [F EXCEPT !.par = cur, !.oth = n, !.ctx = n, !.prev = n]
  <2>2. F \in Frames /\ F.k = "do" /\ F.brk = <<>> /\ F.cont = <<>>
    BY <2>1, FrameType DEF Frame
  <2> HIDE DEF F
  <2>3. /\ g \in Frames /\ g.k = "do" /\ g.oth = n /\ g.par = cur /\ g.ctx = n /\ g.prev = n
        /\ g.brk = <<>> /\ g.cont = <<>>
    BY <1>2, <2>2 DEF Frames
  <2> QED
    BY <2>3 DEF F
<1> HIDE DEF f
<1>4. Blocks(f.brk) = {} /\ Blocks(f.cont) = {}
  BY <1>3 DEF Blocks
<1>5. f.k \in Roots /\ Pushed(f) = 0
  BY <1>3 DEF Roots, Pushed
<1>6. FrameOK(n, f)
  <2>1. <<>> \in Seq(1 .. n)
    OBVIOUS
  <2> QED
    BY <1>2, <1>3, <1>4, <2>1 DEF FrameOK
<1>7. \A b : b \notin Pending(f)
  BY <1>3, <1>4, PendingIs
<1>8. EndsWell(blocks, ForkBlock(blocks, cur), n, Append(frames, f), "stmt")
  BY <1>1, <1>3, <1>5, <1>6, <1>7, ForkEnter DEF n
<1> QED
  BY <1>1, <1>8 DEF Well

LEMMA TopTidy ==
  ASSUME NEW h, Ready(blocks, cur, frames, at, h), frames # <<>>
  PROVE  Tidy(blocks, Top(cur, top))
<1>1. blocks \in Seq(Block) /\ \A b \in DOMAIN blocks : ~blocks[b].final
  BY DEF Ready, Shape
<1>2. Top(cur, top) \subseteq DOMAIN blocks /\ \A b \in Top(cur, top) : Open(blocks, b)
  BY TopReady DEF top
<1> QED
  BY <1>1, <1>2 DEF Tidy

LEMMA TopEffect ==
  ASSUME NEW h, Ready(blocks, cur, frames, at, h), frames # <<>>,
         NEW S, S \subseteq Top(cur, top), NEW n \in Nat,
         NEW bs2, Effect(blocks, bs2, S, n), NEW T2, Becomes(Top(cur, top), S, blocks, n, T2)
  PROVE  Changes(blocks, bs2, Top(cur, top), T2) /\ Len(bs2) = Len(blocks) + n
BY TopTidy, EffectTidy

\* Blocks are joined and added, and the topmost call goes on to its next stage.
LEMMA EffectSwap ==
  ASSUME NEW h, Ready(blocks, cur, frames, at, h), frames # <<>>,
         NEW S, S \subseteq Top(cur, top), NEW n \in Nat,
         NEW bs2, Effect(blocks, bs2, S, n), NEW c2 \in 0 .. Len(blocks) + n, NEW f \in Frames,
         Becomes(Top(cur, top), S, blocks, n, Top(c2, f)),
         FrameOK(Len(blocks) + n, f), c2 \notin Pending(f), Pushed(f) = 0,
         f.k \notin {"tfirst", "tsecond"} => top.k \in Roots,
         \A b \in Pending(f) : Len(bs2[b].stack) = h[Len(frames) - 1],
         c2 # NoBlock => Len(bs2[c2].stack) = h[Len(frames) - 1],
         NEW a2, a2 \in Filling => c2 # NoBlock, a2 \in Between => top.k \in Roots
  PROVE  EndsWell(blocks, bs2, c2, Append(Below, f), a2)
<1> DEFINE T == Top(cur, top)
           T2 == Top(c2, f)
           g == h[Len(frames) - 1]
<1>1. Becomes(T, S, blocks, n, T2)
  OBVIOUS
<1>2. g \in Nat /\ (top.k \in Roots => g = 0)
  BY TopReady DEF top
<1> HIDE DEF T2, g
<1>3. Changes(blocks, bs2, T, T2) /\ Len(bs2) = Len(blocks) + n
  BY <1>1, TopEffect
<1> HIDE DEF T
<1>4. c2 \in 0 .. Len(bs2) /\ FrameOK(Len(bs2), f) /\ Pushed(f) \in Nat
  BY <1>3
<1>5. f.k \in Roots => f.k \notin {"tfirst", "tsecond"}
  BY DEF Roots
<1>6. f.k \in Roots => top.k \in Roots
  BY <1>5
<1>7. \A b \in Pending(f) :
        Len(bs2[b].stack) = IF f.k \in {"tfirst", "tsecond"} THEN g ELSE 0
  BY <1>2 DEF g
<1>8. c2 # NoBlock => Len(bs2[c2].stack) = g + Pushed(f)
  BY <1>2 DEF g
<1>9. a2 \in Between => top.k \in Roots /\ Pushed(f) = 0
  OBVIOUS
<1>10. Changes(blocks, bs2, Top(cur, top), Top(c2, f))
  BY <1>3 DEF T, T2
<1> QED
  BY <1>4, <1>6, <1>7, <1>8, <1>9, <1>10, SwapReady DEF top, Below, g

\* Blocks are joined and added, and the topmost call is done.
LEMMA EffectLeave ==
  ASSUME NEW h, Ready(blocks, cur, frames, at, h), frames # <<>>, top.k \in Roots,
         NEW S, S \subseteq Top(cur, top), NEW n \in Nat,
         NEW bs2, Effect(blocks, bs2, S, n), NEW c2 \in 0 .. Len(blocks) + n,
         Becomes(Top(cur, top), S, blocks, n, Only(c2)),
         c2 # NoBlock => Len(bs2[c2].stack) = 0
  PROVE  EndsWell(blocks, bs2, c2, Below, "stmt")
<1> DEFINE T == Top(cur, top)
           T2 == Only(c2)
           g == h[Len(frames) - 1]
<1>1. Becomes(T, S, blocks, n, T2)
  OBVIOUS
<1>2. g = 0
  BY TopReady DEF top
<1> HIDE DEF T2, g
<1>3. Changes(blocks, bs2, T, T2) /\ Len(bs2) = Len(blocks) + n
  BY <1>1, TopEffect
<1> HIDE DEF T
<1>4. c2 \in 0 .. Len(bs2) /\ (c2 # NoBlock => Len(bs2[c2].stack) = g)
  BY <1>2, <1>3
<1>5. Changes(blocks, bs2, Top(cur, top), Only(c2))
  BY <1>3 DEF T, T2
<1> QED
  BY <1>4, <1>5, LeaveReady, ModesApart DEF top, Below, g

\* Nothing happens to the blocks.
LEMMA SameEffect ==
  ASSUME NEW bs \in Seq(Block)
  PROVE  Effect(bs, bs, {}, 0)
<1>1. Len(bs) = Len(bs) + 0
  OBVIOUS
<1> QED
  BY <1>1 DEF Effect

\* A condition is done, and both its branches are to follow.
LEMMA BranchSwap ==
  ASSUME NEW h, Ready(blocks, cur, frames, at, h), at = "value", frames # <<>>,
         top.k \in Light, Pushed(top) = 0,
         NEW f \in Frames, \A b : b \in Pending(f) <=> b = Len(blocks) + 2,
         FrameOK(Len(blocks) + 2, f), Pushed(f) = 0,
         f.k \notin {"tfirst", "tsecond"} => top.k \in Roots,
         NEW a2, a2 \in Between => top.k \in Roots
  PROVE  EndsWell(blocks, BranchInto(blocks, cur), Len(blocks) + 1, Append(Below, f), a2)
<1> DEFINE bs2 == BranchInto(blocks, cur)
           c2 == Len(blocks) + 1
           g == h[Len(frames) - 1]
           S == {cur}
           two == 2
<1>1. /\ cur # NoBlock /\ g \in Nat /\ Len(blocks[cur].stack) = g
  BY TopFacts
<1>2. blocks \in Seq(Block) /\ cur \in DOMAIN blocks /\ Len(blocks) \in Nat
  BY <1>1, CurFacts
<1>3. /\ Effect(blocks, bs2, S, two)
      /\ Len(bs2[c2].stack) = g /\ Len(bs2[Len(blocks) + 2].stack) = g
  BY <1>1, <1>2, BranchIntoEffect
<1>4. \A b : b \in Top(cur, top) <=> b = cur
  BY <1>1, LightPending DEF Top, Only
<1>5. c2 # NoBlock /\ c2 \in 0 .. Len(blocks) + two /\ two \in Nat
  BY <1>2 DEF NoBlock
<1>6. c2 \notin Pending(f)
  BY <1>2
<1>7. \A b : b \in Top(c2, f) <=> b = c2 \/ b = Len(blocks) + 2
  BY <1>5 DEF Top, Only
<1>8. Becomes(Top(cur, top), S, blocks, two, Top(c2, f))
  <2>1. \A b : b \in Len(blocks) + 1 .. Len(blocks) + two <=> b = c2 \/ b = Len(blocks) + 2
    BY <1>2
  <2> HIDE DEF two, c2
  <2> QED
    BY <1>4, <1>7, <2>1 DEF Becomes
<1>9. S \subseteq Top(cur, top)
  BY <1>4
<1>10. /\ \A b \in Pending(f) : Len(bs2[b].stack) = g
       /\ FrameOK(Len(blocks) + two, f)
  BY <1>3
<1> HIDE DEF two, c2, S, bs2
<1>11. EndsWell(blocks, bs2, c2, Append(Below, f), a2)
  BY <1>3, <1>5, <1>6, <1>8, <1>9, <1>10, EffectSwap DEF g
<1> QED
  BY <1>11 DEF bs2, c2

LEMMA EndIfConditionWell ==
  ASSUME NEW h, Ready(blocks, cur, frames, at, h), scope \in Seq(Nat), EndIfCondition
  PROVE  Well
<1> DEFINE d == Len(blocks) + 2
           f == [Frame("then") EXCEPT !.ctx = cur, !.oth = d]
<1>1. /\ at = "value" /\ frames # <<>> /\ top.k = "if"
      /\ frames' = Append(Below, f) /\ cur' = Len(blocks) + 1 /\ at' = "stmt"
      /\ blocks' = BranchInto(blocks, cur)
  BY DEF EndIfCondition, Returned, Waiting, Replace, Produce
<1>2. cur # NoBlock
  BY <1>1, TopFacts
<1>3. cur \in 1 .. d /\ cur \in Nat /\ d \in Nat /\ d \in 1 .. d /\ d # NoBlock
  BY <1>2, CurFacts DEF NoBlock
<1> HIDE DEF d
<1>4. f \in Frames /\ f.k = "then" /\ f.ctx = cur /\ f.oth = d
  <2>1. "then" \in FrameKinds
    BY DEF FrameKinds
  <2> DEFINE F == Frame("then")
             g == [F EXCEPT !.ctx = cur, !.oth = d]
  <2>2. F \in Frames /\ F.k = "then"
    BY <2>1, FrameType
  <2> HIDE DEF F
  <2>3. g \in Frames /\ g.k = "then" /\ g.ctx = cur /\ g.oth = d
    BY <1>3, <2>2 DEF Frames
  <2> QED
    BY <2>3 DEF F
<1> HIDE DEF f
<1>5. \A b : b \in Pending(f) <=> b = d
  BY <1>3, <1>4, PendingIs
<1>6. FrameOK(d, f) /\ Pushed(f) = 0
  BY <1>3, <1>4 DEF FrameOK, Pushed
<1>7. top.k \in Light /\ top.k \in Roots /\ Pushed(top) = 0
  BY <1>1 DEF Light, Roots, Pushed
<1>8. EndsWell(blocks, BranchInto(blocks, cur), Len(blocks) + 1, Append(Below, f), "stmt")
  BY <1>1, <1>4, <1>5, <1>6, <1>7, BranchSwap DEF d
<1> QED
  BY <1>1, <1>8 DEF Well

LEMMA EndWhileConditionWell ==
  ASSUME NEW h, Ready(blocks, cur, frames, at, h), EndWhileCondition
  PROVE  Well
<1> DEFINE d == Len(blocks) + 2
           f == [top EXCEPT !.k = "wbody", !.post = d]
<1>1. /\ at = "value" /\ frames # <<>> /\ top.k = "while"
      /\ frames' = Append(Below, f) /\ cur' = Len(blocks) + 1 /\ at' = "stmt"
      /\ blocks' = BranchInto(blocks, cur)
  BY DEF EndWhileCondition, Returned, Waiting, Replace, Produce
<1>2. cur # NoBlock /\ top \in Frames /\ FrameOK(Len(blocks), top)
  BY <1>1, TopFacts
<1>3. d \in Nat /\ d \in 1 .. d /\ d # NoBlock /\ 1 .. Len(blocks) \subseteq 1 .. d
  BY <1>2, CurFacts DEF NoBlock
<1>4. top.oth \in 1 .. d
  BY <1>1, <1>2, <1>3 DEF FrameOK
<1> HIDE DEF d
<1>5. f \in Frames /\ f.k = "wbody" /\ f.oth = top.oth /\ f.post = d
  BY <1>2, <1>3 DEF Frames, FrameKinds
<1> HIDE DEF f
<1>6. \A b : b \in Pending(f) <=> b = d
  BY <1>3, <1>5, PendingIs
<1>7. FrameOK(d, f) /\ Pushed(f) = 0
  BY <1>3, <1>4, <1>5 DEF FrameOK, Pushed
<1>8. top.k \in Light /\ top.k \in Roots /\ Pushed(top) = 0
  BY <1>1 DEF Light, Roots, Pushed
<1>9. EndsWell(blocks, BranchInto(blocks, cur), Len(blocks) + 1, Append(Below, f), "stmt")
  BY <1>1, <1>5, <1>6, <1>7, <1>8, BranchSwap DEF d
<1> QED
  BY <1>1, <1>9 DEF Well

LEMMA EndTernaryConditionWell ==
  ASSUME NEW h, Ready(blocks, cur, frames, at, h), EndTernaryCondition
  PROVE  Well
<1> DEFINE d == Len(blocks) + 2
           f == [top EXCEPT !.k = "tfirst", !.ctx = cur, !.oth = d]
<1>1. /\ at = "value" /\ frames # <<>> /\ top.k = "tcond"
      /\ frames' = Append(Below, f) /\ cur' = Len(blocks) + 1 /\ at' = "expr"
      /\ blocks' = BranchInto(blocks, cur)
  BY DEF EndTernaryCondition, Returned, Waiting, Replace, Produce
<1>2. cur # NoBlock /\ top \in Frames
  BY <1>1, TopFacts
<1>3. cur \in 1 .. d /\ cur \in Nat /\ d \in Nat /\ d \in 1 .. d /\ d # NoBlock
  BY <1>2, CurFacts DEF NoBlock
<1> HIDE DEF d
<1>5. f \in Frames /\ f.k = "tfirst" /\ f.ctx = cur /\ f.oth = d
  BY <1>2, <1>3 DEF Frames, FrameKinds
<1> HIDE DEF f
<1>6. \A b : b \in Pending(f) <=> b = d
  BY <1>3, <1>5, PendingIs
<1>7. FrameOK(d, f) /\ Pushed(f) = 0
  BY <1>3, <1>5 DEF FrameOK, Pushed
<1>8. top.k \in Light /\ Pushed(top) = 0 /\ f.k \in {"tfirst", "tsecond"}
  BY <1>1, <1>5 DEF Light, Pushed
<1>9. EndsWell(blocks, BranchInto(blocks, cur), Len(blocks) + 1, Append(Below, f), "expr")
  BY <1>1, <1>5, <1>6, <1>7, <1>8, BranchSwap, ModesApart DEF d
<1> QED
  BY <1>1, <1>9 DEF Well

\* The first of two branches is done: its end waits, and the other follows.
LEMMA EndFirstWell ==
  ASSUME NEW h, Ready(blocks, cur, frames, at, h), frames # <<>>,
         NEW f \in Frames, NEW a2,
         \/ top.k = "then" /\ f.k = "else" /\ a2 = "stmt"
         \/ top.k = "tfirst" /\ f.k = "tsecond" /\ a2 = "expr" /\ cur # NoBlock,
         f.ctx = top.ctx, f.oth = cur
  PROVE  EndsWell(blocks, blocks, top.oth, Append(Below, f), a2)
<1> DEFINE g == h[Len(frames) - 1]
           S == {}
           none == 0
           c2 == top.oth
<1>1. /\ top \in Frames /\ FrameOK(Len(blocks), top) /\ g \in Nat
      /\ \A b \in Pending(top) :
           Len(blocks[b].stack) = IF top.k \in {"tfirst", "tsecond"} THEN g ELSE 0
      /\ cur \notin Pending(top)
      /\ (cur # NoBlock => Len(blocks[cur].stack) = g + Pushed(top))
      /\ (top.k \in Roots => g = 0)
  BY TopReady DEF top
<1>2. blocks \in Seq(Block) /\ Len(blocks) \in Nat /\ cur \in 0 .. Len(blocks)
  BY DEF Ready, Shape
<1>3. top.k \in {"then", "tfirst"} /\ c2 \in 1 .. Len(blocks) /\ c2 # NoBlock
      /\ top.ctx \in 1 .. Len(blocks)
  BY <1>1, <1>2 DEF FrameOK, NoBlock
<1>4. \A b : b \in Pending(top) <=> b = c2
  BY <1>3, PendingIs
<1>5. \A b : b \in Pending(f) <=> b = cur /\ cur # NoBlock
  <2>1. f.k \in {"else", "tsecond"}
    OBVIOUS
  <2> QED
    BY <2>1, PendingIs
<1>6. c2 \notin Pending(f)
  BY <1>1, <1>4, <1>5
<1>7. Becomes(Top(cur, top), S, blocks, none, Top(c2, f))
  <2>1. \A b : b \notin Len(blocks) + 1 .. Len(blocks) + none
    BY <1>2
  <2>2. \A b : b \in Top(cur, top) <=> (b = cur /\ cur # NoBlock) \/ b = c2
    BY <1>4 DEF Top, Only
  <2>3. \A b : b \in Top(c2, f) <=> (b = cur /\ cur # NoBlock) \/ b = c2
    BY <1>3, <1>5 DEF Top, Only
  <2> HIDE DEF none, c2
  <2> QED
    BY <2>1, <2>2, <2>3 DEF Becomes
<1>8. Pushed(top) = 0 /\ Pushed(f) = 0
  BY <1>3 DEF Pushed
<1>9. FrameOK(Len(blocks), f)
  BY <1>2, <1>3 DEF FrameOK, NoBlock
<1>10. Effect(blocks, blocks, S, none) /\ S \subseteq Top(cur, top)
  BY <1>2, SameEffect
<1>11. /\ c2 \in 0 .. Len(blocks) + none /\ FrameOK(Len(blocks) + none, f) /\ none \in Nat
  BY <1>2, <1>3, <1>9
<1>12. "then" \in Roots /\ "tfirst" \notin Roots /\ "then" \notin {"tfirst", "tsecond"}
  BY DEF Roots
<1>13. \A b \in Pending(f) : Len(blocks[b].stack) = g
  BY <1>1, <1>5, <1>8
<1>14. Len(blocks[c2].stack) = g
  BY <1>1, <1>3, <1>4, <1>12
<1>15. /\ f.k \notin {"tfirst", "tsecond"} => top.k \in Roots
       /\ a2 \in Between => top.k \in Roots
  BY <1>12, ModesApart
<1> HIDE DEF S, none, c2
<1>16. EndsWell(blocks, blocks, c2, Append(Below, f), a2)
  BY <1>3, <1>6, <1>7, <1>8, <1>10, <1>11, <1>13, <1>14, <1>15, EffectSwap DEF g
<1> QED
  BY <1>16 DEF c2

LEMMA EndThenWell ==
  ASSUME NEW h, Ready(blocks, cur, frames, at, h), EndThen
  PROVE  Well
<1> DEFINE f == [top EXCEPT !.k = "else", !.oth = cur]
<1>1. /\ frames # <<>> /\ top.k = "then" /\ at = "stmt"
      /\ frames' = Append(Below, f) /\ cur' = top.oth /\ at' = "stmt" /\ blocks' = blocks
  BY DEF EndThen, EndsBody, Replace
<1>2. top \in Frames
  BY <1>1, TopReady DEF top
<1>3. cur \in Nat
  BY DEF Ready, Shape
<1>4. f \in Frames /\ f.k = "else" /\ f.ctx = top.ctx /\ f.oth = cur
  BY <1>2, <1>3 DEF Frames, FrameKinds
<1> HIDE DEF f
<1>5. EndsWell(blocks, blocks, top.oth, Append(Below, f), "stmt")
  BY <1>1, <1>4, EndFirstWell
<1> QED
  BY <1>1, <1>5 DEF Well

LEMMA EndTernaryFirstWell ==
  ASSUME NEW h, Ready(blocks, cur, frames, at, h), EndTernaryFirst
  PROVE  Well
<1> DEFINE f == [top EXCEPT !.k = "tsecond", !.oth = cur]
<1>1. /\ frames # <<>> /\ top.k = "tfirst" /\ at = "value"
      /\ frames' = Append(Below, f) /\ cur' = top.oth /\ at' = "expr" /\ blocks' = blocks
  BY DEF EndTernaryFirst, Returned, Waiting, Replace
<1>2. top \in Frames /\ cur # NoBlock
  BY <1>1, TopFacts
<1>3. cur \in Nat
  BY DEF Ready, Shape
<1>4. f \in Frames /\ f.k = "tsecond" /\ f.ctx = top.ctx /\ f.oth = cur
  BY <1>2, <1>3 DEF Frames, FrameKinds
<1> HIDE DEF f
<1>5. EndsWell(blocks, blocks, top.oth, Append(Below, f), "expr")
  BY <1>1, <1>2, <1>4, EndFirstWell
<1> QED
  BY <1>1, <1>5 DEF Well

\* Between statements no result waits on the blocks that are joined.
LEMMA RootStacks ==
  ASSUME NEW h, Ready(blocks, cur, frames, at, h), frames # <<>>, top.k \in Roots
  PROVE  \A b \in Top(cur, top) : b \in DOMAIN blocks /\ Len(blocks[b].stack) = 0
<1> DEFINE g == h[Len(frames) - 1]
<1>1. /\ g = 0 /\ Top(cur, top) \subseteq DOMAIN blocks
      /\ \A b \in Pending(top) :
           Len(blocks[b].stack) = IF top.k \in {"tfirst", "tsecond"} THEN g ELSE 0
      /\ (cur # NoBlock => Len(blocks[cur].stack) = g + Pushed(top))
  BY TopReady DEF top
<1>2. Pushed(top) = 0
  BY DEF Roots, Pushed
<1>3. \A b \in Top(cur, top) : (b = cur /\ cur # NoBlock) \/ b \in Pending(top)
  BY DEF Top, Only
<1> HIDE DEF g
<1> QED
  BY <1>1, <1>2, <1>3

\* Nothing is left to join.
LEMMA SameLeave ==
  ASSUME NEW h, Ready(blocks, cur, frames, at, h), frames # <<>>, top.k \in Roots,
         \A b : b \notin Top(cur, top)
  PROVE  EndsWell(blocks, blocks, NoBlock, Below, "stmt")
<1> DEFINE S == {}
           none == 0
           c2 == NoBlock
<1>1. blocks \in Seq(Block) /\ Len(blocks) \in Nat
  BY DEF Ready, Shape
<1>2. Effect(blocks, blocks, S, none) /\ S \subseteq Top(cur, top)
  BY <1>1, SameEffect
<1>3. Becomes(Top(cur, top), S, blocks, none, Only(c2))
  <2>1. \A b : b \notin Len(blocks) + 1 .. Len(blocks) + none
    BY <1>1
  <2>2. \A b : b \notin Only(c2)
    BY DEF Only
  <2> HIDE DEF none, c2
  <2> QED
    BY <2>1, <2>2 DEF Becomes
<1>4. c2 \in 0 .. Len(blocks) + none /\ none \in Nat /\ (c2 # NoBlock => FALSE)
  BY <1>1 DEF NoBlock
<1> HIDE DEF S, none, c2
<1>5. EndsWell(blocks, blocks, c2, Below, "stmt")
  BY <1>2, <1>3, <1>4, EffectLeave
<1> QED
  BY <1>5 DEF c2

\* All the blocks that wait are joined.
LEMMA TangleLeave ==
  ASSUME NEW h, Ready(blocks, cur, frames, at, h), frames # <<>>, top.k \in Roots,
         NEW c \in DOMAIN blocks, NEW ps, 1 \in DOMAIN ps,
         \A b : b \in Blocks(ps) <=> b \in Top(cur, top)
  PROVE  EndsWell(blocks, TangleBlocks(blocks, c, ps), Len(blocks) + 1, Below, "stmt")
<1> DEFINE S == Blocks(ps)
           one == 1
           c2 == Len(blocks) + 1
           bs2 == TangleBlocks(blocks, c, ps)
<1>1. blocks \in Seq(Block) /\ Len(blocks) \in Nat
  BY DEF Ready, Shape
<1>2. \A b \in Top(cur, top) : b \in DOMAIN blocks /\ Len(blocks[b].stack) = 0
  BY RootStacks
<1>3. S \subseteq DOMAIN blocks /\ S \subseteq Top(cur, top)
  BY <1>2
<1>4. ps[1] \in S
  BY DEF Blocks
<1>5. Effect(blocks, bs2, S, one) /\ Len(bs2[c2].stack) = Len(blocks[ps[1]].stack)
  BY <1>1, <1>3, TangleEffect
<1>6. Len(bs2[c2].stack) = 0
  BY <1>2, <1>3, <1>4, <1>5
<1>7. c2 # NoBlock /\ c2 \in 0 .. Len(blocks) + one /\ one \in Nat
  BY <1>1 DEF NoBlock
<1>8. Becomes(Top(cur, top), S, blocks, one, Only(c2))
  <2>1. \A b : b \in Len(blocks) + 1 .. Len(blocks) + one <=> b = c2
    BY <1>1
  <2>2. \A b : b \in Only(c2) <=> b = c2
    BY <1>7 DEF Only
  <2> HIDE DEF one, c2
  <2> QED
    BY <2>1, <2>2 DEF Becomes
<1> HIDE DEF S, one, c2, bs2
<1>9. EndsWell(blocks, bs2, c2, Below, "stmt")
  BY <1>3, <1>5, <1>6, <1>7, <1>8, EffectLeave
<1> QED
  BY <1>9 DEF c2, bs2

LEMMA EndElseWell ==
  ASSUME NEW h, Ready(blocks, cur, frames, at, h), EndElse
  PROVE  Well
<1> DEFINE ends == Ends(top.oth, cur)
<1>1. /\ frames # <<>> /\ top.k = "else"
      /\ IF ends = <<>> THEN Done(Below, NoBlock, blocks)
         ELSE Done(Below, Len(blocks) + 1, TangleBlocks(blocks, top.ctx, ends))
  BY DEF EndElse, EndsBody
<1>2. top.k \in Roots /\ FrameOK(Len(blocks), top) /\ blocks \in Seq(Block)
  <2>1. FrameOK(Len(blocks), top)
    BY <1>1, TopReady DEF top
  <2> QED
    BY <1>1, <2>1 DEF Roots, Ready, Shape
<1>3. top.ctx \in DOMAIN blocks
  BY <1>1, <1>2 DEF FrameOK
<1>4. \A b : b \in Top(cur, top) <=> (b = cur /\ cur # NoBlock) \/ (b = top.oth /\ top.oth # NoBlock)
  BY <1>1, PendingIs DEF Top, Only
<1>5. CASE ends = <<>>
  <2>1. top.oth = NoBlock /\ cur = NoBlock
    BY <1>5 DEF Ends
  <2>2. \A b : b \notin Top(cur, top)
    BY <1>4, <2>1
  <2> QED
    BY <1>1, <1>2, <1>5, <2>2, SameLeave, DoneWell
<1>6. CASE ends # <<>>
  <2>1. /\ 1 \in DOMAIN ends
        /\ \A b : b \in Blocks(ends) <=> (b = cur /\ cur # NoBlock)
                                           \/ (b = top.oth /\ top.oth # NoBlock)
    <3>1. CASE top.oth = NoBlock /\ cur = NoBlock
      BY <1>6, <3>1 DEF Ends
    <3>2. CASE top.oth = NoBlock /\ cur # NoBlock
      <4>1. ends = <<cur>>
        BY <3>2 DEF Ends
      <4> HIDE DEF ends
      <4> QED
        BY <3>2, <4>1 DEF Blocks
    <3>3. CASE top.oth # NoBlock /\ cur = NoBlock
      <4>1. ends = <<top.oth>>
        BY <3>3 DEF Ends
      <4> HIDE DEF ends
      <4> QED
        BY <3>3, <4>1 DEF Blocks
    <3>4. CASE top.oth # NoBlock /\ cur # NoBlock
      <4>1. ends = <<top.oth, cur>>
        BY <3>4 DEF Ends
      <4>2. DOMAIN <<top.oth, cur>> = {1, 2}
        OBVIOUS
      <4> HIDE DEF ends
      <4>3. \A b : b \in Blocks(ends) <=> b = ends[1] \/ b = ends[2]
        BY <4>1, <4>2 DEF Blocks
      <4> QED
        BY <3>4, <4>1, <4>2, <4>3
    <3> QED
      BY <3>1, <3>2, <3>3, <3>4
  <2> HIDE DEF ends
  <2>2. \A b : b \in Blocks(ends) <=> b \in Top(cur, top)
    BY <1>4, <2>1
  <2>3. EndsWell(blocks, TangleBlocks(blocks, top.ctx, ends), Len(blocks) + 1, Below, "stmt")
    BY <1>1, <1>2, <1>3, <2>1, <2>2, TangleLeave
  <2> QED
    BY <1>1, <1>6, <2>3, DoneWell
<1> QED
  BY <1>5, <1>6

LEMMA EndNestedWell ==
  ASSUME NEW h, Ready(blocks, cur, frames, at, h), EndNested
  PROVE  Outcome
<1> DEFINE ps == <<cur>>
<1>1. frames # <<>> /\ top.k = "block"
  BY DEF EndNested, EndsBody
<1>2. CASE cur = NoBlock
  BY <1>2 DEF EndNested, Outcome
<1>3. CASE cur # NoBlock
  <2>1. Done(Below, Len(blocks) + 1, TangleBlocks(blocks, top.ctx, ps))
    BY <1>3 DEF EndNested, RejoinBlock
  <2>2. top.k \in Roots /\ top.k \in Light /\ blocks \in Seq(Block)
    BY <1>1 DEF Roots, Light, Ready, Shape
  <2>3. FrameOK(Len(blocks), top)
    BY <1>1, TopReady DEF top
  <2>4. top.ctx \in DOMAIN blocks
    BY <1>1, <2>2, <2>3 DEF FrameOK
  <2>5. 1 \in DOMAIN ps /\ \A b : b \in Blocks(ps) <=> b = cur
    BY DEF Blocks
  <2> HIDE DEF ps
  <2>6. \A b : b \in Blocks(ps) <=> b \in Top(cur, top)
    BY <1>3, <2>2, <2>5, LightPending DEF Top, Only
  <2>7. EndsWell(blocks, TangleBlocks(blocks, top.ctx, ps), Len(blocks) + 1, Below, "stmt")
    BY <1>1, <2>2, <2>4, <2>5, <2>6, TangleLeave
  <2> QED
    BY <2>1, <2>7, DoneWell DEF Outcome
<1> QED
  BY <1>2, <1>3

LEMMA EndWhileWell ==
  ASSUME NEW h, Ready(blocks, cur, frames, at, h), EndWhile
  PROVE  Well
<1> DEFINE S == Only(cur)
           none == 0
           c2 == top.post
           bs2 == JoinBlocks(blocks, S, top.oth)
<1>1. frames # <<>> /\ top.k = "wbody" /\ Done(Below, c2, bs2)
  BY DEF EndWhile, EndsBody, Only
<1>2. top.k \in Roots /\ blocks \in Seq(Block) /\ Len(blocks) \in Nat
  BY <1>1 DEF Roots, Ready, Shape
<1>3. FrameOK(Len(blocks), top) /\ cur \notin Pending(top)
  BY <1>1, TopReady DEF top
<1>4. top.oth \in DOMAIN blocks /\ c2 \in 1 .. Len(blocks) /\ c2 # NoBlock
  BY <1>1, <1>2, <1>3 DEF FrameOK, NoBlock
<1>5. \A b \in Top(cur, top) : b \in DOMAIN blocks /\ Len(blocks[b].stack) = 0
  BY <1>1, <1>2, RootStacks
<1>6. \A b : b \in Pending(top) <=> b = c2
  BY <1>1, <1>4, PendingIs
<1>7. S \subseteq Top(cur, top) /\ S \in SUBSET DOMAIN blocks /\ c2 \in Top(cur, top) /\ c2 \notin S
  BY <1>3, <1>5, <1>6 DEF Top, Only
<1>8. Effect(blocks, bs2, S, none)
  BY <1>2, <1>4, <1>7, JoinBlocksEffect
<1>9. Becomes(Top(cur, top), S, blocks, none, Only(c2))
  <2>1. \A b : b \notin Len(blocks) + 1 .. Len(blocks) + none
    BY <1>2
  <2>2. \A b : b \in Only(c2) <=> b = c2
    BY <1>4 DEF Only
  <2>3. \A b : b \in Top(cur, top) <=> b \in S \/ b = c2
    BY <1>6 DEF Top
  <2> HIDE DEF none, c2, S
  <2> QED
    BY <1>7, <2>1, <2>2, <2>3 DEF Becomes
<1>10. bs2[c2] = blocks[c2]
  BY <1>4, <1>7 DEF JoinBlocks
<1>11. Len(bs2[c2].stack) = 0
  BY <1>5, <1>7, <1>10
<1>12. c2 \in 0 .. Len(blocks) + none /\ none \in Nat
  BY <1>2, <1>4
<1> HIDE DEF S, none, c2, bs2
<1>13. EndsWell(blocks, bs2, c2, Below, "stmt")
  BY <1>1, <1>2, <1>7, <1>8, <1>9, <1>11, <1>12, EffectLeave
<1> QED
  BY <1>1, <1>13, DoneWell

\* One more block in a list of a loop.
LEMMA Prepend ==
  ASSUME NEW T, NEW c \in T, NEW s \in Seq(T)
  PROVE  /\ <<c>> \o s \in Seq(T)
         /\ <<c>> \o s # <<>> /\ 1 \in DOMAIN (<<c>> \o s)
         /\ \A b : b \in Blocks(<<c>> \o s) <=> b = c \/ b \in Blocks(s)
<1> DEFINE r == <<c>> \o s
<1>1. /\ r \in Seq(T) /\ Len(s) \in Nat /\ Len(r) = Len(s) + 1 /\ r[1] = c
      /\ \A i \in 1 .. Len(s) : r[i + 1] = s[i]
  OBVIOUS
<1>2. DOMAIN r = 1 .. Len(s) + 1 /\ DOMAIN s = 1 .. Len(s)
  BY <1>1
<1> HIDE DEF r
<1>3. 1 \in DOMAIN r /\ r # <<>>
  BY <1>1, <1>2
<1>4. ASSUME NEW b
      PROVE  b \in Blocks(r) <=> b = c \/ b \in Blocks(s)
  <2>1. b \in Blocks(r) <=> \E j \in 1 .. Len(s) + 1 : b = r[j]
    BY <1>2 DEF Blocks
  <2>2. b \in Blocks(s) <=> \E j \in 1 .. Len(s) : b = s[j]
    BY <1>2 DEF Blocks
  <2>3. (\E j \in 1 .. Len(s) + 1 : b = r[j]) => b = c \/ \E j \in 1 .. Len(s) : b = s[j]
    <3> SUFFICES ASSUME NEW j \in 1 .. Len(s) + 1, b = r[j], b # c
                 PROVE  \E i \in 1 .. Len(s) : b = s[i]
      OBVIOUS
    <3>1. j # 1
      BY <1>1
    <3>2. j - 1 \in 1 .. Len(s) /\ r[(j - 1) + 1] = r[j]
      BY <1>1, <3>1
    <3>3. b = s[j - 1]
      BY <1>1, <3>2
    <3> QED
      BY <3>2, <3>3
  <2>4. (b = c \/ \E j \in 1 .. Len(s) : b = s[j]) => \E j \in 1 .. Len(s) + 1 : b = r[j]
    <3>1. 1 \in 1 .. Len(s) + 1 /\ \A j \in 1 .. Len(s) : j + 1 \in 1 .. Len(s) + 1
      BY <1>1
    <3> QED
      BY <1>1, <3>1
  <2> QED
    BY <2>1, <2>2, <2>3, <2>4
<1> QED
  BY <1>1, <1>3, <1>4 DEF r

\* A block left by break or continue joins one of the loop's lists.
LEMMA ListedFrame ==
  ASSUME NEW n \in Nat, NEW f \in Frames, FrameOK(n, f), f.k = "do",
         NEW c \in 1 .. n, c \notin Pending(f),
         NEW g, \/ g = [f EXCEPT !.brk = <<c>> \o f.brk]
                \/ g = [f EXCEPT !.cont = <<c>> \o f.cont]
  PROVE  /\ g \in Frames /\ FrameOK(n, g) /\ g.k = "do"
         /\ \A b : b \in Pending(g) <=> b \in Pending(f) \/ b = c
<1>1. /\ f.ctx \in 1 .. n /\ f.oth \in 1 .. n /\ f.par \in 1 .. n /\ f.prev \in 1 .. n
      /\ f.brk \in Seq(1 .. n) /\ f.cont \in Seq(1 .. n)
      /\ Blocks(f.brk) \cap Blocks(f.cont) = {}
  BY DEF FrameOK
<1>2. c \notin Blocks(f.brk) /\ c \notin Blocks(f.cont) /\ c # NoBlock
  <2>1. c # NoBlock
    BY DEF NoBlock
  <2> QED
    BY <2>1, PendingIs
<1> DEFINE brk2 == <<c>> \o f.brk
           cont2 == <<c>> \o f.cont
<1>3. /\ brk2 \in Seq(1 .. n) /\ \A b : b \in Blocks(brk2) <=> b = c \/ b \in Blocks(f.brk)
      /\ cont2 \in Seq(1 .. n) /\ \A b : b \in Blocks(cont2) <=> b = c \/ b \in Blocks(f.cont)
  BY <1>1, Prepend
<1>4. brk2 \in Seq(Nat) /\ cont2 \in Seq(Nat)
  BY <1>3
<1> HIDE DEF brk2, cont2
<1>5. /\ g \in Frames /\ g.k = "do" /\ g.oth = f.oth /\ g.par = f.par
      /\ g.ctx = f.ctx /\ g.prev = f.prev
      /\ \/ g.brk = brk2 /\ g.cont = f.cont
         \/ g.brk = f.brk /\ g.cont = cont2
  <2>1. CASE g = [f EXCEPT !.brk = brk2]
    BY <1>4, <2>1 DEF Frames
  <2>2. CASE g = [f EXCEPT !.cont = cont2]
    BY <1>4, <2>2 DEF Frames
  <2> QED
    BY <2>1, <2>2 DEF brk2, cont2
<1>6. Blocks(g.brk) \cap Blocks(g.cont) = {}
  BY <1>1, <1>2, <1>3, <1>5
<1>7. FrameOK(n, g)
  BY <1>1, <1>3, <1>5, <1>6 DEF FrameOK
<1>8. \A b : b \in Pending(g) <=> b \in Pending(f) \/ b = c
  BY <1>2, <1>3, <1>5, PendingIs
<1> QED
  BY <1>5, <1>7, <1>8

LEMMA ControlWell ==
  ASSUME NEW h, Ready(blocks, cur, frames, at, h),
         NEW k, NEW i, Control(k, i)
  PROVE  Well
<1>1. /\ at = "stmt" /\ cur # NoBlock /\ i \in DOMAIN frames /\ cur' = NoBlock /\ at' = "stmt"
  BY DEF Control, Statement
<1>2. /\ blocks \in Seq(Block) /\ cur \in 1 .. Len(blocks) /\ Len(blocks) \in Nat
      /\ frames \in Seq(Frames)
  BY <1>1, CurFacts
<1>3. FrameOK(Len(blocks), frames[i]) /\ cur \notin Pending(frames[i]) /\ frames[i] \in Frames
  BY <1>1, <1>2 DEF Ready, Shape
<1>4. CASE frames[i].k = "do"
  <2> DEFINE n == Len(blocks)
             f == frames[i]
             g == IF k = "break" THEN [f EXCEPT !.brk = <<cur>> \o f.brk]
                                 ELSE [f EXCEPT !.cont = <<cur>> \o f.cont]
  <2>1. blocks' = blocks /\ frames' = [frames EXCEPT ![i] = g]
    BY <1>1, <1>2, <1>4 DEF Control, Produce
  <2>2. \/ g = [f EXCEPT !.brk = <<cur>> \o f.brk]
        \/ g = [f EXCEPT !.cont = <<cur>> \o f.cont]
    OBVIOUS
  <2>3. /\ FrameOK(n, f) /\ f.k = "do" /\ f \in Frames /\ cur \notin Pending(f)
        /\ n \in Nat /\ cur \in 1 .. n
    BY <1>2, <1>3, <1>4
  <2> HIDE DEF f, g, n
  <2>4. /\ g \in Frames /\ FrameOK(n, g) /\ g.k = "do"
        /\ \A b : b \in Pending(g) <=> b \in Pending(f) \/ b = cur
    BY <2>2, <2>3, ListedFrame
  <2>5. /\ g.k = frames[i].k /\ FrameOK(Len(blocks), g)
        /\ \A b : b \in Pending(g) <=> b \in Pending(frames[i]) \/ b = cur
    BY <1>4, <2>4 DEF f, n
  <2>6. Ready(blocks, cur, frames, "stmt", h)
    BY <1>1
  <2> DEFINE c2 == NoBlock
  <2>7. c2 = NoBlock
    OBVIOUS
  <2> HIDE DEF c2
  <2>8. Ready(blocks, c2, [frames EXCEPT ![i] = g], "stmt", h)
    BY <1>1, <2>4, <2>5, <2>6, <2>7, KeepReady
  <2> QED
    BY <1>1, <2>1, <2>7, <2>8 DEF Well, EndsWell
<1>5. CASE frames[i].k = "wbody"
  <2> DEFINE S == {cur}
             none == 0
             c2 == NoBlock
             d == IF k = "break" THEN frames[i].post ELSE frames[i].oth
             bs2 == JoinBlocks(blocks, S, d)
  <2>1. blocks' = bs2 /\ frames' = frames
    BY <1>5 DEF Control, Produce
  <2>2. d \in DOMAIN blocks /\ S \in SUBSET DOMAIN blocks
    BY <1>2, <1>3, <1>5 DEF FrameOK
  <2> HIDE DEF d
  <2>3. Effect(blocks, bs2, S, none)
    BY <1>2, <2>2, JoinBlocksEffect
  <2>4. Tidy(blocks, Only(cur)) /\ Only(cur) = {cur}
    BY <1>1, CurReady
  <2>5. Becomes(Only(cur), S, blocks, none, Only(c2))
    <3>1. \A b : b \notin Len(blocks) + 1 .. Len(blocks) + none
      BY <1>2
    <3>2. \A b : b \notin Only(c2)
      BY DEF Only
    <3> HIDE DEF none, c2
    <3> QED
      BY <2>4, <3>1, <3>2 DEF Becomes
  <2>6. S \subseteq Only(cur) /\ none \in Nat /\ c2 = NoBlock
    BY <2>4
  <2> DEFINE T == Only(cur)
             T2 == Only(c2)
  <2>7. Tidy(blocks, T) /\ S \subseteq T /\ Becomes(T, S, blocks, none, T2)
    BY <2>4, <2>5, <2>6
  <2> HIDE DEF S, none, c2, bs2, T, T2
  <2>8. Changes(blocks, bs2, T, T2) /\ Len(bs2) = Len(blocks) + none
    BY <2>3, <2>6, <2>7, EffectTidy
  <2>9. /\ Changes(blocks, bs2, Only(cur), Only(c2)) /\ c2 \in 0 .. Len(bs2)
    <3>1. Len(bs2) \in Nat
      BY <2>3 DEF Effect
    <3> QED
      BY <2>6, <2>8, <3>1 DEF T, T2, NoBlock
  <2> DEFINE a2 == "stmt"
  <2>10. a2 \notin Filling /\ at \in Between
    BY <1>1, ModesApart
  <2> HIDE DEF a2
  <2>11. EndsWell(blocks, bs2, c2, frames, a2)
    BY <2>6, <2>9, <2>10, StayReady
  <2> QED
    BY <1>1, <2>1, <2>6, <2>11 DEF Well, a2
<1> QED
  BY <1>4, <1>5 DEF Control

\* What a do-while waits with when its body is done.
LEMMA DoFacts ==
  ASSUME NEW h, Ready(blocks, cur, frames, at, h), frames # <<>>, top.k \in {"do", "docond"}
  PROVE  /\ top \in Frames /\ FrameOK(Len(blocks), top) /\ top.k \in Roots
         /\ blocks \in Seq(Block) /\ Len(blocks) \in Nat /\ frames \in Seq(Frames)
         /\ top.ctx \in DOMAIN blocks /\ top.par \in DOMAIN blocks /\ top.oth \in DOMAIN blocks
         /\ top.brk \in Seq(DOMAIN blocks) /\ top.cont \in Seq(DOMAIN blocks)
         /\ \A b \in Blocks(top.brk) : b # NoBlock /\ b # cur
         /\ \A b \in Blocks(top.cont) : b # NoBlock
         /\ cur # NoBlock => cur \in DOMAIN blocks
         /\ h[Len(frames) - 1] = 0
<1>1. /\ top \in Frames /\ FrameOK(Len(blocks), top) /\ cur \notin Pending(top)
      /\ cur # NoBlock => cur \in DOMAIN blocks
      /\ top.k \in Roots => h[Len(frames) - 1] = 0
  BY TopReady DEF top
<1>2. blocks \in Seq(Block) /\ Len(blocks) \in Nat /\ frames \in Seq(Frames) /\ top.k \in Roots
  BY DEF Ready, Shape, Roots
<1>3. DOMAIN blocks = 1 .. Len(blocks)
  BY <1>2
<1>4. /\ top.ctx \in DOMAIN blocks /\ top.par \in DOMAIN blocks /\ top.oth \in DOMAIN blocks
      /\ top.brk \in Seq(DOMAIN blocks) /\ top.cont \in Seq(DOMAIN blocks)
  BY <1>1, <1>3 DEF FrameOK
<1>5. /\ \A b \in Blocks(top.brk) : b \in DOMAIN blocks
      /\ \A b \in Blocks(top.cont) : b \in DOMAIN blocks
  BY <1>4 DEF Blocks
<1>6. NoBlock \notin DOMAIN blocks
  BY <1>3 DEF NoBlock
<1>7. \A b \in Blocks(top.brk) : b \in Pending(top)
  BY <1>5, <1>6, PendingIs
<1> QED
  BY <1>1, <1>2, <1>4, <1>5, <1>6, <1>7

\* The list the condition is entered from.
LEMMA ContinueList ==
  ASSUME NEW h, Ready(blocks, cur, frames, at, h), frames # <<>>, top.k = "do",
         NEW cont, cont = IF cur = NoBlock THEN top.cont ELSE <<cur>> \o top.cont
  PROVE  /\ cont \in Seq(DOMAIN blocks)
         /\ \A b : b \in Blocks(cont) <=> b \in Only(cur) \/ b \in Blocks(top.cont)
<1>1. top.cont \in Seq(DOMAIN blocks) /\ (cur # NoBlock => cur \in DOMAIN blocks)
  BY DoFacts
<1>2. CASE cur = NoBlock
  BY <1>1, <1>2 DEF Only
<1>3. CASE cur # NoBlock
  <2>1. cont = <<cur>> \o top.cont /\ cur \in DOMAIN blocks
    BY <1>1, <1>3
  <2>2. /\ <<cur>> \o top.cont \in Seq(DOMAIN blocks)
        /\ \A b : b \in Blocks(<<cur>> \o top.cont) <=> b = cur \/ b \in Blocks(top.cont)
    BY <1>1, <2>1, Prepend
  <2> QED
    BY <1>3, <2>1, <2>2 DEF Only
<1> QED
  BY <1>2, <1>3

LEMMA ListFacts ==
  ASSUME NEW T, NEW s \in Seq(T), s # <<>>
  PROVE  1 \in DOMAIN s /\ s[1] \in Blocks(s) /\ Blocks(s) \subseteq T
<1>1. 1 \in DOMAIN s /\ \A i \in DOMAIN s : s[i] \in T
  OBVIOUS
<1> QED
  BY <1>1 DEF Blocks

LEMMA ListNat ==
  ASSUME NEW bs \in Seq(Block), NEW s \in Seq(DOMAIN bs)
  PROVE  s \in Seq(Nat)
OBVIOUS

LEMMA ConditionEntered ==
  ASSUME NEW h, Ready(blocks, cur, frames, at, h), frames # <<>>, top.k = "do",
         NEW cont, cont = IF cur = NoBlock THEN top.cont ELSE <<cur>> \o top.cont,
         cont # <<>>
  PROVE  EndsWell(blocks, TangleBlocks(blocks, top.ctx, cont), Len(blocks) + 1,
                  Append(Below, [top EXCEPT !.k = "docond", !.cont = cont]), "expr")
<1> DEFINE f == [top EXCEPT !.k = "docond", !.cont = cont]
           bs2 == TangleBlocks(blocks, top.ctx, cont)
           S == Blocks(cont)
           one == 1
           c2 == Len(blocks) + 1
           n == Len(blocks)
           g == h[Len(frames) - 1]
<1>1. /\ top \in Frames /\ FrameOK(n, top) /\ top.k \in Roots
      /\ blocks \in Seq(Block) /\ n \in Nat
      /\ top.ctx \in DOMAIN blocks
      /\ \A b \in Blocks(top.brk) : b # NoBlock /\ b # cur
      /\ \A b \in Blocks(top.cont) : b # NoBlock
      /\ g = 0
  BY DoFacts
<1>2. /\ cont \in Seq(DOMAIN blocks)
      /\ \A b : b \in Blocks(cont) <=> b \in Only(cur) \/ b \in Blocks(top.cont)
  BY ContinueList
<1>3. S \subseteq DOMAIN blocks /\ 1 \in DOMAIN cont /\ cont[1] \in S
  <2> DEFINE D == DOMAIN blocks
  <2>1. cont \in Seq(D) /\ cont # <<>>
    BY <1>2
  <2> HIDE DEF D
  <2>2. 1 \in DOMAIN cont /\ cont[1] \in Blocks(cont) /\ Blocks(cont) \subseteq D
    BY ONLY <2>1, ListFacts
  <2> QED
    BY <2>2 DEF D
<1>4. FrameOK(n + 1, top) /\ cont \in Seq(1 .. n + 1)
  <2>1. n + 1 \in Nat /\ n <= n + 1 /\ DOMAIN blocks = 1 .. n
    BY <1>1
  <2>2. FrameOK(n + 1, top)
    BY <1>1, <2>1, FrameGrows
  <2>3. cont \in Seq(1 .. n)
    BY <1>2, <2>1
  <2>4. cont \in Seq(1 .. n + 1)
    BY <1>1, <2>3
  <2> QED
    BY <2>2, <2>4
<1>5. /\ f \in Frames /\ f.k = "docond" /\ f.ctx = top.ctx /\ f.oth = top.oth
      /\ f.par = top.par /\ f.prev = top.prev /\ f.brk = top.brk /\ f.cont = cont
  <2>1. cont \in Seq(Nat)
    BY <1>1, <1>2, ListNat
  <2>2. "docond" \in FrameKinds
    BY DEF FrameKinds
  <2> QED
    BY <1>1, <2>1, <2>2 DEF Frames
<1> HIDE DEF f
<1>6. FrameOK(n + 1, f)
  BY <1>4, <1>5 DEF FrameOK
<1>7. \A b : b \in Pending(f) <=> b \in Blocks(top.brk)
  BY <1>1, <1>5, PendingIs
<1>8. \A b : b \in Top(cur, top)
        <=> b \in Only(cur) \/ b \in Blocks(top.brk) \/ b \in Blocks(top.cont)
  BY <1>1, PendingIs DEF Top
<1>9. \A b \in Blocks(top.brk) : b \notin S
  <2>1. Blocks(top.brk) \cap Blocks(top.cont) = {}
    BY <1>1 DEF FrameOK
  <2> QED
    BY <1>1, <1>2, <2>1 DEF Only
<1>10. Effect(blocks, bs2, S, one) /\ Len(bs2[c2].stack) = Len(blocks[cont[1]].stack)
  BY <1>1, <1>3, TangleEffect
<1>11. \A b \in Top(cur, top) : b \in DOMAIN blocks /\ Len(blocks[b].stack) = 0
  BY <1>1, RootStacks
<1>12. S \subseteq Top(cur, top)
  BY <1>2, <1>8
<1>13. \A b \in Pending(f) : Len(bs2[b].stack) = g
  <2> SUFFICES ASSUME NEW b \in Pending(f) PROVE Len(bs2[b].stack) = g
    OBVIOUS
  <2>1. b \in Top(cur, top) /\ b \notin S
    BY <1>7, <1>8, <1>9
  <2>2. b \in DOMAIN blocks /\ Len(blocks[b].stack) = 0
    BY <1>11, <2>1
  <2>3. bs2[b] = blocks[b]
    BY <1>10, <2>1, <2>2 DEF Effect
  <2> QED
    BY <1>1, <2>2, <2>3
<1>14. Len(bs2[c2].stack) = g
  BY <1>1, <1>3, <1>10, <1>11, <1>12
<1>15. c2 # NoBlock /\ c2 \in 0 .. Len(blocks) + one /\ one \in Nat
  BY <1>1 DEF NoBlock
<1>16. c2 \notin Pending(f)
  <2>1. c2 \notin DOMAIN blocks
    BY <1>1
  <2> QED
    BY <1>7, <1>8, <1>11, <2>1
<1>17. Becomes(Top(cur, top), S, blocks, one, Top(c2, f))
  <2>1. \A b : b \in Len(blocks) + 1 .. Len(blocks) + one <=> b = c2
    BY <1>1
  <2>2. \A b : b \in Top(c2, f) <=> b = c2 \/ b \in Blocks(top.brk)
    BY <1>7, <1>15 DEF Top, Only
  <2> HIDE DEF one, c2
  <2> QED
    BY <1>2, <1>8, <1>9, <2>1, <2>2 DEF Becomes
<1>18. Pushed(f) = 0 /\ FrameOK(Len(blocks) + one, f)
  BY <1>5, <1>6 DEF Pushed
<1> DEFINE a2 == "expr"
<1>19. a2 \notin Between /\ (a2 \in Filling => c2 # NoBlock)
  BY <1>15, ModesApart
<1> HIDE DEF S, one, c2, bs2, a2, g, n
<1>20. /\ Len(bs2[c2].stack) = h[Len(frames) - 1]
       /\ \A b \in Pending(f) : Len(bs2[b].stack) = h[Len(frames) - 1]
  BY <1>13, <1>14 DEF g
<1>21. EndsWell(blocks, bs2, c2, Append(Below, f), a2)
  BY <1>1, <1>5, <1>10, <1>12, <1>15, <1>16, <1>17, <1>18, <1>19, <1>20, EffectSwap
<1> QED
  BY <1>21 DEF bs2, c2, f, a2

LEMMA EndDoBodyWell ==
  ASSUME NEW h, Ready(blocks, cur, frames, at, h), EndDoBody
  PROVE  Well
<1> DEFINE cont == IF cur = NoBlock THEN top.cont ELSE <<cur>> \o top.cont
<1>1. frames # <<>> /\ top.k = "do"
  BY DEF EndDoBody, EndsBody
<1>2. /\ top.k \in Roots /\ top.par \in DOMAIN blocks
      /\ top.brk \in Seq(DOMAIN blocks)
      /\ \A b \in Blocks(top.brk) : b # NoBlock
      /\ \A b \in Blocks(top.cont) : b # NoBlock
  BY <1>1, DoFacts
<1>3. /\ cont \in Seq(DOMAIN blocks)
      /\ \A b : b \in Blocks(cont) <=> b \in Only(cur) \/ b \in Blocks(top.cont)
  BY <1>1, ContinueList
<1>4. \A b : b \in Top(cur, top)
        <=> b \in Only(cur) \/ b \in Blocks(top.brk) \/ b \in Blocks(top.cont)
  BY <1>1, <1>2, PendingIs DEF Top
<1>5. CASE cont # <<>>
  <2>1. /\ frames' = Append(Below, [top EXCEPT !.k = "docond", !.cont = cont])
        /\ cur' = Len(blocks) + 1 /\ at' = "expr"
        /\ blocks' = TangleBlocks(blocks, top.ctx, cont)
    BY <1>5 DEF EndDoBody, Replace, Produce
  <2>2. cont = IF cur = NoBlock THEN top.cont ELSE <<cur>> \o top.cont
    OBVIOUS
  <2> HIDE DEF cont
  <2>3. EndsWell(blocks, TangleBlocks(blocks, top.ctx, cont), Len(blocks) + 1,
                 Append(Below, [top EXCEPT !.k = "docond", !.cont = cont]), "expr")
    BY <1>1, <1>5, <2>2, ConditionEntered
  <2> QED
    BY <2>1, <2>3 DEF Well
<1>6. CASE cont = <<>>
  <2>1. \A b : b \notin Blocks(cont)
    BY <1>6 DEF Blocks
  <2>2. \A b : b \in Top(cur, top) <=> b \in Blocks(top.brk)
    BY <1>3, <1>4, <2>1
  <2>3. CASE top.brk # <<>>
    <3>1. Done(Below, Len(blocks) + 1, TangleBlocks(blocks, top.par, top.brk))
      BY <1>6, <2>3 DEF EndDoBody
    <3>2. 1 \in DOMAIN top.brk /\ \A b : b \in Blocks(top.brk) <=> b \in Top(cur, top)
      BY <1>2, <2>2, <2>3
    <3> DEFINE ps == top.brk
               c == top.par
    <3>3. c \in DOMAIN blocks /\ 1 \in DOMAIN ps /\ \A b : b \in Blocks(ps) <=> b \in Top(cur, top)
      BY <1>2, <3>2
    <3> HIDE DEF ps, c
    <3>4. EndsWell(blocks, TangleBlocks(blocks, c, ps), Len(blocks) + 1, Below, "stmt")
      BY <1>1, <1>2, <3>3, TangleLeave
    <3> QED
      BY <3>1, <3>4, DoneWell DEF c, ps
  <2>4. CASE top.brk = <<>>
    <3>1. Done(Below, NoBlock, blocks)
      BY <1>6, <2>4 DEF EndDoBody
    <3>2. \A b : b \notin Top(cur, top)
      BY <2>2, <2>4 DEF Blocks
    <3>3. EndsWell(blocks, blocks, NoBlock, Below, "stmt")
      BY <1>1, <1>2, <3>2, SameLeave
    <3> QED
      BY <3>1, <3>3, DoneWell
  <2> QED
    BY <2>3, <2>4
<1> QED
  BY <1>5, <1>6

LEMMA TidyAgain ==
  ASSUME NEW bs \in Seq(Block), NEW bs2, NEW T, NEW T2,
         T \subseteq DOMAIN bs, Changes(bs, bs2, T, T2)
  PROVE  Tidy(bs2, T2)
<1>1. /\ bs2 \in Seq(Block) /\ Len(bs) <= Len(bs2) /\ \A b \in DOMAIN bs2 : ~bs2[b].final
      /\ T2 \subseteq T \cup (DOMAIN bs2 \ DOMAIN bs)
      /\ \A b \in T \cup (DOMAIN bs2 \ DOMAIN bs) : Open(bs2, b) <=> b \in T2
  BY DEF Changes
<1>2. DOMAIN bs \subseteq DOMAIN bs2
  BY <1>1
<1> QED
  BY <1>1, <1>2 DEF Tidy

\* The whole end of a do-while: two blocks, the first of them goes back.
LEMMA Replay ==
  ASSUME NEW h, Ready(blocks, cur, frames, at, h), at = "value", frames # <<>>,
         top.k = "docond",
         NEW bs1, bs1 = WeaveBlocks(blocks, top.par, top.brk, cur),
         NEW bs2, bs2 = JoinBlocks(bs1, {Len(blocks) + 1}, top.oth)
  PROVE  EndsWell(blocks, bs2, Len(blocks) + 2, Below, "stmt")
<1> DEFINE n == Len(blocks)
           r == n + 1
           c2 == n + 2
           S == Blocks(top.brk) \cup {cur}
           S1 == {r}
           T == Top(cur, top)
           T1 == {r, c2}
           T2 == Only(c2)
           two == 2
           none == 0
<1>1. /\ top.k \in Roots /\ blocks \in Seq(Block) /\ n \in Nat
      /\ top.par \in DOMAIN blocks /\ top.oth \in DOMAIN blocks
      /\ top.brk \in Seq(DOMAIN blocks)
      /\ \A b \in Blocks(top.brk) : b # NoBlock
      /\ h[Len(frames) - 1] = 0
  BY DoFacts
<1>2. cur # NoBlock /\ cur \in DOMAIN blocks
  <2>1. cur # NoBlock
    BY TopFacts
  <2> QED
    BY <2>1, CurFacts
<1>3. \A b : b \in T <=> b = cur \/ b \in Blocks(top.brk)
  BY <1>1, <1>2, PendingIs DEF Top, Only
<1>4. \A b \in T : b \in DOMAIN blocks /\ Len(blocks[b].stack) = 0
  BY <1>1, RootStacks
<1>5. /\ Effect(blocks, bs1, S, two)
      /\ Len(bs1[c2].stack) = Len(blocks[cur].stack)
  BY <1>1, <1>2, WeaveEffect
<1>6. Len(bs1[c2].stack) = 0
  BY <1>3, <1>4, <1>5
<1>7. c2 # NoBlock /\ r # c2
  BY <1>1 DEF NoBlock
<1>8. bs1 \in Seq(Block) /\ Len(bs1) = n + 2
  BY <1>5 DEF Effect
<1>9. r \in DOMAIN bs1 /\ c2 \in DOMAIN bs1 /\ top.oth \in DOMAIN bs1 /\ c2 \in 0 .. Len(bs1)
  BY <1>1, <1>8
<1>10. Becomes(T, S, blocks, two, T1)
  <2>1. \A b : b \in Len(blocks) + 1 .. Len(blocks) + two <=> b = r \/ b = c2
    <3>1. n \in Nat
      BY <1>1
    <3> HIDE DEF n
    <3>2. \A b : b \in n + 1 .. n + 2 <=> b = n + 1 \/ b = n + 2
      BY ONLY <3>1
    <3> QED
      BY <3>2 DEF n
  <2> HIDE DEF two, c2, r, T
  <2> QED
    BY <1>3, <2>1 DEF Becomes
<1>11. S \subseteq T /\ two \in Nat /\ none \in Nat /\ T \subseteq DOMAIN blocks /\ S1 \subseteq T1
  BY <1>3, <1>4
<1>12. Becomes(T1, S1, bs1, none, T2)
  <2>1. \A b : b \notin Len(bs1) + 1 .. Len(bs1) + none
    BY <1>1, <1>8
  <2>2. \A b : b \in T2 <=> b = c2
    BY <1>7 DEF Only
  <2> HIDE DEF none, c2, r, T2
  <2> QED
    BY <1>7, <2>1, <2>2 DEF Becomes
<1>13. Effect(bs1, bs2, S1, none)
  <2>1. S1 \in SUBSET DOMAIN bs1
    BY <1>9
  <2> QED
    BY <1>8, <1>9, <2>1, JoinBlocksEffect
<1>14. bs2[c2] = bs1[c2]
  BY <1>7, <1>9, <1>13 DEF Effect
<1> HIDE DEF S, S1, T, T1, T2, two, none, r, c2, n
<1>15. Changes(blocks, bs1, T, T1)
  <2>1. Tidy(blocks, T)
    BY TopTidy DEF T
  <2> QED
    BY <1>5, <1>10, <1>11, <2>1, EffectTidy
<1>16. Tidy(bs1, T1)
  BY <1>1, <1>11, <1>15, TidyAgain
<1>17. Changes(bs1, bs2, T1, T2) /\ Len(bs2) = Len(bs1) + none
  BY <1>11, <1>12, <1>13, <1>16, EffectTidy, ZenonT(60)
<1>18. Changes(blocks, bs2, T, T2)
  BY <1>1, <1>11, <1>15, <1>17, ChangesTrans
<1>19. c2 \in 0 .. Len(bs2)
  <2>1. Len(bs2) = Len(bs1)
    BY <1>8, <1>17 DEF none
  <2> QED
    BY <1>9, <2>1
<1>20. Len(bs2[c2].stack) = h[Len(frames) - 1]
  BY <1>1, <1>6, <1>14
<1>21. Changes(blocks, bs2, Top(cur, frames[Len(frames)]), Only(c2))
  BY <1>18 DEF T, T2, top
<1> DEFINE a2 == "stmt"
<1>22. a2 \notin Filling
  BY ModesApart
<1>23. frames[Len(frames)].k \in Roots
  BY <1>1 DEF top
<1> HIDE DEF a2
<1>24. EndsWell(blocks, bs2, c2, SubSeq(frames, 1, Len(frames) - 1), a2)
  BY ONLY Ready(blocks, cur, frames, at, h), frames # <<>>, <1>19, <1>20, <1>21, <1>22, <1>23, LeaveReady
<1> QED
  BY <1>24 DEF a2, c2, n, Below

LEMMA EndDoConditionWell ==
  ASSUME NEW h, Ready(blocks, cur, frames, at, h), EndDoCondition
  PROVE  Well
<1> DEFINE bs1 == WeaveBlocks(blocks, top.par, top.brk, cur)
           bs2 == JoinBlocks(bs1, {Len(blocks) + 1}, top.oth)
<1>1. at = "value" /\ frames # <<>> /\ top.k = "docond"
  BY DEF EndDoCondition, Returned, Waiting
<1>2. Done(Below, (Len(blocks) + 1) + 1, bs2)
  BY DEF EndDoCondition
<1>3. (Len(blocks) + 1) + 1 = Len(blocks) + 2
  <2>1. Len(blocks) \in Nat
    BY DEF Ready, Shape
  <2> QED
    BY <2>1
<1>4. bs1 = WeaveBlocks(blocks, top.par, top.brk, cur)
      /\ bs2 = JoinBlocks(bs1, {Len(blocks) + 1}, top.oth)
  OBVIOUS
<1> HIDE DEF bs1, bs2
<1>5. EndsWell(blocks, bs2, Len(blocks) + 2, Below, "stmt")
  BY <1>1, <1>4, Replay
<1> QED
  BY <1>2, <1>3, <1>5, DoneWell

\* Both ends of a conditional expression push their values.
TwoPush(bs, p, q, n, bs2) ==
  /\ p # q /\ Len(bs[p].stack) = n /\ Len(bs[q].stack) = n
  /\ bs2 = [bs EXCEPT ![p] = PushStack(@), ![q] = PushStack(@)]

LEMMA BothPush ==
  ASSUME NEW bs, NEW T, Tidy(bs, T), NEW p, p \in T, NEW q, q \in T, NEW n \in Nat,
         NEW bs2, TwoPush(bs, p, q, n, bs2)
  PROVE  /\ Changes(bs, bs2, T, T) /\ Tidy(bs2, T)
         /\ Len(bs2) = Len(bs) /\ DOMAIN bs2 = DOMAIN bs
         /\ Len(bs2[p].stack) = n + 1
<1> DEFINE x == PushStack(bs[p])
           y == PushStack(bs[q])
           m == n + 1
           bs1 == [bs EXCEPT ![p] = x]
<1>0. /\ p # q /\ Len(bs[p].stack) = n /\ Len(bs[q].stack) = n
      /\ bs2 = [bs EXCEPT ![p] = PushStack(@), ![q] = PushStack(@)]
  BY DEF TwoPush
<1>1. bs \in Seq(Block) /\ T \subseteq DOMAIN bs
  BY DEF Tidy
<1>2. bs[p] \in Block /\ bs[q] \in Block
  BY <1>1
<1>3. Fills(x, bs[p], m) /\ Fills(y, bs[q], m)
  BY <1>0, <1>2, PushFills
<1>4. bs2 = [bs1 EXCEPT ![q] = y] /\ bs1[q] = bs[q] /\ DOMAIN bs1 = DOMAIN bs
  <2> HIDE DEF x, y
  <2>1. bs2 = [bs EXCEPT ![p] = x, ![q] = y]
    BY <1>0, <1>1 DEF x, y
  <2> QED
    BY <1>0, <1>1, <2>1
<1>5. bs1 = [bs EXCEPT ![p] = x]
  OBVIOUS
<1>6. m \in Nat
  OBVIOUS
<1> HIDE DEF x, y, m, bs1
<1>7. Filled(bs, bs1, p, m)
  BY ONLY <1>3, <1>5, FilledBy
<1>8. Fills(y, bs1[q], m) /\ bs2 = [bs1 EXCEPT ![q] = y]
  BY <1>3, <1>4
<1>9. Filled(bs1, bs2, q, m)
  BY ONLY <1>8, FilledBy
<1>10. /\ Changes(bs, bs1, T, T)
       /\ Len(bs1) = Len(bs) /\ Len(bs1[p].stack) = m
  BY ONLY Tidy(bs, T), p \in T, <1>7, FillChanges
<1>11. Tidy(bs1, T)
  BY <1>1, <1>10, TidyAgain
<1>12. /\ Changes(bs1, bs2, T, T) /\ Len(bs2) = Len(bs1)
  BY ONLY <1>11, q \in T, <1>9, FillChanges
<1>13. bs1 \in Seq(Block) /\ T \subseteq DOMAIN bs1
  BY <1>11 DEF Tidy
<1>14. Tidy(bs2, T)
  BY <1>12, <1>13, TidyAgain
<1>15. Changes(bs, bs2, T, T)
  BY <1>1, <1>10, <1>12, ChangesTrans
<1>16. bs2[p] = bs1[p] /\ DOMAIN bs2 = DOMAIN bs
  BY <1>0, <1>1, <1>4, <1>13
<1> QED
  BY <1>10, <1>12, <1>14, <1>15, <1>16 DEF m

LEMMA EndTernaryWell ==
  ASSUME NEW h, Ready(blocks, cur, frames, at, h), EndTernary
  PROVE  Well
<1> DEFINE g == h[Len(frames) - 1]
           n == Len(blocks)
           c2 == n + 1
           T == Top(cur, top)
           T2 == Only(c2)
           pushed == [blocks EXCEPT ![top.oth] = PushStack(@), ![cur] = PushStack(@)]
           ps == <<top.oth, cur>>
           S == Blocks(ps)
           merged == TangleBlocks(pushed, top.ctx, ps)
           m == merged[c2]
           x == Mirror(PopStack(m, 1), m.stack[1])
           bs2 == [merged EXCEPT ![c2] = x]
           one == 1
<1>1. at = "value" /\ frames # <<>> /\ top.k = "tsecond"
  BY DEF EndTernary, Returned, Waiting
<1>2. /\ blocks \in Seq(Block) /\ n \in Nat /\ frames \in Seq(Frames)
  BY DEF Ready, Shape
<1>3. /\ g \in Nat /\ FrameOK(n, top) /\ cur \notin Pending(top)
      /\ \A b \in Pending(top) : Len(blocks[b].stack) = g
  BY <1>1, TopReady DEF top
<1>4. Pushed(top) = 0
  BY <1>1 DEF Pushed
<1>5. cur # NoBlock /\ Len(blocks[cur].stack) = g /\ cur \in DOMAIN blocks
  <2>1. cur # NoBlock /\ Len(blocks[cur].stack) = g + Pushed(top)
    BY <1>1, TopFacts
  <2>2. cur \in DOMAIN blocks
    BY <2>1, CurFacts
  <2> QED
    BY <1>3, <1>4, <2>1, <2>2
<1>6. top.ctx \in DOMAIN blocks /\ top.oth \in DOMAIN blocks /\ top.oth # NoBlock
  BY <1>1, <1>2, <1>3 DEF FrameOK, NoBlock
<1>7. \A b : b \in Pending(top) <=> b = top.oth
  BY <1>1, <1>6, PendingIs
<1>8. /\ \A b : b \in T <=> b = cur \/ b = top.oth
      /\ top.oth # cur /\ Len(blocks[top.oth].stack) = g
  BY <1>3, <1>5, <1>7 DEF Top, Only
<1>9. Tidy(blocks, T) /\ T \subseteq DOMAIN blocks
  BY <1>1, TopTidy DEF Tidy
<1>10. pushed = [blocks EXCEPT ![top.oth] = PushStack(@), ![cur] = PushStack(@)]
  OBVIOUS
<1>11. 1 \in DOMAIN ps /\ ps[1] = top.oth /\ \A b : b \in S <=> b = top.oth \/ b = cur
  <2>1. ps \in Seq({top.oth, cur}) /\ Len(ps) = 2 /\ ps[1] = top.oth /\ ps[2] = cur
    OBVIOUS
  <2> HIDE DEF ps
  <2>2. DOMAIN ps = {1, 2}
    BY <2>1, SMTT(30)
  <2> QED
    BY <2>1, <2>2 DEF Blocks
<1>12. /\ frames' = Below /\ at' = "value"
       /\ cur' = Len(merged) /\ blocks' = [merged EXCEPT ![Len(merged)] =
                                             Mirror(PopStack(@, 1), @.stack[1])]
  BY DEF EndTernary, Value, Produce, MergeBlocks
<1> HIDE DEF pushed, ps, T, g
<1>13. /\ Changes(blocks, pushed, T, T) /\ Tidy(pushed, T)
       /\ Len(pushed) = Len(blocks) /\ DOMAIN pushed = DOMAIN blocks
       /\ Len(pushed[top.oth].stack) = g + 1
  <2> DEFINE p == top.oth
             q == cur
  <2>1. p \in T /\ q \in T /\ p # q /\ Len(blocks[p].stack) = g /\ Len(blocks[q].stack) = g
    BY <1>5, <1>8
  <2>2. TwoPush(blocks, p, q, g, pushed)
    BY <1>10, <2>1 DEF TwoPush
  <2>3. g \in Nat /\ Tidy(blocks, T)
    BY <1>3, <1>9
  <2> HIDE DEF p, q
  <2>4. /\ Changes(blocks, pushed, T, T) /\ Tidy(pushed, T)
        /\ Len(pushed) = Len(blocks) /\ DOMAIN pushed = DOMAIN blocks
        /\ Len(pushed[p].stack) = g + 1
    BY <2>1, <2>2, <2>3, BothPush
  <2> QED
    BY <2>4 DEF p
<1>14. pushed \in Seq(Block)
  BY <1>13 DEF Tidy
<1>15. S \subseteq DOMAIN pushed /\ S \subseteq T
  BY <1>5, <1>6, <1>8, <1>11, <1>13
<1>16. /\ Effect(pushed, merged, S, one)
       /\ Len(m.stack) = g + 1
  <2>1. /\ Effect(pushed, merged, Blocks(ps), 1)
        /\ Len(merged[Len(pushed) + 1].stack) = Len(pushed[ps[1]].stack)
    BY <1>6, <1>11, <1>13, <1>14, <1>15, TangleEffect
  <2> QED
    BY <1>11, <1>13, <2>1
<1>17. c2 # NoBlock /\ \A b : b \in T2 <=> b = c2
  BY <1>2 DEF Only, NoBlock
<1>18. Becomes(T, S, pushed, one, T2)
  <2>1. \A b : b \in Len(pushed) + 1 .. Len(pushed) + one <=> b = c2
    BY <1>2, <1>13
  <2>2. \A b : b \in T => b \in S
    BY <1>8, <1>11
  <2> HIDE DEF S, one, c2, T2
  <2> QED
    BY <1>17, <2>1, <2>2 DEF Becomes
<1>19. Len(merged) = c2 /\ merged \in Seq(Block)
  BY <1>13, <1>16 DEF Effect
<1>20. c2 \in DOMAIN merged /\ m \in Block
  BY <1>2, <1>19
<1>21. one \in Nat /\ c2 \in T2
  BY <1>17
<1>22. Fills(x, m, g)
  <2>1. Fills(PopStack(m, 1), m, g)
    <3>1. 1 <= Len(m.stack) /\ Len(m.stack) - 1 = g
      BY <1>3, <1>16
    <3>2. Fills(PopStack(m, 1), m, Len(m.stack) - 1)
      BY <1>20, <3>1, PopFills
    <3> QED
      BY <3>1, <3>2
  <2>2. m.stack[1] \in Int
    BY <1>3, <1>16, <1>20, StackInt
  <2>3. PopStack(m, 1) \in Block /\ Len(PopStack(m, 1).stack) = g
    BY <2>1 DEF Fills
  <2>4. Fills(x, PopStack(m, 1), g)
    <3> DEFINE y == PopStack(m, 1)
    <3> HIDE DEF y
    <3>1. Fills(Mirror(y, m.stack[1]), y, Len(y.stack))
      BY <2>2, <2>3, MirrorFills DEF y
    <3> QED
      BY <2>3, <3>1 DEF y
  <2> QED
    BY <2>1, <2>4, FillsTrans
<1>23. blocks' = bs2 /\ cur' = c2
  BY <1>12, <1>19
<1>24. bs2 = [merged EXCEPT ![c2] = x] /\ Fills(x, merged[c2], g)
  BY <1>22
<1> HIDE DEF S, T2, one, x, m, bs2, c2, merged
<1>25. Changes(pushed, merged, T, T2)
  BY <1>13, <1>15, <1>16, <1>18, <1>21, EffectTidy
<1>26. Filled(merged, bs2, c2, g)
  BY ONLY <1>24, FilledBy
<1>27. T \subseteq DOMAIN pushed
  BY <1>9, <1>13
<1>28. Tidy(merged, T2)
  BY <1>14, <1>25, <1>27, TidyAgain
<1>29. Changes(merged, bs2, T2, T2) /\ Len(bs2) = Len(merged) /\ Len(bs2[c2].stack) = g
  BY ONLY <1>28, <1>21, <1>26, FillChanges
<1>30. Changes(blocks, merged, T, T2)
  BY <1>2, <1>9, <1>13, <1>25, ChangesTrans
<1>31. Changes(blocks, bs2, T, T2)
  BY <1>2, <1>9, <1>29, <1>30, ChangesTrans
<1>32. c2 \in 0 .. Len(bs2)
  <2>1. Len(bs2) = Len(merged)
    BY <1>29
  <2> QED
    BY <1>19, <1>20, <2>1
<1>33. Changes(blocks, bs2, Top(cur, frames[Len(frames)]), Only(c2))
  BY <1>31 DEF T, T2, top
<1>34. Len(bs2[c2].stack) = h[Len(frames) - 1]
  BY <1>29 DEF g
<1> DEFINE a2 == "value"
<1>35. a2 \notin Between
  BY ModesApart
<1> HIDE DEF a2
<1>36. EndsWell(blocks, bs2, c2, SubSeq(frames, 1, Len(frames) - 1), a2)
  BY ONLY Ready(blocks, cur, frames, at, h), <1>1, <1>17, <1>32, <1>33, <1>34, <1>35, LeaveReady
<1> QED
  BY <1>12, <1>23, <1>36 DEF a2, Below, Well

-----------------------------------------------------------------------------
(* Calls.                                                                  *)

LEMMA BlockFields ==
  ASSUME NEW b \in Block
  PROVE  /\ b.stack \in Seq(Int) /\ b.syms \in Seq(Entry) /\ b.code \in Seq(Instruction)
         /\ b.retIns \in Int /\ b.hasRet \in BOOLEAN
         /\ \A i \in DOMAIN b.syms : b.syms[i].ins \in Int /\ b.syms[i].s \in Nat
<1>1. b.syms \in Seq(Entry)
  BY DEF Block
<1>2. \A i \in DOMAIN b.syms : b.syms[i] \in Entry
  BY <1>1
<1>3. \A i \in DOMAIN b.syms : b.syms[i].ins \in Int /\ b.syms[i].s \in Nat
  BY <1>2 DEF Entry
<1> QED
  BY <1>1, <1>3 DEF Block

\* Other code, and nothing else.
LEMMA OtherCode ==
  ASSUME NEW b \in Block, NEW code \in Seq(Instruction)
  PROVE  LET x == [b EXCEPT !.code = code]
         IN x \in Block /\ x.tail = b.tail /\ x.final = b.final /\ x.stack = b.stack
BY DEF Block

\* A call's tail.
LEMMA CallTail ==
  ASSUME NEW b \in Block, NEW first \in Int, NEW args \in Seq(Int)
  PROVE  LET x == [b EXCEPT !.tail = [OpenTail EXCEPT !.type = "call", !.first = first,
                                                      !.args = args]]
         IN x \in Block /\ x.tail.type # "open" /\ x.final = b.final
<1> DEFINE t == [OpenTail EXCEPT !.type = "call", !.first = first, !.args = args]
<1>1. t \in Terminal /\ t.type = "call"
  <2>1. OpenTail \in Terminal
    BY OpenTailType
  <2> QED
    BY <2>1 DEF Terminal
<1> HIDE DEF t
<1>2. /\ [b EXCEPT !.tail = t] \in Block /\ [b EXCEPT !.tail = t].tail = t
      /\ [b EXCEPT !.tail = t].final = b.final
  BY <1>1 DEF Block
<1> QED
  BY <1>1, <1>2 DEF t

\* The return block, with everything that was saved.
LEMMA BackBlock ==
  ASSUME NEW b \in Block, NEW code \in Seq(Instruction), NEW ret \in BOOLEAN, NEW ins \in Int,
         NEW stack \in Seq(Int), NEW syms \in Seq(Entry)
  PROVE  Fills([b EXCEPT !.code = code, !.hasRet = ret, !.retIns = ins,
                         !.stack = stack, !.syms = syms], b, Len(stack))
<1> DEFINE x == [b EXCEPT !.code = code, !.hasRet = ret, !.retIns = ins,
                          !.stack = stack, !.syms = syms]
<1>1. x \in Block /\ x.tail = b.tail /\ x.final = b.final /\ x.stack = stack
  BY DEF Block
<1> HIDE DEF x
<1>2. Fills(x, b, Len(stack))
  BY <1>1 DEF Fills
<1> QED
  BY <1>2 DEF x

LEMMA Concat ==
  ASSUME NEW S, NEW a \in Seq(S), NEW b \in Seq(S)
  PROVE  a \o b \in Seq(S) /\ Len(a \o b) = Len(a) + Len(b)
OBVIOUS

\* What the caller keeps over the call.
LEMMA SavedSeq ==
  ASSUME NEW q \in Block
  PROVE  LET saved == (IF q.hasRet THEN <<q.retIns>> ELSE <<>>) \o q.stack
                        \o [i \in DOMAIN q.syms |-> q.syms[i].ins]
         IN saved \in Seq(Int) /\ (saved = <<>> => Len(q.stack) = 0)
<1> DEFINE a == IF q.hasRet THEN <<q.retIns>> ELSE <<>>
           s == q.stack
           d == [i \in DOMAIN q.syms |-> q.syms[i].ins]
<1>1. a \in Seq(Int) /\ s \in Seq(Int)
  BY BlockFields
<1>2. d \in Seq(Int)
  <2>1. /\ q.syms \in Seq(Entry) /\ \A i \in DOMAIN q.syms : q.syms[i].ins \in Int
    BY BlockFields
  <2>2. Len(q.syms) \in Nat /\ DOMAIN q.syms = 1 .. Len(q.syms)
    BY <2>1
  <2>3. d \in [1 .. Len(q.syms) -> Int]
    BY <2>1, <2>2
  <2> QED
    BY <2>2, <2>3, FunSeq
<1> HIDE DEF a, s, d
<1>3. a \o s \in Seq(Int) /\ Len(a \o s) = Len(a) + Len(s)
  BY <1>1, Concat
<1>4. (a \o s) \o d \in Seq(Int) /\ Len((a \o s) \o d) = Len(a \o s) + Len(d)
  BY <1>2, <1>3, Concat
<1>5. (a \o s) \o d = <<>> => Len(s) = 0
  <2>1. Len(a) \in Nat /\ Len(s) \in Nat /\ Len(d) \in Nat
    BY <1>1, <1>2
  <2>2. (a \o s) \o d = <<>> => Len((a \o s) \o d) = 0
    OBVIOUS
  <2> QED
    BY <1>3, <1>4, <2>1, <2>2
<1> QED
  BY <1>4, <1>5 DEF a, s, d

\* One thing for each element of a sequence.
LEMMA AsLong ==
  ASSUME NEW S, NEW s \in Seq(S), NEW R, NEW t \in [DOMAIN s -> R]
  PROVE  t \in Seq(R) /\ Len(t) = Len(s)
<1>1. Len(s) \in Nat /\ DOMAIN s = 1 .. Len(s)
  OBVIOUS
<1> QED
  BY <1>1, FunSeq

\* The caller and the return block after a call.
LEMMA InvokeParts ==
  ASSUME NEW bs \in Seq(Block), NEW p \in DOMAIN bs, NEW r \in DOMAIN bs,
         NEW n \in Nat, NEW g \in Nat,
         Len(bs[p].stack) = g + n + 1, Len(bs[r].stack) = 0, NEW nonvoid \in BOOLEAN
  PROVE  \E x, y : /\ Invoke(bs, p, r, n, nonvoid) = [bs EXCEPT ![p] = x, ![r] = y]
                   /\ x \in Block /\ x.tail.type # "open" /\ x.final = bs[p].final
                   /\ Fills(y, bs[r], g)
<1> DEFINE b      == bs[p]
           q      == PopStack(b, n + 1)
           args   == [i \in 1 .. n |-> b.stack[n + 1 - i]]
           saved  == (IF q.hasRet THEN <<q.retIns>> ELSE <<>>) \o q.stack
                       \o [i \in DOMAIN q.syms |-> q.syms[i].ins]
           empty  == saved = <<>>
           obj    == NextInstruction(q)
           header == <<Instr("new", <<>>, 0), Instr("ref", <<>>, r),
                       Instr("put", <<obj, obj + 1>>, 0)>>
           puts   == [i \in DOMAIN saved |-> Instr("put", <<obj, saved[i]>>, 0)]
           rest   == IF empty THEN <<>> ELSE Append(puts, Instr("cast", <<obj>>, 0))
           longer == (q.code \o header) \o rest
           caller == [q EXCEPT !.code = longer]
           object == IF empty THEN obj ELSE LastInstruction(caller)
           base   == ParamCount(bs[r])
           height == One(q.hasRet) + Len(q.stack)
           gets   == [i \in DOMAIN saved |-> Instr("field", <<base>>, 0)]
           code   == <<Instr("cast", <<0>>, 0)>> \o gets
                       \o IF nonvoid THEN <<Instr("get", <<1>>, 0)>> ELSE <<>>
           ins    == IF q.hasRet THEN base + 1 ELSE 0
           stack  == [i \in DOMAIN q.stack |-> base + One(q.hasRet) + i]
           syms   == [i \in DOMAIN q.syms |-> [s |-> q.syms[i].s, ex |-> TRUE,
                                               ins |-> base + height + i]]
           back   == [bs[r] EXCEPT !.code = code, !.hasRet = q.hasRet, !.retIns = ins,
                                   !.stack = stack, !.syms = syms]
           x      == [caller EXCEPT !.tail = [OpenTail EXCEPT !.type = "call",
                                                !.first = b.stack[n + 1],
                                                !.args = <<object>> \o args]]
           y      == IF empty THEN bs[r] ELSE back
<1>1. Invoke(bs, p, r, n, nonvoid) = [bs EXCEPT ![p] = x, ![r] = y]
  BY DEF Invoke
<1>2. b \in Block /\ bs[r] \in Block /\ r \in Nat
  OBVIOUS
<1>3. b.stack \in Seq(Int) /\ n + 1 \in Nat /\ n + 1 <= Len(b.stack)
      /\ Len(b.stack) - (n + 1) = g /\ n <= Len(b.stack)
  BY <1>2, BlockFields
<1>4. q \in Block /\ Len(q.stack) = g /\ q.tail = b.tail /\ q.final = b.final
  BY <1>2, <1>3, PopBlock
<1>5. args \in Seq(Int)
  BY <1>2, <1>3, OperandsInt DEF Operands
<1>6. b.stack[n + 1] \in Int
  BY <1>3
<1> HIDE DEF b, q, args
<1>7. saved \in Seq(Int) /\ (empty => g = 0)
  BY <1>4, SavedSeq
<1>8. obj \in Int
  BY <1>4, ParamCountNat
<1> HIDE DEF saved, obj
<1>9. longer \in Seq(Instruction)
  <2>1. "new" \in Ops /\ "ref" \in Ops /\ "put" \in Ops /\ "cast" \in Ops
    BY DEF Ops
  <2>2. <<>> \in Seq(Int) /\ <<obj, obj + 1>> \in Seq(Int) /\ <<obj>> \in Seq(Int)
    BY <1>8
  <2>3. /\ Instr("new", <<>>, 0) \in Instruction /\ Instr("ref", <<>>, r) \in Instruction
        /\ Instr("put", <<obj, obj + 1>>, 0) \in Instruction
        /\ Instr("cast", <<obj>>, 0) \in Instruction
    BY <1>2, <2>1, <2>2 DEF Instr, Instruction
  <2>4. header \in Seq(Instruction)
    BY <2>3
  <2>5. puts \in Seq(Instruction)
    <3>1. \A i \in DOMAIN saved : saved[i] \in Int
      BY <1>7
    <3>2. \A i \in DOMAIN saved : <<obj, saved[i]>> \in Seq(Int)
      BY <1>8, <3>1
    <3>3. \A i \in DOMAIN saved : Instr("put", <<obj, saved[i]>>, 0) \in Instruction
      BY <2>1, <3>2 DEF Instr, Instruction
    <3>4. puts \in [DOMAIN saved -> Instruction]
      BY <3>3
    <3> HIDE DEF puts
    <3> QED
      BY <1>7, <3>4, AsLong
  <2> HIDE DEF header, puts
  <2>6. rest \in Seq(Instruction)
    BY <2>3, <2>5
  <2> HIDE DEF rest
  <2>7. q.code \in Seq(Instruction)
    BY <1>4, BlockFields
  <2> QED
    BY <2>4, <2>6, <2>7
<1> HIDE DEF longer
<1>10. caller \in Block /\ caller.final = q.final
  BY <1>4, <1>9, OtherCode
<1> HIDE DEF caller
<1>12. object \in Int
  BY <1>8, <1>10, ParamCountNat
<1> HIDE DEF object
<1>13. x \in Block /\ x.tail.type # "open" /\ x.final = caller.final
  <2> DEFINE first == b.stack[n + 1]
             all == <<object>> \o args
  <2>1. first \in Int /\ all \in Seq(Int)
    BY <1>5, <1>6, <1>12
  <2> HIDE DEF first, all
  <2> DEFINE z == [caller EXCEPT !.tail = [OpenTail EXCEPT !.type = "call", !.first = first,
                                                           !.args = all]]
  <2>2. z \in Block /\ z.tail.type # "open" /\ z.final = caller.final
    BY <1>10, <2>1, CallTail
  <2> QED
    BY <2>2 DEF first, all
<1>14. base \in Nat /\ height \in Nat /\ One(q.hasRet) \in Nat
  BY <1>2, <1>4, ParamCountNat DEF One
<1> HIDE DEF base, height
<1>15. /\ q.stack \in Seq(Int) /\ q.syms \in Seq(Entry) /\ q.hasRet \in BOOLEAN
       /\ \A i \in DOMAIN q.syms : q.syms[i].s \in Nat
  BY <1>4, BlockFields
<1>16. code \in Seq(Instruction)
  <2>1. "cast" \in Ops /\ "field" \in Ops /\ "get" \in Ops
    BY DEF Ops
  <2>2. <<0>> \in Seq(Int) /\ <<1>> \in Seq(Int) /\ <<base>> \in Seq(Int)
    BY <1>14
  <2>3. /\ Instr("cast", <<0>>, 0) \in Instruction /\ Instr("get", <<1>>, 0) \in Instruction
        /\ Instr("field", <<base>>, 0) \in Instruction
    BY <2>1, <2>2 DEF Instr, Instruction
  <2>4. gets \in Seq(Instruction)
    <3>1. gets \in [DOMAIN saved -> Instruction]
      BY <2>3
    <3> HIDE DEF gets
    <3> QED
      BY <1>7, <3>1, AsLong
  <2> HIDE DEF gets
  <2> QED
    BY <2>3, <2>4
<1>17. ins \in Int
  BY <1>14
<1>18. stack \in Seq(Int) /\ Len(stack) = g
  <2>1. stack \in [DOMAIN q.stack -> Int]
    <3>1. \A i \in DOMAIN q.stack : i \in Int
      BY <1>15
    <3> QED
      BY <1>14, <3>1
  <2> HIDE DEF stack
  <2> QED
    BY <1>4, <1>15, <2>1, AsLong
<1>19. syms \in Seq(Entry)
  <2>1. \A i \in DOMAIN q.syms : base + height + i \in Int
    BY <1>14, <1>15
  <2>2. syms \in [DOMAIN q.syms -> Entry]
    BY <1>15, <2>1 DEF Entry
  <2> HIDE DEF syms
  <2> QED
    BY <1>15, <2>2, AsLong
<1> HIDE DEF code, ins, stack, syms
<1>20. Fills(back, bs[r], g)
  BY <1>2, <1>15, <1>16, <1>17, <1>18, <1>19, BackBlock
<1>21. Fills(y, bs[r], g)
  <2>1. CASE empty
    BY <1>2, <1>7, <2>1 DEF Fills
  <2>2. CASE ~empty
    BY <1>20, <2>2
  <2> QED
    BY <2>1, <2>2
<1>22. x.final = bs[p].final
  BY <1>4, <1>10, <1>13 DEF b
<1> HIDE DEF x, y
<1> QED
  BY <1>1, <1>13, <1>21, <1>22

\* Of the blocks p and r, p is about to call and r waits for the return.
Calls(bs, T, p, r, n, g) ==
  /\ p # r /\ \A b : b \in T <=> b = p \/ b = r
  /\ n \in Nat /\ g \in Nat
  /\ Len(bs[p].stack) = g + n + 1 /\ Len(bs[r].stack) = 0

LEMMA InvokeChanges ==
  ASSUME NEW bs, NEW T, Tidy(bs, T), NEW p, NEW r, NEW n, NEW g, Calls(bs, T, p, r, n, g),
         NEW nonvoid \in BOOLEAN
  PROVE  LET bs2 == Invoke(bs, p, r, n, nonvoid)
         IN /\ Changes(bs, bs2, T, {r})
            /\ Len(bs2) = Len(bs) /\ Len(bs2[r].stack) = g
<1> DEFINE bs2 == Invoke(bs, p, r, n, nonvoid)
           R == {r}
<1>1. /\ p # r /\ \A b : b \in T <=> b = p \/ b = r
      /\ n \in Nat /\ g \in Nat
      /\ Len(bs[p].stack) = g + n + 1 /\ Len(bs[r].stack) = 0
  BY DEF Calls
<1>2. /\ bs \in Seq(Block) /\ \A b \in DOMAIN bs : ~bs[b].final
      /\ T \in SUBSET DOMAIN bs /\ \A b \in T : Open(bs, b)
      /\ p \in T /\ p \in DOMAIN bs /\ r \in DOMAIN bs /\ r \in R
  BY <1>1 DEF Tidy
<1>3. PICK x, y : /\ bs2 = [bs EXCEPT ![p] = x, ![r] = y]
                  /\ x \in Block /\ x.tail.type # "open" /\ x.final = bs[p].final
                  /\ Fills(y, bs[r], g)
  BY <1>1, <1>2, InvokeParts
<1> DEFINE bs1 == Put(bs, p, x)
<1> HIDE DEF bs2
<1>4. Changes(bs, bs1, T, T \ {p})
  BY <1>2, <1>3, SealChanges
<1>5. T \ {p} = R
  BY <1>1
<1>6. /\ bs1 \in Seq(Block) /\ Len(bs1) = Len(bs) /\ bs1[r] = bs[r]
      /\ bs2 = [bs1 EXCEPT ![r] = y]
  BY <1>1, <1>2, <1>3 DEF Put
<1> HIDE DEF bs1, R
<1>7. Changes(bs, bs1, T, R)
  BY <1>4, <1>5
<1>8. Tidy(bs1, R)
  BY <1>2, <1>7, TidyAgain
<1>9. Fills(y, bs1[r], g) /\ bs2 = [bs1 EXCEPT ![r] = y]
  BY <1>3, <1>6
<1>10. Filled(bs1, bs2, r, g)
  BY ONLY <1>9, FilledBy
<1>11. r \in R
  BY <1>2
<1>12. Changes(bs1, bs2, R, R) /\ Len(bs2) = Len(bs1) /\ Len(bs2[r].stack) = g
  BY ONLY <1>8, <1>10, <1>11, FillChanges
<1>13. Changes(bs, bs2, T, R)
  BY <1>2, <1>7, <1>12, ChangesTrans
<1> QED
  BY <1>6, <1>12, <1>13 DEF R, bs2

LEMMA EndArgumentWell ==
  ASSUME NEW h, Ready(blocks, cur, frames, at, h), EndArgument
  PROVE  Well
<1> DEFINE g == h[Len(frames) - 1]
           n == top.n
           post == top.post
           r == top.oth
           T == Top(cur, top)
           x == PushStack(blocks[cur])
           m == Len(blocks[cur].stack) + 1
           bs1 == [blocks EXCEPT ![cur] = x]
           f == [top EXCEPT !.n = n - 1]
<1>1. at = "value" /\ frames # <<>> /\ top.k = "call"
  BY DEF EndArgument, Returned, Waiting
<1>2. /\ top \in Frames /\ FrameOK(Len(blocks), top) /\ cur # NoBlock
      /\ g \in Nat /\ Len(blocks[cur].stack) = g + Pushed(top)
  BY <1>1, TopFacts
<1>3. /\ blocks \in Seq(Block) /\ cur \in DOMAIN blocks /\ blocks[cur] \in Block
      /\ Len(blocks[cur].stack) \in Nat /\ Len(blocks) \in Nat
  BY <1>2, CurFacts
<1>4. /\ n \in Nat /\ post \in Nat /\ n \in 1 .. post + 1 /\ r \in 1 .. Len(blocks)
      /\ Pushed(top) = post - n + 1 /\ top.done \in BOOLEAN
  BY <1>1, <1>2 DEF FrameOK, Pushed, Frames
<1>5. r # NoBlock /\ r \in DOMAIN blocks
  BY <1>3, <1>4 DEF NoBlock
<1>6. \A b : b \in Pending(top) <=> b = r
  BY <1>1, <1>5, PendingIs
<1>7. /\ cur # r /\ \A b : b \in T <=> b = cur \/ b = r
      /\ Len(blocks[r].stack) = 0
  <2>1. /\ cur \notin Pending(top)
        /\ \A b \in Pending(top) :
             Len(blocks[b].stack) = IF top.k \in {"tfirst", "tsecond"} THEN g ELSE 0
    BY <1>1, TopReady DEF top
  <2> QED
    BY <1>1, <1>2, <1>6, <2>1 DEF Top, Only
<1>8. Tidy(blocks, T) /\ T \subseteq DOMAIN blocks /\ cur \in T
  BY <1>1, <1>7, TopTidy DEF Tidy
<1>9. Fills(x, blocks[cur], m) /\ bs1 = [blocks EXCEPT ![cur] = x]
  BY <1>3, PushFills
<1>10. bs1[r] = blocks[r]
  BY <1>3, <1>5, <1>7
<1>11. IF n > 1
         THEN /\ frames' = Append(Below, f) /\ at' = "expr" /\ cur' = cur /\ blocks' = bs1
         ELSE /\ frames' = Below /\ at' = "value" /\ cur' = r
              /\ blocks' = Invoke(bs1, cur, r, post, top.done)
  BY DEF EndArgument, Replace, Value, Produce
<1>12. m = g + (post - n + 1) + 1
  BY <1>2, <1>4
<1> HIDE DEF x, bs1, m, T, g
<1>13. Filled(blocks, bs1, cur, m)
  BY ONLY <1>9, FilledBy
<1>14. Changes(blocks, bs1, T, T) /\ Len(bs1) = Len(blocks) /\ Len(bs1[cur].stack) = m
  BY ONLY <1>8, <1>13, FillChanges
<1>15. Changes(blocks, bs1, Top(cur, frames[Len(frames)]), T)
  BY <1>14 DEF T, top
<1>16. CASE n > 1
  <2>1. /\ f \in Frames /\ f.n = n - 1 /\ f.k = top.k /\ f.oth = r /\ f.post = post
    BY <1>2, <1>16, FrameLess
  <2> HIDE DEF f
  <2>2. Pushed(f) = post - n + 2 /\ Pushed(f) \in Nat
    <3>1. Pushed(f) = post - (n - 1) + 1
      BY <1>1, <2>1 DEF Pushed
    <3> QED
      BY <1>4, <3>1
  <2>3. FrameOK(Len(bs1), f)
    <3>1. n - 1 \in 1 .. post + 1
      BY <1>4, <1>16
    <3> QED
      BY <1>1, <1>4, <1>14, <2>1, <3>1 DEF FrameOK
  <2>4. \A b : b \in Pending(f) <=> b = r
    BY <1>1, <1>5, <2>1, PendingIs
  <2>5. \A b : b \in Top(cur, f) <=> b \in T
    BY <1>2, <1>7, <2>4 DEF Top, Only
  <2>6. Changes(blocks, bs1, Top(cur, frames[Len(frames)]), Top(cur, f))
    <3>1. Top(cur, f) = T
      BY <2>5
    <3> QED
      BY <1>15, <3>1
  <2>7. f.k \notin Roots /\ f.k \notin {"tfirst", "tsecond"}
    BY <1>1, <2>1 DEF Roots
  <2>8. \A b \in Pending(f) :
          Len(bs1[b].stack) = IF f.k \in {"tfirst", "tsecond"} THEN h[Len(frames) - 1] ELSE 0
    BY <1>7, <1>10, <2>4, <2>7
  <2>9. Len(bs1[cur].stack) = h[Len(frames) - 1] + Pushed(f)
    <3>1. Len(bs1[cur].stack) = g + Pushed(f)
      BY <1>2, <1>4, <1>12, <1>14, <2>2, SMTT(30)
    <3> QED
      BY <3>1 DEF g
  <2>10. cur \in 0 .. Len(bs1) /\ cur \notin Pending(f)
    BY <1>3, <1>7, <1>14, <2>4
  <2> DEFINE a2 == "expr"
  <2>11. a2 \notin Between
    BY ModesApart
  <2> HIDE DEF a2
  <2>12. EndsWell(blocks, bs1, cur, Append(SubSeq(frames, 1, Len(frames) - 1), f), a2)
    BY ONLY Ready(blocks, cur, frames, at, h), <1>1, <1>2, <2>1, <2>2, <2>3, <2>6, <2>7, <2>8,
            <2>9, <2>10, <2>11, SwapReady
  <2> QED
    BY <1>11, <1>16, <2>12 DEF Well, Below, a2
<1>17. CASE ~(n > 1)
  <2> DEFINE bs2 == Invoke(bs1, cur, r, post, top.done)
             c2 == r
             T2 == {r}
             p == cur
             k == post
             d == top.done
  <2>1. Tidy(bs1, T)
    BY <1>3, <1>8, <1>14, TidyAgain
  <2>2. m = g + k + 1 /\ n = 1
    BY <1>2, <1>4, <1>12, <1>17
  <2>3. Calls(bs1, T, p, c2, k, g)
    BY <1>2, <1>4, <1>7, <1>10, <1>14, <2>2 DEF Calls
  <2>4. d \in BOOLEAN
    BY <1>4
  <2>5. bs2 = Invoke(bs1, p, c2, k, d) /\ T2 = {c2}
    OBVIOUS
  <2>6. c2 \in 1 .. Len(blocks) /\ c2 # NoBlock
    BY <1>4, <1>5
  <2>7. cur' = c2 /\ blocks' = bs2 /\ frames' = Below /\ at' = "value"
    BY <1>11, <1>17
  <2> HIDE DEF c2, p, k, d, bs2, T2
  <2>8. /\ Changes(bs1, bs2, T, T2)
        /\ Len(bs2) = Len(bs1) /\ Len(bs2[c2].stack) = g
    BY <2>1, <2>3, <2>4, <2>5, InvokeChanges
  <2>9. Changes(blocks, bs2, T, T2)
    BY <1>3, <1>8, <1>14, <2>8, ChangesTrans
  <2>10. Only(c2) = T2
    BY <2>5, <2>6 DEF Only
  <2>11. Changes(blocks, bs2, Top(cur, frames[Len(frames)]), Only(c2))
    BY <2>9, <2>10 DEF T, top
  <2>12. c2 \in 0 .. Len(bs2)
    BY <1>3, <1>14, <2>6, <2>8
  <2>13. Len(bs2[c2].stack) = h[Len(frames) - 1]
    BY <2>8 DEF g
  <2> DEFINE a2 == "value"
  <2>14. a2 \notin Between
    BY ModesApart
  <2> HIDE DEF a2
  <2>15. EndsWell(blocks, bs2, c2, SubSeq(frames, 1, Len(frames) - 1), a2)
    BY ONLY Ready(blocks, cur, frames, at, h), <1>1, <2>6, <2>11, <2>12, <2>13, <2>14,
            LeaveReady
  <2> QED
    BY <2>7, <2>15 DEF Well, Below, a2
<1> QED
  BY <1>16, <1>17

\* One new block.
LEMMA OneMore ==
  ASSUME NEW bs \in Seq(Block), NEW new \in Block, new.tail = OpenTail, ~new.final
  PROVE  /\ Effect(bs, Append(bs, new), {}, 1)
         /\ Append(bs, new)[Len(bs) + 1] = new
         /\ \A b \in DOMAIN bs : Append(bs, new)[b] = bs[b]
<1>1. <<new>> \in Seq(Block) /\ Len(<<new>>) = 1
      /\ \A i \in 1 .. 1 : <<new>>[i].tail = OpenTail /\ ~<<new>>[i].final
  OBVIOUS
<1>2. Append(bs, new) = bs \o <<new>>
  OBVIOUS
<1>3. Effect(bs, bs \o <<new>>, {}, 1)
  BY <1>1, AddEffect
<1>4. /\ Append(bs, new)[Len(bs) + 1] = new
      /\ \A b \in DOMAIN bs : Append(bs, new)[b] = bs[b]
  OBVIOUS
<1> QED
  BY <1>2, <1>3, <1>4

\* The return block as it is made.
LEMMA ReturnBlock ==
  ASSUME NEW n \in Nat
  PROVE  LET new == [EmptyBlock EXCEPT !.par.extra = n]
         IN new \in Block /\ new.tail = OpenTail /\ ~new.final /\ Len(new.stack) = 0
<1> DEFINE par == [NoParams EXCEPT !.extra = n]
           new == [EmptyBlock EXCEPT !.par = par]
<1>1. [EmptyBlock EXCEPT !.par.extra = n] = new
  BY DEF EmptyBlock
<1>2. EmptyBlock \in Block
  BY EmptyBlockType
<1>3. EmptyBlock.par = NoParams /\ EmptyBlock.tail = OpenTail /\ ~EmptyBlock.final
      /\ EmptyBlock.stack = <<>>
  BY DEF EmptyBlock
<1>4. par \in Params
  <2>1. NoParams \in Params
    BY <1>2, <1>3 DEF Block
  <2> QED
    BY <2>1 DEF Params
<1> HIDE DEF par
<1>5. /\ new \in Block /\ new.tail = EmptyBlock.tail /\ new.final = EmptyBlock.final
      /\ new.stack = EmptyBlock.stack
  BY <1>2, <1>4 DEF Block
<1> HIDE DEF new
<1>6. Len(new.stack) = 0
  BY <1>3, <1>5
<1> QED
  BY <1>1, <1>3, <1>5, <1>6

\* A call begins: a block waits for the return.
LEMMA CallStarts ==
  ASSUME NEW h, Ready(blocks, cur, frames, at, h), cur # NoBlock,
         NEW new \in Block, new.tail = OpenTail, ~new.final, Len(new.stack) = 0,
         NEW bs, bs = Append(blocks, new),
         NEW T, T = {cur, Len(blocks) + 1}
  PROVE  /\ Changes(blocks, bs, Only(cur), T)
         /\ Len(bs) = Len(blocks) + 1
         /\ Len(bs[cur].stack) = h[Len(frames)]
         /\ Len(bs[Len(blocks) + 1].stack) = 0
<1> DEFINE g == h[Len(frames)]
           r == Len(blocks) + 1
           T1 == Only(cur)
           one == 1
           S == {}
<1>1. /\ blocks \in Seq(Block) /\ Len(blocks) \in Nat
      /\ cur \in DOMAIN blocks /\ cur \in 1 .. Len(blocks)
      /\ T1 = {cur} /\ T1 \subseteq DOMAIN blocks /\ Tidy(blocks, T1)
      /\ Len(blocks[cur].stack) = g /\ g \in Nat
  BY CurReady
<1> HIDE DEF g, T1
<1>2. /\ Effect(blocks, bs, S, one)
      /\ bs[Len(blocks) + 1] = new /\ \A b \in DOMAIN blocks : bs[b] = blocks[b]
  <2>1. /\ Effect(blocks, Append(blocks, new), {}, 1)
        /\ Append(blocks, new)[Len(blocks) + 1] = new
        /\ \A b \in DOMAIN blocks : Append(blocks, new)[b] = blocks[b]
    BY ONLY <1>1, new \in Block, new.tail = OpenTail, ~new.final, OneMore
  <2> QED
    BY <2>1
<1>3. Becomes(T1, S, blocks, one, T)
  <2>1. \A b : b \in Len(blocks) + 1 .. Len(blocks) + one <=> b = r
    BY <1>1
  <2> HIDE DEF one, r
  <2> QED
    BY <1>1, <2>1 DEF Becomes, r
<1>4. S \subseteq T1 /\ one \in Nat
  OBVIOUS
<1> HIDE DEF S, one
<1>5. Changes(blocks, bs, T1, T) /\ Len(bs) = Len(blocks) + one
  BY ONLY <1>1, <1>2, <1>3, <1>4, EffectTidy
<1> QED
  BY <1>1, <1>2, <1>5 DEF T1, g, one

LEMMA CallWell ==
  ASSUME NEW h, Ready(blocks, cur, frames, at, h), scope \in Seq(Nat),
         NEW n \in Nat, NEW nonvoid \in BOOLEAN, Call(n, nonvoid)
  PROVE  Well
<1> DEFINE r == Len(blocks) + 1
           new == [EmptyBlock EXCEPT !.par.extra = IF nonvoid THEN 2 ELSE 1]
           bs == Append(blocks, new)
           T == {cur, r}
           f == [Frame("call") EXCEPT !.oth = r, !.n = n + 1, !.post = n, !.done = nonvoid]
<1>1. /\ at = "expr"
      /\ frames' = Append(frames, f) /\ at' = at /\ cur' = cur /\ blocks' = bs
  BY DEF Call, Expression, Enter, Produce
<1>2. cur # NoBlock
  <2>1. at \in Filling
    BY <1>1, ModesApart
  <2> QED
    BY <2>1 DEF Ready
<1>3. /\ blocks \in Seq(Block) /\ Len(blocks) \in Nat /\ cur \in 1 .. Len(blocks)
  BY <1>2, CurReady
<1>4. new \in Block /\ new.tail = OpenTail /\ ~new.final /\ Len(new.stack) = 0
  <2> DEFINE e == IF nonvoid THEN 2 ELSE 1
  <2>1. e \in Nat
    OBVIOUS
  <2> HIDE DEF e
  <2>2. LET b == [EmptyBlock EXCEPT !.par.extra = e]
        IN b \in Block /\ b.tail = OpenTail /\ ~b.final /\ Len(b.stack) = 0
    BY <2>1, ReturnBlock
  <2> QED
    BY <2>2 DEF e
<1>5. bs = Append(blocks, new) /\ T = {cur, Len(blocks) + 1}
  OBVIOUS
<1> HIDE DEF new, bs, T
<1>6. /\ Changes(blocks, bs, Only(cur), T)
      /\ Len(bs) = Len(blocks) + 1
      /\ Len(bs[cur].stack) = h[Len(frames)]
      /\ Len(bs[Len(blocks) + 1].stack) = 0
  BY <1>2, <1>4, <1>5, CallStarts
<1>7. r # NoBlock /\ r # cur /\ \A b : b \in T <=> b = cur \/ b = r
  BY <1>3, <1>5 DEF NoBlock
<1>8. /\ f \in Frames /\ f.k = "call" /\ f.oth = r /\ f.n = n + 1 /\ f.post = n
  <2> DEFINE F == Frame("call")
             q == Len(blocks) + 1
             m == n + 1
  <2>1. F \in Frames /\ F.k = "call"
    <3>1. "call" \in FrameKinds
      BY DEF FrameKinds
    <3> QED
      BY <3>1, FrameType
  <2>2. q \in Nat /\ m \in Nat
    BY <1>3
  <2> HIDE DEF F, q, m
  <2> DEFINE e == [F EXCEPT !.oth = q, !.n = m, !.post = n, !.done = nonvoid]
  <2>3. e \in Frames /\ e.k = "call" /\ e.oth = q /\ e.n = m /\ e.post = n
    BY <2>1, <2>2 DEF Frames
  <2> QED
    BY <2>3 DEF F, q, m
<1> HIDE DEF f
<1>9. Pushed(f) = 0 /\ Pushed(f) \in Nat
  <2>1. Pushed(f) = n - (n + 1) + 1
    BY <1>8 DEF Pushed
  <2> QED
    BY <2>1
<1>10. FrameOK(Len(bs), f)
  BY <1>3, <1>6, <1>8 DEF FrameOK
<1>11. \A b : b \in Pending(f) <=> b = r
  BY <1>7, <1>8, PendingIs
<1>12. Top(cur, f) = T
  BY <1>2, <1>7, <1>11 DEF Top, Only
<1>13. f.k \notin Roots /\ f.k \notin {"tfirst", "tsecond"}
  BY <1>8 DEF Roots
<1>14. \A b \in Pending(f) :
         Len(bs[b].stack) = IF f.k \in {"tfirst", "tsecond"} THEN h[Len(frames)] ELSE 0
  BY <1>6, <1>11, <1>13
<1>15. Len(bs[cur].stack) = h[Len(frames)] + Pushed(f)
  <2> DEFINE g == h[Len(frames)]
  <2>1. g \in Nat
    BY <1>2, CurReady
  <2> HIDE DEF g
  <2>2. g = g + Pushed(f)
    BY <1>9, <2>1
  <2> QED
    BY <1>6, <2>2 DEF g
<1>16. cur \in 0 .. Len(bs) /\ cur \notin Pending(f)
  BY <1>3, <1>6, <1>7, <1>11
<1>17. Changes(blocks, bs, Only(cur), Top(cur, f))
  BY <1>6, <1>12
<1>18. at \notin Between
  BY <1>1, ModesApart
<1>19. EndsWell(blocks, bs, cur, Append(frames, f), at)
  BY ONLY Ready(blocks, cur, frames, at, h), <1>2, <1>8, <1>9, <1>10, <1>13, <1>14, <1>15,
          <1>16, <1>17, <1>18, EnterReady
<1> QED
  BY <1>1, <1>19 DEF Well

-----------------------------------------------------------------------------
(* The variables beside the blocks and the calls.                          *)

Modes == {"stmt", "defining", "letting", "expr", "value"}
Going == {"running", "rejected", "missing", "crashed"}

Types ==
  /\ unit \in Units /\ frames \in Seq(Frames) /\ scope \in Seq(Nat)
  /\ symbols \in Nat /\ nodes \in 0 .. MaxNodes /\ at \in Modes /\ status = "running"

Kept ==
  /\ unit' = unit /\ scope' \in Seq(Nat) /\ symbols' \in Nat /\ nodes' \in 0 .. MaxNodes
  /\ at' \in Modes /\ status' \in Going

LEMMA VerdictGoing ==
  ASSUME NEW bs
  PROVE  Verdict(bs) \in Going
BY DEF Verdict, Going

LEMMA NodesKept ==
  ASSUME Types, (nodes < MaxNodes /\ nodes' = nodes + 1) \/ nodes' = nodes
  PROVE  nodes' \in 0 .. MaxNodes
BY BoundsAssumption DEF Types

LEMMA TopKept ==
  ASSUME Types, frames # <<>>
  PROVE  top.scope \in Seq(Nat) /\ top.sym \in Nat
<1>1. top \in Frames
  BY DEF Types, top
<1> QED
  BY <1>1 DEF Frames

LEMMA ScopeGrows ==
  ASSUME Types, NEW s \in Nat
  PROVE  Append(scope, s) \in Seq(Nat)
BY DEF Types

LEMMA StatementKept ==
  ASSUME Types, AStatement
  PROVE  Kept
<1> USE DEF Modes, Going
<1>1. ASSUME NEW more \in BOOLEAN, DefineBare(more) PROVE Kept
  <2>1. symbols' \in Nat /\ scope' = Append(scope, symbols') /\ unit' = unit
    BY <1>1 DEF DefineBare, Types
  <2>2. scope' \in Seq(Nat)
    BY <2>1, ScopeGrows
  <2>3. nodes' \in 0 .. MaxNodes
    BY <1>1, NodesKept DEF DefineBare, StartsClause, Starts
  <2>4. at' \in Modes /\ status' \in Going
    BY <1>1, VerdictGoing DEF DefineBare, AfterClause, Done, Produce
  <2> QED
    BY <2>1, <2>2, <2>3, <2>4 DEF Kept
<1>2. CASE DefineValue \/ Let
  <2>1. /\ unit' = unit /\ scope' = scope /\ symbols' = symbols + 1 /\ at' = "expr"
        /\ status' = status /\ nodes < MaxNodes /\ nodes' = nodes + 1
    BY <1>2 DEF DefineValue, Let, StartsClause, Starts
  <2> QED
    BY <2>1, NodesKept DEF Kept, Types
<1>3. CASE ExpressionStatement \/ If \/ Return
  <2>1. /\ unit' = unit /\ scope' = scope /\ symbols' = symbols /\ at' = "expr"
        /\ status' = status /\ nodes < MaxNodes /\ nodes' = nodes + 1
    BY <1>3 DEF ExpressionStatement, If, Return, Waits, Statement, Starts
  <2> QED
    BY <2>1, NodesKept DEF Kept, Types
<1>4. CASE Nested \/ While \/ DoWhile \/ DoWhileOnStaleLists
  <2>1. /\ unit' = unit /\ scope' = scope /\ symbols' = symbols /\ at' \in {"stmt", "expr"}
        /\ nodes < MaxNodes /\ nodes' = nodes + 1
    BY <1>4 DEF Nested, While, DoWhile, DoWhileOnStaleLists, Statement, Starts
  <2>2. status' \in Going
    BY <1>4, VerdictGoing DEF Nested, While, DoWhile, DoWhileOnStaleLists, Produce
  <2> QED
    BY <2>1, <2>2, NodesKept DEF Kept, Types
<1>5. ASSUME NEW k, NEW i, Control(k, i) PROVE Kept
  <2>1. /\ unit' = unit /\ scope' = scope /\ symbols' = symbols /\ at' = "stmt"
        /\ nodes < MaxNodes /\ nodes' = nodes + 1
    BY <1>5 DEF Control, Statement, Starts
  <2>2. status' \in Going
    BY <1>5, VerdictGoing DEF Control, Produce
  <2> QED
    BY <2>1, <2>2, NodesKept DEF Kept, Types
<1> QED
  BY <1>1, <1>2, <1>3, <1>4, <1>5 DEF AStatement

LEMMA ExpressionKept ==
  ASSUME Types, AnExpression
  PROVE  Kept
<1> USE DEF Modes, Going
<1>1. CASE Literal
  <2>1. /\ unit' = unit /\ scope' = scope /\ symbols' = symbols /\ at' = "value"
        /\ nodes' = nodes
    BY <1>1 DEF Literal, Value
  <2>2. status' \in Going
    BY <1>1, VerdictGoing DEF Literal, Value, Produce
  <2> QED
    BY <2>1, <2>2, NodesKept DEF Kept, Types
<1>2. ASSUME NEW s, Get(s) \/ Compound(s) \/ Postfix(s) PROVE Kept
  <2>1. /\ unit' = unit /\ scope' = scope /\ symbols' = symbols
        /\ nodes < MaxNodes /\ nodes' = nodes + 1
    BY <1>2 DEF Get, Compound, Postfix, Expression, Starts
  <2>2. at' \in Modes /\ status' \in Going
    BY <1>2, VerdictGoing DEF Get, Compound, Postfix, Value, Produce, Types
  <2> QED
    BY <2>1, <2>2, NodesKept DEF Kept, Types
<1>3. ASSUME NEW k, NEW f, Operand(k, f) PROVE Kept
  <2>1. /\ unit' = unit /\ scope' = scope /\ symbols' = symbols /\ at' = at
        /\ status' = status /\ nodes < MaxNodes /\ nodes' = nodes + 1
    BY <1>3 DEF Operand, Expression, Starts
  <2> QED
    BY <2>1, NodesKept DEF Kept, Types
<1>4. ASSUME NEW n, NEW nonvoid, Call(n, nonvoid) PROVE Kept
  <2>1. /\ unit' = unit /\ scope' = scope /\ symbols' = symbols /\ at' \in {at, "value"}
        /\ nodes < MaxNodes /\ nodes' = nodes + 1
    BY <1>4 DEF Call, Expression, Starts, Value
  <2>2. status' \in Going
    BY <1>4, VerdictGoing DEF Call, Value, Produce
  <2> QED
    BY <2>1, <2>2, NodesKept DEF Kept, Types
<1>5. CASE \E s \in Visible : Set(s)
  BY <1>3, <1>5 DEF Set
<1>6. CASE (\E n \in 1 .. 2 : Linear(n)) \/ InstanceOf \/ Ternary
  BY <1>3, <1>6 DEF Linear, InstanceOf, Ternary
<1>7. CASE (\E n \in 2 .. 3 : SetElement(n))
             \/ (\E n \in 1 .. 2, postfix \in BOOLEAN : UpdateElement(n, postfix))
  BY <1>3, <1>7 DEF SetElement, UpdateElement
<1> QED
  BY <1>1, <1>2, <1>4, <1>5, <1>6, <1>7 DEF AnExpression

\* All the ends but that of the unit.
Returns ==
  \/ \E more \in BOOLEAN : EndDefine(more) \/ EndLet(more)
  \/ EndExpression
  \/ EndReturn
  \/ EndIfCondition \/ EndThen \/ EndElse
  \/ EndNested
  \/ EndWhileCondition \/ EndWhile
  \/ EndDoBody \/ EndDoCondition
  \/ EndSet \/ EndCompound \/ EndOperand \/ EndInstanceOf
  \/ EndElement \/ EndTarget \/ EndUpdate
  \/ EndTernaryCondition \/ EndTernaryFirst \/ EndTernary
  \/ EndArgument

LEMMA ReturnsKept ==
  ASSUME Types, Returns
  PROVE  Kept
<1> USE DEF Modes, Going
<1>1. ASSUME NEW more \in BOOLEAN, EndDefine(more) \/ EndLet(more) PROVE Kept
  <2>1. PICK k, mode : mode \in {"defining", "letting"} /\ EndClause(k, mode, more)
    BY <1>1 DEF EndDefine, EndLet
  <2>2. /\ unit' = unit /\ symbols' = symbols /\ scope' = Append(scope, top.sym)
        /\ nodes' = nodes /\ frames # <<>>
    BY <2>1 DEF EndClause, Returned, Waiting
  <2>3. scope' \in Seq(Nat)
    BY <2>2, TopKept, ScopeGrows
  <2>4. at' \in Modes /\ status' \in Going
    BY <2>1, VerdictGoing DEF EndClause, AfterClause, Done, Produce
  <2> QED
    BY <2>2, <2>3, <2>4, NodesKept DEF Kept, Types
<1>2. CASE EndExpression \/ EndReturn \/ EndIfCondition \/ EndWhileCondition \/ EndDoCondition
  <2>1. /\ unit' = unit /\ symbols' = symbols /\ scope' = scope /\ nodes' = nodes
    BY <1>2 DEF EndExpression, EndReturn, EndIfCondition, EndWhileCondition, EndDoCondition,
                Returned
  <2>2. at' \in Modes /\ status' \in Going
    BY <1>2, VerdictGoing DEF EndExpression, EndReturn, EndIfCondition, EndWhileCondition,
                              EndDoCondition, Done, Produce
  <2> QED
    BY <2>1, <2>2, NodesKept DEF Kept, Types
<1>3. CASE EndThen \/ EndElse \/ EndNested \/ EndWhile \/ EndDoBody
  <2>1. /\ unit' = unit /\ symbols' = symbols /\ scope' = top.scope /\ nodes' = nodes
        /\ frames # <<>> /\ at = "stmt"
    BY <1>3 DEF EndThen, EndElse, EndNested, EndWhile, EndDoBody, EndsBody
  <2>2. at' \in Modes /\ status' \in Going
    <3>1. CASE EndThen
      BY <3>1 DEF EndThen, Types
    <3>2. CASE EndElse
      BY <3>2, VerdictGoing DEF EndElse, Done, Produce
    <3>3. CASE EndNested
      BY <2>1, <3>3, VerdictGoing DEF EndNested, Done, Produce
    <3>4. CASE EndWhile
      BY <3>4, VerdictGoing DEF EndWhile, Done, Produce
    <3>5. CASE EndDoBody
      BY <3>5, VerdictGoing DEF EndDoBody, Done, Produce
    <3> QED
      BY <1>3, <3>1, <3>2, <3>3, <3>4, <3>5
  <2> QED
    BY <2>1, <2>2, TopKept, NodesKept DEF Kept, Types
<1>4. CASE EndSet \/ EndCompound \/ EndOperand \/ EndInstanceOf
  <2>1. /\ unit' = unit /\ symbols' = symbols /\ scope' = scope /\ nodes' = nodes
        /\ at = "value"
    BY <1>4 DEF EndSet, EndCompound, EndOperand, EndInstanceOf, Returned, Waiting
  <2>2. at' \in Modes /\ status' \in Going
    BY <1>4, <2>1, VerdictGoing DEF EndSet, EndCompound, EndOperand, EndInstanceOf, Value, Produce
  <2> QED
    BY <2>1, <2>2, NodesKept DEF Kept, Types
<1>5. CASE EndElement \/ EndTarget \/ EndUpdate
  <2>1. /\ unit' = unit /\ symbols' = symbols /\ scope' = scope /\ nodes' = nodes
    BY <1>5 DEF EndElement, EndTarget, EndUpdate, Returned
  <2>2. at' \in Modes /\ status' \in Going
    BY <1>5, VerdictGoing DEF EndElement, EndTarget, EndUpdate, Value, Produce
  <2> QED
    BY <2>1, <2>2, NodesKept DEF Kept, Types
<1>6. CASE EndTernaryCondition \/ EndTernaryFirst \/ EndTernary \/ EndArgument
  <2>1. /\ unit' = unit /\ symbols' = symbols /\ scope' = scope /\ nodes' = nodes
    BY <1>6 DEF EndTernaryCondition, EndTernaryFirst, EndTernary, EndArgument, Returned
  <2>2. at' \in Modes /\ status' \in Going
    BY <1>6, VerdictGoing DEF EndTernaryCondition, EndTernaryFirst, EndTernary, EndArgument,
                              Value, Produce, Types
  <2> QED
    BY <2>1, <2>2, NodesKept DEF Kept, Types
<1> QED
  BY <1>1, <1>2, <1>3, <1>4, <1>5, <1>6 DEF Returns

-----------------------------------------------------------------------------
(* The invariant holds.                                                    *)

Inner ==
  /\ unit \in Units /\ scope \in Seq(Nat) /\ symbols \in Nat /\ nodes \in 0 .. MaxNodes
  /\ blocks \in Seq(Block) /\ cur \in 0 .. Len(blocks) /\ frames \in Seq(Frames)
  /\ at \in Modes /\ status \in Going \cup {"done"}
  /\ status = "running" => \E h : Ready(blocks, cur, frames, at, h)
  /\ EveryBlockEnds

LEMMA VisibleNat ==
  ASSUME Types
  PROVE  Visible \subseteq Nat
<1>1. \A i \in DOMAIN scope : scope[i] \in Nat
  BY DEF Types
<1>2. \A i \in DOMAIN frames : frames[i].sym \in Nat
  <2>1. \A i \in DOMAIN frames : frames[i] \in Frames
    BY DEF Types
  <2> QED
    BY <2>1 DEF Frames
<1> QED
  BY <1>1, <1>2 DEF Visible, Outer

LEMMA WellOutcome ==
  ASSUME Well
  PROVE  Outcome
BY DEF Outcome

LEMMA StatementOutcome ==
  ASSUME NEW h, Ready(blocks, cur, frames, at, h), Types, AStatement
  PROVE  Outcome
<1>1. scope \in Seq(Nat) /\ symbols \in Nat
  BY DEF Types
<1>2. ASSUME NEW more \in BOOLEAN, DefineBare(more) PROVE Outcome
  BY <1>1, <1>2, DefineBareWell, WellOutcome
<1>3. CASE DefineValue \/ Let
  BY <1>1, <1>3, DefineValueWell, WellOutcome
<1>4. CASE ExpressionStatement \/ If \/ Return
  BY <1>1, <1>4, WaitsWell, WellOutcome
<1>5. CASE Nested
  BY <1>1, <1>5, NestedWell, WellOutcome
<1>6. CASE While
  BY <1>1, <1>6, WhileWell, WellOutcome
<1>7. CASE DoWhile
  BY <1>1, <1>7, DoWhileWell, WellOutcome
<1>8. CASE DoWhileOnStaleLists
  BY <1>8 DEF DoWhileOnStaleLists, Outcome
<1>9. ASSUME NEW k, NEW i, Control(k, i) PROVE Outcome
  BY <1>9, ControlWell, WellOutcome
<1> QED
  BY <1>2, <1>3, <1>4, <1>5, <1>6, <1>7, <1>8, <1>9 DEF AStatement

LEMMA ExpressionOutcome ==
  ASSUME NEW h, Ready(blocks, cur, frames, at, h), Types, AnExpression
  PROVE  Outcome
<1>1. scope \in Seq(Nat) /\ Visible \subseteq Nat
  BY VisibleNat DEF Types
<1>2. CASE Literal
  BY <1>2, LiteralWell, WellOutcome
<1>3. ASSUME NEW s \in Visible, Get(s) PROVE Outcome
  BY <1>3, GetWell
<1>4. ASSUME NEW s \in Visible, Compound(s) PROVE Outcome
  BY <1>1, <1>4, CompoundWell
<1>5. ASSUME NEW s \in Visible, Postfix(s) PROVE Outcome
  BY <1>1, <1>5, PostfixWell
<1>6. CASE \/ \E s \in Visible : Set(s)
           \/ \E n \in 1 .. 2 : Linear(n)
           \/ InstanceOf \/ Ternary
           \/ \E n \in 2 .. 3 : SetElement(n)
           \/ \E n \in 1 .. 2, postfix \in BOOLEAN : UpdateElement(n, postfix)
  <2>1. \/ \E s \in Nat : Set(s)
        \/ \E n \in 1 .. 2 : Linear(n)
        \/ InstanceOf \/ Ternary
        \/ \E n \in 2 .. 3 : SetElement(n)
        \/ \E n \in 1 .. 2, postfix \in BOOLEAN : UpdateElement(n, postfix)
    BY <1>1, <1>6
  <2> QED
    BY <1>1, <2>1, ExpressionWaits, WellOutcome
<1>7. ASSUME NEW n \in 0 .. MaxArgs, NEW nonvoid \in BOOLEAN, Call(n, nonvoid) PROVE Outcome
  <2>1. n \in Nat
    BY BoundsAssumption
  <2> QED
    BY <1>1, <1>7, <2>1, CallWell, WellOutcome
<1> QED
  BY <1>2, <1>3, <1>4, <1>5, <1>6, <1>7 DEF AnExpression

LEMMA ReturnsOutcome ==
  ASSUME NEW h, Ready(blocks, cur, frames, at, h), Types, Returns
  PROVE  Outcome
<1>1. scope \in Seq(Nat)
  BY DEF Types
<1>2. ASSUME NEW more \in BOOLEAN, EndDefine(more) \/ EndLet(more) PROVE Outcome
  <2>1. PICK k, mode : k \in {"define", "let"} /\ EndClause(k, mode, more)
    BY <1>2 DEF EndDefine, EndLet
  <2> QED
    BY <2>1, EndClauseWell, WellOutcome
<1>3. CASE EndExpression
  BY <1>3, EndExpressionWell, WellOutcome
<1>4. CASE EndReturn
  BY <1>4, EndReturnWell, WellOutcome
<1>5. CASE EndIfCondition
  BY <1>1, <1>5, EndIfConditionWell, WellOutcome
<1>6. CASE EndThen
  BY <1>6, EndThenWell, WellOutcome
<1>7. CASE EndElse
  BY <1>7, EndElseWell, WellOutcome
<1>8. CASE EndNested
  BY <1>8, EndNestedWell
<1>9. CASE EndWhileCondition
  BY <1>9, EndWhileConditionWell, WellOutcome
<1>10. CASE EndWhile
  BY <1>10, EndWhileWell, WellOutcome
<1>11. CASE EndDoBody
  BY <1>11, EndDoBodyWell, WellOutcome
<1>12. CASE EndDoCondition
  BY <1>12, EndDoConditionWell, WellOutcome
<1>13. CASE EndSet
  BY <1>13, EndSetWell
<1>14. CASE EndCompound
  BY <1>14, EndCompoundWell, WellOutcome
<1>15. CASE EndOperand
  BY <1>15, EndOperandWell, WellOutcome
<1>16. CASE EndInstanceOf
  BY <1>16, EndInstanceOfWell, WellOutcome
<1>17. CASE EndElement
  BY <1>17, EndElementWell, WellOutcome
<1>18. CASE EndTarget
  BY <1>18, EndTargetWell, WellOutcome
<1>19. CASE EndUpdate
  BY <1>19, EndUpdateWell, WellOutcome
<1>20. CASE EndTernaryCondition
  BY <1>20, EndTernaryConditionWell, WellOutcome
<1>21. CASE EndTernaryFirst
  BY <1>21, EndTernaryFirstWell, WellOutcome
<1>22. CASE EndTernary
  BY <1>22, EndTernaryWell, WellOutcome
<1>23. CASE EndArgument
  BY <1>23, EndArgumentWell, WellOutcome
<1> QED
  BY <1>2, <1>3, <1>4, <1>5, <1>6, <1>7, <1>8, <1>9, <1>10, <1>11, <1>12, <1>13, <1>14,
     <1>15, <1>16, <1>17, <1>18, <1>19, <1>20, <1>21, <1>22, <1>23 DEF Returns

\* A block that has its tail is not touched.
Sealed == \A b \in DOMAIN blocks : ~Open(blocks, b) => blocks'[b] = blocks[b]

\* A step that does not end the unit.
LEMMA GoesOn ==
  ASSUME NEW h, Ready(blocks, cur, frames, at, h), Types, Outcome, Kept
  PROVE  Inner' /\ Sealed
<1>1. status' # "done" /\ status' \in Going
  BY DEF Kept, Going
<1>2. /\ unit' \in Units /\ scope' \in Seq(Nat) /\ symbols' \in Nat
      /\ nodes' \in 0 .. MaxNodes /\ at' \in Modes
  BY DEF Kept, Types
<1>3. EveryBlockEnds'
  BY <1>1 DEF EveryBlockEnds
<1>4. CASE Well
  <2>1. PICK h2 : Ready(blocks', cur', frames', at', h2)
    BY <1>4 DEF Well, EndsWell
  <2>2. blocks' \in Seq(Block) /\ cur' \in 0 .. Len(blocks') /\ frames' \in Seq(Frames)
    BY <2>1 DEF Ready, Shape
  <2>3. Sealed
    BY <1>4 DEF Well, EndsWell, Sealed
  <2> QED
    BY <1>1, <1>2, <1>3, <2>1, <2>2, <2>3 DEF Inner
<1>5. CASE /\ UNCHANGED <<blocks, cur, frames, at>>
           /\ status' \in {"missing", "rejected", "crashed"}
  <2>1. blocks' \in Seq(Block) /\ cur' \in 0 .. Len(blocks') /\ frames' \in Seq(Frames)
    BY <1>5 DEF Ready, Shape
  <2>2. Sealed
    BY <1>5 DEF Sealed
  <2>3. status' # "running"
    BY <1>5
  <2> QED
    BY <1>1, <1>2, <1>3, <2>1, <2>2, <2>3 DEF Inner
<1> QED
  BY <1>4, <1>5 DEF Outcome

LEMMA NoCalls ==
  ASSUME NEW h, Ready(blocks, cur, frames, at, h), frames = <<>>
  PROVE  /\ \A b \in DOMAIN blocks : Open(blocks, b) <=> (b = cur /\ cur # NoBlock)
         /\ \A b \in DOMAIN blocks : blocks[b] \in Block /\ ~blocks[b].final
         /\ cur # NoBlock => cur \in DOMAIN blocks
<1>1. /\ blocks \in Seq(Block) /\ cur \in 0 .. Len(blocks)
      /\ \A b \in DOMAIN blocks : ~blocks[b].final
      /\ \A b \in DOMAIN blocks : Open(blocks, b) <=> b \in Held(cur, frames, 0)
  BY DEF Ready, Shape
<1>2. frames \in Seq(Frames) /\ Len(frames) = 0
  OBVIOUS
<1>3. Held(cur, frames, 0) = Only(cur)
  BY <1>2, HeldOnly
<1>4. cur # NoBlock => cur \in DOMAIN blocks
  BY <1>1 DEF NoBlock
<1> QED
  BY <1>1, <1>3, <1>4 DEF Only

\* The end of the unit: the one block without a tail gets its end.
LEMMA EndUnitInner ==
  ASSUME NEW h, Ready(blocks, cur, frames, at, h), Types, EndUnit
  PROVE  Inner' /\ Sealed
<1>1. /\ frames = <<>> /\ UNCHANGED <<unit, cur, frames, at, scope, nodes, symbols>>
      /\ IF cur = NoBlock THEN status' = "done" /\ UNCHANGED blocks
         ELSE CASE unit = "top" -> /\ blocks' = [blocks EXCEPT ![cur].final = TRUE]
                                   /\ status' = "done"
                [] unit = "void" -> /\ blocks' = [blocks EXCEPT ![cur] = ReturnTail(@, <<>>)]
                                    /\ status' = "done"
                [] unit = "value" -> status' = "rejected" /\ UNCHANGED blocks
  BY DEF EndUnit
<1>2. /\ unit' \in Units /\ scope' \in Seq(Nat) /\ symbols' \in Nat
      /\ nodes' \in 0 .. MaxNodes /\ at' \in Modes /\ frames' \in Seq(Frames)
  BY <1>1 DEF Types
<1>3. /\ blocks \in Seq(Block) /\ cur \in 0 .. Len(blocks)
  BY DEF Ready, Shape
<1>4. /\ \A b \in DOMAIN blocks : Open(blocks, b) <=> (b = cur /\ cur # NoBlock)
      /\ \A b \in DOMAIN blocks : blocks[b] \in Block /\ ~blocks[b].final
      /\ cur # NoBlock => cur \in DOMAIN blocks
  BY <1>1, NoCalls
<1>5. CASE cur = NoBlock
  <2>1. status' = "done" /\ blocks' = blocks /\ cur' = cur
    BY <1>1, <1>5
  <2>2. EveryBlockEnds'
    BY <1>4, <1>5, <2>1 DEF EveryBlockEnds, Open
  <2> QED
    BY <1>2, <1>3, <2>1, <2>2 DEF Inner, Sealed
<1>6. CASE cur # NoBlock /\ unit = "top"
  <2>1. blocks' = [blocks EXCEPT ![cur].final = TRUE] /\ status' = "done" /\ cur' = cur
        /\ unit' = "top"
    BY <1>1, <1>6
  <2> DEFINE x == [blocks[cur] EXCEPT !.final = TRUE]
  <2>2. x \in Block /\ x.final /\ x.tail = blocks[cur].tail
    BY <1>4, <1>6 DEF Block
  <2>3. blocks' = [blocks EXCEPT ![cur] = x]
    BY <1>3, <1>4, <1>6, <2>1
  <2> HIDE DEF x
  <2>4. /\ blocks' \in Seq(Block) /\ Len(blocks') = Len(blocks) /\ DOMAIN blocks' = DOMAIN blocks
        /\ blocks'[cur] = x /\ \A b \in DOMAIN blocks : b # cur => blocks'[b] = blocks[b]
    BY <1>3, <1>4, <1>6, <2>2, <2>3
  <2>5. EveryBlockEnds'
    BY <1>4, <1>6, <2>1, <2>2, <2>4 DEF EveryBlockEnds, Open
  <2>6. Sealed
    BY <1>4, <1>6, <2>4 DEF Sealed
  <2> QED
    BY <1>2, <1>3, <2>1, <2>4, <2>5, <2>6 DEF Inner
<1>7. CASE cur # NoBlock /\ unit = "void"
  <2> DEFINE x == ReturnTail(blocks[cur], <<>>)
  <2>1. blocks' = [blocks EXCEPT ![cur] = x] /\ status' = "done" /\ cur' = cur
    BY <1>1, <1>7
  <2>2. x \in Block /\ x.tail.type = "return" /\ x.final = blocks[cur].final
    <3>1. <<>> \in Seq(Int)
      OBVIOUS
    <3> QED
      BY <1>4, <1>7, <3>1, ReturnTailBlock
  <2> HIDE DEF x
  <2>3. /\ blocks' \in Seq(Block) /\ Len(blocks') = Len(blocks) /\ DOMAIN blocks' = DOMAIN blocks
        /\ blocks'[cur] = x /\ \A b \in DOMAIN blocks : b # cur => blocks'[b] = blocks[b]
    BY <1>3, <1>4, <1>7, <2>1, <2>2
  <2>4. EveryBlockEnds'
    BY <1>4, <1>7, <2>1, <2>2, <2>3 DEF EveryBlockEnds, Open
  <2>5. Sealed
    BY <1>4, <1>7, <2>3 DEF Sealed
  <2> QED
    BY <1>2, <1>3, <2>1, <2>3, <2>4, <2>5 DEF Inner
<1>8. CASE cur # NoBlock /\ unit = "value"
  <2>1. blocks' = blocks /\ cur' = cur /\ status' = "rejected"
    BY <1>1, <1>8
  <2>2. status' \in Going /\ status' # "done" /\ status' # "running"
    BY <2>1 DEF Going
  <2>3. EveryBlockEnds'
    BY <2>2 DEF EveryBlockEnds
  <2> QED
    BY <1>2, <1>3, <2>1, <2>2, <2>3 DEF Inner, Sealed
<1> QED
  BY <1>5, <1>6, <1>7, <1>8, UnitsAssumption DEF Types

LEMMA StoppedInner ==
  ASSUME Inner, HeapBroken \/ UNCHANGED vars
  PROVE  Inner' /\ Sealed
<1>1. CASE UNCHANGED vars
  BY <1>1 DEF Inner, vars, Sealed, EveryBlockEnds
<1>2. CASE HeapBroken
  <2>1. /\ UNCHANGED <<unit, blocks, cur, frames, at, scope, nodes, symbols>>
        /\ status' = "crashed"
    BY <1>2 DEF HeapBroken, Stop
  <2>2. status' \in Going /\ status' # "done" /\ status' # "running"
    BY <2>1 DEF Going
  <2>3. EveryBlockEnds'
    BY <2>2 DEF EveryBlockEnds
  <2> QED
    BY <2>1, <2>2, <2>3 DEF Inner, Sealed
<1> QED
  BY <1>1, <1>2

LEMMA InnerStep ==
  ASSUME Inner, [Next]_vars
  PROVE  Inner' /\ Sealed
<1>1. CASE (HeapBroken \/ UNCHANGED vars) \/ Over
  BY <1>1, StoppedInner DEF Over
<1>2. CASE AStatement \/ AnExpression \/ AnEnd
  <2>1. status = "running"
    BY <1>2 DEF AStatement, AnExpression, AnEnd, DefineBare, DefineValue, Let,
       ExpressionStatement, If, Return, Waits, Nested, While, DoWhile, DoWhileOnStaleLists,
       Control, StartsClause, Statement, Starts, Literal, Get, Set, Compound, Postfix, Linear,
       InstanceOf, SetElement, UpdateElement, Ternary, Call, Operand, Expression,
       EndDefine, EndLet, EndClause, EndExpression, EndReturn, EndIfCondition, EndThen, EndElse,
       EndNested, EndWhileCondition, EndWhile, EndDoBody, EndDoCondition, EndSet, EndCompound,
       EndOperand, EndInstanceOf, EndElement, EndTarget, EndUpdate, EndTernaryCondition,
       EndTernaryFirst, EndTernary, EndArgument, EndUnit, Returned, EndsBody
  <2>2. PICK h : Ready(blocks, cur, frames, at, h)
    BY <2>1 DEF Inner
  <2>3. Types
    BY <2>1 DEF Inner, Types
  <2>4. CASE AStatement
    BY <2>2, <2>3, <2>4, StatementOutcome, StatementKept, GoesOn
  <2>5. CASE AnExpression
    BY <2>2, <2>3, <2>5, ExpressionOutcome, ExpressionKept, GoesOn
  <2>6. CASE Returns
    BY <2>2, <2>3, <2>6, ReturnsOutcome, ReturnsKept, GoesOn
  <2>7. CASE EndUnit
    BY <2>2, <2>3, <2>7, EndUnitInner
  <2> QED
    BY <1>2, <2>4, <2>5, <2>6, <2>7, SMTT(30) DEF AnEnd, Returns
<1> QED
  BY <1>1, <1>2 DEF Next

\* The block a unit starts with.
LEMMA StartBlockType ==
  ASSUME NEW u, NEW params \in Nat
  PROVE  LET b == StartBlock(u, params)
         IN b \in Block /\ b.tail = OpenTail /\ ~b.final /\ Len(b.stack) = 0
<1>1. /\ EmptyBlock \in Block /\ EmptyBlock.tail = OpenTail /\ ~EmptyBlock.final
      /\ EmptyBlock.stack = <<>>
  BY EmptyBlockType DEF EmptyBlock
<1>2. CASE u = "top"
  BY <1>1, <1>2 DEF StartBlock
<1>3. CASE u # "top"
  <2> DEFINE par == [ret |-> TRUE, live |-> 1 .. params, stk |-> 0, extra |-> 0]
             syms == [q \in 1 .. params |-> [s |-> q, ex |-> TRUE, ins |-> q]]
             e == EmptyBlock
             b == [e EXCEPT !.par = par, !.syms = syms, !.hasRet = TRUE]
  <2>1. par \in Params
    <3>1. 1 .. params \in Positions
      BY FS_Interval DEF Positions, Position
    <3> QED
      BY <3>1 DEF Params
  <2>2. syms \in Seq(Entry)
    <3>1. syms \in [1 .. params -> Entry]
      BY DEF Entry
    <3> HIDE DEF syms
    <3> QED
      BY <3>1, FunSeq
  <2>3. StartBlock(u, params) = b
    BY <1>3 DEF StartBlock
  <2>4. e \in Block
    BY <1>1
  <2>5. e.tail = OpenTail /\ ~e.final /\ e.stack = <<>>
    BY <1>1
  <2> HIDE DEF par, syms, e
  <2>6. b \in Block /\ b.tail = e.tail /\ b.final = e.final /\ b.stack = e.stack
    BY <2>1, <2>2, <2>4 DEF Block
  <2> HIDE DEF b
  <2>7. Len(b.stack) = 0
    BY <2>5, <2>6
  <2> QED
    BY <2>3, <2>5, <2>6, <2>7
<1> QED
  BY <1>2, <1>3

LEMMA InnerInit ==
  ASSUME Init
  PROVE  Inner
<1>1. PICK params \in 0 .. (IF unit = "top" THEN 0 ELSE MaxParams) :
        /\ blocks = <<StartBlock(unit, params)>>
        /\ scope = [q \in 1 .. params |-> q]
        /\ symbols = params
  BY DEF Init
<1>2. params \in Nat
  BY <1>1, BoundsAssumption
<1>3. /\ unit \in Units /\ cur = 1 /\ frames = <<>> /\ at = "stmt" /\ nodes = 0
      /\ status = "running"
  BY DEF Init
<1> DEFINE b == StartBlock(unit, params)
           h == [i \in 0 .. 0 |-> 0]
<1>4. b \in Block /\ b.tail = OpenTail /\ ~b.final /\ Len(b.stack) = 0
  BY <1>2, StartBlockType
<1>5. blocks = <<b>>
  BY <1>1
<1> HIDE DEF b
<1>6. /\ blocks \in Seq(Block) /\ Len(blocks) = 1 /\ DOMAIN blocks = {1} /\ blocks[1] = b
  BY <1>4, <1>5
<1>7. frames \in Seq(Frames) /\ Len(frames) = 0 /\ DOMAIN frames = {}
  BY <1>3
<1>8. Open(blocks, 1)
  BY <1>4, <1>6 DEF Open, OpenTail
<1>9. Held(cur, frames, 0) = {1}
  <2>1. \A k \in Nat : Len(frames) = k => Held(cur, frames, k) = Only(cur)
    BY <1>7, HeldOnly
  <2>2. Held(cur, frames, 0) = Only(cur)
    BY ONLY <1>7, <2>1
  <2> QED
    BY <1>3, <2>2 DEF Only, NoBlock
<1>10. Shape(blocks, cur, frames)
  BY <1>3, <1>4, <1>6, <1>7, <1>8, <1>9 DEF Shape
<1>11. Levels(blocks, cur, frames, h)
  <2>1. h \in [0 .. Len(frames) -> Nat] /\ h[0] = 0 /\ h[Len(frames)] = 0
    BY <1>7
  <2> HIDE DEF h
  <2> QED
    BY <1>3, <1>4, <1>6, <1>7, <2>1 DEF Levels
<1>12. \A j \in 0 .. Len(frames) : h[j] = 0
  BY <1>7
<1>13. cur # NoBlock
  BY <1>3 DEF NoBlock
<1> HIDE DEF h
<1>14. Ready(blocks, cur, frames, at, h)
  BY <1>10, <1>11, <1>12, <1>13 DEF Ready
<1>15. scope \in Seq(Nat) /\ symbols \in Nat
  <2>1. scope \in [1 .. params -> Nat]
    BY <1>1
  <2> QED
    BY <1>1, <1>2, <2>1, FunSeq
<1>16. nodes \in 0 .. MaxNodes /\ at \in Modes /\ status \in Going
  BY <1>3, BoundsAssumption DEF Modes, Going
<1>17. EveryBlockEnds
  BY <1>3 DEF EveryBlockEnds
<1>18. cur \in 0 .. Len(blocks)
  BY <1>3, <1>6
<1> QED
  BY <1>3, <1>6, <1>7, <1>14, <1>15, <1>16, <1>17, <1>18 DEF Inner

\* The inductive invariant holds of every program, of any size.
THEOREM InnerInvariant == Spec => []Inner
<1>1. Init => Inner
  BY InnerInit
<1>2. Inner /\ [Next]_vars => Inner'
  BY InnerStep
<1> QED
  BY <1>1, <1>2, PTL DEF Spec

-----------------------------------------------------------------------------
(* What follows from it.                                                   *)

\* The types of generate.h: of generate_block and the functions it calls, none
\* makes a block, a list or a symbol that the next would misread.
THEOREM TypesHold == Spec => []TypeOK
<1>1. Inner => TypeOK
  BY DEF Inner, TypeOK, Modes, Going
<1> QED
  BY <1>1, InnerInvariant, PTL

\* Of the blocks that generate_block and its kin keep in their local variables,
\* no two calls keep the same one, none has its tail, and none is forgotten.
THEOREM OpenBlocksArePending == Spec => []OpenIsPending
<1>1. ASSUME Inner, status = "running" PROVE OpenIsPending
  <2>1. PICK h : Ready(blocks, cur, frames, at, h)
    BY <1>1 DEF Inner
  <2>2. /\ blocks \in Seq(Block) /\ frames \in Seq(Frames) /\ Len(frames) \in Nat
        /\ \A i \in DOMAIN frames : FrameOK(Len(blocks), frames[i])
        /\ \A b \in DOMAIN blocks : Open(blocks, b) <=> b \in Held(cur, frames, 0)
        /\ \A i \in DOMAIN frames : cur \notin Pending(frames[i])
        /\ \A i, j \in DOMAIN frames : i # j => Pending(frames[i]) \cap Pending(frames[j]) = {}
    BY <2>1 DEF Ready, Shape
  <2>3. Held(cur, frames, 0) = AllPending \cup ({cur} \ {NoBlock})
    <3>1. 0 + 1 .. Len(frames) = DOMAIN frames
      BY <2>2
    <3> QED
      BY <3>1 DEF Held, AllPending
  <2>4. Held(cur, frames, 0) \subseteq DOMAIN blocks
    <3>1. \A i \in DOMAIN frames : Pending(frames[i]) \subseteq DOMAIN blocks
      <4>1. Len(blocks) \in Nat /\ DOMAIN blocks = 1 .. Len(blocks)
        BY <2>2
      <4> QED
        BY <2>2, <4>1, PendingDomain
    <3>2. cur # NoBlock => cur \in DOMAIN blocks
      BY <2>1, CurFacts
    <3> QED
      BY <2>3, <3>1, <3>2 DEF AllPending
  <2>5. {b \in DOMAIN blocks : blocks[b].tail.type = "open"} = AllPending \cup ({cur} \ {NoBlock})
    BY <2>2, <2>3, <2>4 DEF Open
  <2>6. cur \notin AllPending
    BY <2>2 DEF AllPending
  <2>7. \A i \in DOMAIN frames : frames[i].k = "do" =>
          Blocks(frames[i].brk) \cap Blocks(frames[i].cont) = {}
    BY <2>2 DEF FrameOK
  <2> QED
    BY <2>2, <2>5, <2>6, <2>7 DEF OpenIsPending
<1>2. Inner => OpenIsPending
  BY <1>1 DEF OpenIsPending
<1> QED
  BY <1>2, InnerInvariant, PTL

\* No value of an expression is left on a stack when a statement is done,
\* though the stacks are pushed and popped in ten places of generate_expression.
THEOREM NoValueIsLeft == Spec => []StackEmptyBetween
<1>1. ASSUME Inner, status = "running", at = "stmt" PROVE StackEmptyBetween
  <2>1. PICK h : Ready(blocks, cur, frames, at, h)
    BY <1>1 DEF Inner
  <2>2. /\ blocks \in Seq(Block) /\ frames \in Seq(Frames) /\ Len(frames) \in Nat
        /\ \A i \in DOMAIN frames : FrameOK(Len(blocks), frames[i])
        /\ \A j \in 0 .. Len(frames) : h[j] = 0
        /\ \A i \in DOMAIN frames : \A b \in Pending(frames[i]) :
             Len(blocks[b].stack) = IF frames[i].k \in {"tfirst", "tsecond"} THEN h[i - 1] ELSE 0
        /\ cur # NoBlock => Len(blocks[cur].stack) = h[Len(frames)]
    BY <1>1, <2>1 DEF Ready, Shape, Levels, Between
  <2>3. ASSUME NEW b \in AllPending \cup ({cur} \ {NoBlock})
        PROVE  b \in DOMAIN blocks /\ Len(blocks[b].stack) = 0
    <3>1. CASE b = cur /\ cur # NoBlock
      <4>1. Len(frames) \in 0 .. Len(frames)
        BY <2>2
      <4>2. cur \in DOMAIN blocks
        BY <2>1, <3>1, CurFacts
      <4> QED
        BY <2>2, <3>1, <4>1, <4>2
    <3>2. CASE b \in AllPending
      <4>1. PICK i \in DOMAIN frames : b \in Pending(frames[i])
        BY <3>2 DEF AllPending
      <4>2. i - 1 \in 0 .. Len(frames)
        BY <2>2
      <4>3. Len(blocks) \in Nat /\ DOMAIN blocks = 1 .. Len(blocks)
        BY <2>2
      <4>4. b \in DOMAIN blocks
        BY <2>2, <4>1, <4>3, PendingDomain
      <4> QED
        BY <2>2, <4>1, <4>2, <4>4
    <3> QED
      BY <3>1, <3>2
  <2>4. ASSUME NEW b \in AllPending \cup ({cur} \ {NoBlock})
        PROVE  blocks[b].stack = <<>>
    <3>1. b \in DOMAIN blocks /\ Len(blocks[b].stack) = 0
      BY <2>3
    <3>2. blocks[b] \in Block
      BY <2>2, <3>1
    <3>3. blocks[b].stack \in Seq(Int)
      BY <3>2, BlockFields
    <3> QED
      BY <3>1, <3>3
  <2> QED
    BY <2>4 DEF StackEmptyBetween
<1>2. Inner => StackEmptyBetween
  BY <1>1 DEF StackEmptyBetween
<1> QED
  BY <1>2, InnerInvariant, PTL

\* When the unit is done, generate's final block is the only one without a
\* tail, and a function has none.
THEOREM EveryBlockHasItsEnd == Spec => []EveryBlockEnds
<1>1. Inner => EveryBlockEnds
  BY DEF Inner
<1> QED
  BY <1>1, InnerInvariant, PTL

\* A block that has its tail is never touched again.
THEOREM SealedBlocksStay == Spec => SealedStays
<1>1. Inner /\ [Next]_vars
        => [\A b \in DOMAIN blocks :
              blocks[b].tail.type # "open" => blocks'[b] = blocks[b]]_vars
  <2> SUFFICES ASSUME Inner, [Next]_vars
               PROVE  \A b \in DOMAIN blocks :
                        blocks[b].tail.type # "open" => blocks'[b] = blocks[b]
    OBVIOUS
  <2>1. Sealed
    BY InnerStep
  <2> QED
    BY <2>1 DEF Sealed, Open
<1> QED
  BY <1>1, InnerInvariant, PTL DEF Spec, SealedStays
-----------------------------------------------------------------------------
(* The symbol lists against the scope.                                     *)

\* Calls that wait for a statement list; calls that wait for the expression of
\* a statement; calls that wait for an operand.
Body == {"block", "then", "else", "wbody", "do"}
Wait == {"while", "docond", "define", "let", "discard", "if", "return"}
Expr == {"set", "compound", "linear", "instanceof", "element", "target", "update", "tcond",
         "tfirst", "tsecond", "call"}

\* Calls that have left the block they began in.
Forking == {"block", "then", "else", "while", "wbody", "do", "docond", "tfirst", "tsecond"}

\* The sequence t begins with s.
Begins(s, t) == Len(s) <= Len(t) /\ \A q \in 1 .. Len(s) : t[q] = s[q]

\* The names each block has a symbol for.
Lists(bs) == [b \in DOMAIN bs |-> Names(bs[b].syms)]

\* The blocks a call remembers whose symbols no longer change.
Fixed(f) ==
  IF f.k = "block" \/ f.k = "else" THEN {f.ctx}
  ELSE IF f.k \in {"then", "tfirst", "tsecond"} THEN {f.ctx, f.oth}
  ELSE IF f.k = "wbody" THEN {f.oth, f.post}
  ELSE IF f.k \in {"do", "docond"} THEN {f.par}
  ELSE {}

\* Those that may be the current block.
Own(f) ==
  IF f.k = "do" THEN {f.ctx, f.prev, f.oth}
  ELSE IF f.k \in {"while", "docond"} THEN {f.oth}
  ELSE {}

\* Statements hold statements and expressions, expressions hold expressions.
Discipline(fs, a) ==
  /\ \A i, j \in DOMAIN fs : i < j /\ fs[i].k \notin Body => fs[j].k \in Expr
  /\ \A i \in DOMAIN fs : fs[i].k \in Expr => i > 1 /\ fs[i - 1].k \notin Body
  /\ a \in Between <=> fs = <<>> \/ fs[Len(fs)].k \in Body

\* Nobody adds a symbol to a block whose list an enclosing call relies on.
Apart(c, fs) ==
  /\ \A i \in DOMAIN fs : c \notin Fixed(fs[i])
  /\ \A i, j \in DOMAIN fs : i < j => Pending(fs[j]) \cap (Fixed(fs[i]) \cup Own(fs[i])) = {}
  /\ \A i, j \in DOMAIN fs : i < j /\ fs[j].k \in Forking => c \notin Own(fs[i])
  /\ \A i \in DOMAIN fs : fs[i].k = "do" /\ c \in Own(fs[i]) => fs[i].cont = <<>>
  /\ \A i \in DOMAIN fs : fs[i].k \in {"then", "tfirst"} => fs[i].ctx # fs[i].oth

\* What was in scope when the call above the i-th began, or is now.
Up(fs, sc, i) == IF i = Len(fs) THEN sc ELSE fs[i + 1].scope

\* What the lists nm are to the scope the call f goes back to, and to the one
\* above it, up.
Knows(nm, f, up) ==
  /\ Begins(f.scope, up)
  /\ f.k \in {"block", "then", "else", "wbody", "do", "docond"} =>
       \A b \in Fixed(f) : nm[b] = f.scope
  /\ f.k = "while" => nm[f.oth] = f.scope
  /\ f.k = "else" /\ f.oth # NoBlock => Begins(f.scope, nm[f.oth])
  /\ f.k = "do" =>
       /\ Begins(f.scope, nm[f.ctx]) /\ Begins(nm[f.ctx], up)
       /\ \A b \in Blocks(f.cont) : Begins(nm[f.ctx], nm[b])
       /\ ~f.done => /\ Begins(f.scope, nm[f.prev]) /\ Begins(nm[f.prev], up)
                     /\ \A b \in Blocks(f.cont) : Begins(nm[f.prev], nm[b])
  /\ f.k \in {"do", "docond"} =>
       /\ Begins(f.scope, nm[f.oth])
       /\ \A b \in Blocks(f.brk) : Begins(f.scope, nm[b])

\* The same for all calls and for the current block, whose list is the scope
\* but in the condition of a do-while.
Known(nm, c, fs, sc) ==
  /\ \A i \in DOMAIN fs : Knows(nm, fs[i], Up(fs, sc, i))
  /\ \A i \in DOMAIN fs : fs[i].k \notin Body => fs[i].scope = sc
  /\ \A i \in DOMAIN fs : fs[i].k \in {"tfirst", "tsecond"} =>
       c # NoBlock /\ \A b \in Fixed(fs[i]) : nm[b] = nm[c]
  /\ c # NoBlock => Begins(sc, nm[c])
  /\ c # NoBlock /\ (\A i \in DOMAIN fs : fs[i].k # "docond") => nm[c] = sc

\* Scopes only grow inwards.
Chain(fs, sc) ==
  /\ \A i, j \in DOMAIN fs : i < j => Begins(fs[i].scope, fs[j].scope)
  /\ \A i \in DOMAIN fs : Begins(fs[i].scope, sc)

Settled(nm, c, fs, sc, a) ==
  Discipline(fs, a) /\ Apart(c, fs) /\ Known(nm, c, fs, sc) /\ Chain(fs, sc)

Scene(nm, c, fs, sc) ==
  /\ nm \in Seq(Seq(Nat)) /\ c \in 0 .. Len(nm) /\ fs \in Seq(Frames) /\ sc \in Seq(Nat)
  /\ \A i \in DOMAIN fs : FrameOK(Len(nm), fs[i])
  /\ \A i \in DOMAIN fs : c \notin Pending(fs[i])
  /\ \A i, j \in DOMAIN fs : i # j => Pending(fs[i]) \cap Pending(fs[j]) = {}

LEMMA BeginsItself ==
  ASSUME NEW s \in Seq(Nat)
  PROVE  Begins(s, s)
BY DEF Begins

LEMMA BeginsTrans ==
  ASSUME NEW s \in Seq(Nat), NEW t \in Seq(Nat), NEW u \in Seq(Nat), Begins(s, t), Begins(t, u)
  PROVE  Begins(s, u)
BY DEF Begins

LEMMA BeginsAppend ==
  ASSUME NEW s \in Seq(Nat), NEW x \in Nat
  PROVE  Begins(s, Append(s, x))
BY DEF Begins

\* What the calls refer to are blocks.
LEMMA RefsDomain ==
  ASSUME NEW n \in Nat, NEW f, FrameOK(n, f)
  PROVE  /\ Fixed(f) \subseteq 1 .. n /\ Own(f) \subseteq 1 .. n
         /\ f.k \in {"do", "docond"} => /\ Blocks(f.brk) \subseteq 1 .. n
                                        /\ Blocks(f.cont) \subseteq 1 .. n
<1>1. Own(f) \subseteq 1 .. n
  BY DEF Own, FrameOK
<1>2. f.k \in {"do", "docond"} => /\ Blocks(f.brk) \subseteq 1 .. n
                                  /\ Blocks(f.cont) \subseteq 1 .. n
  <2>1. \A s \in Seq(1 .. n) : Blocks(s) \subseteq 1 .. n
    BY DEF Blocks
  <2> QED
    BY <2>1 DEF FrameOK
<1>3. Fixed(f) \subseteq 1 .. n
  BY DEF Fixed, FrameOK
<1> QED
  BY <1>1, <1>2, <1>3

\* New blocks and a longer scope above leave what a call knows.
LEMMA KnowsGrows ==
  ASSUME NEW nm \in Seq(Seq(Nat)), NEW nm2 \in Seq(Seq(Nat)), Len(nm) <= Len(nm2),
         \A b \in DOMAIN nm : nm2[b] = nm[b],
         NEW f \in Frames, FrameOK(Len(nm), f),
         NEW up \in Seq(Nat), NEW up2 \in Seq(Nat), Begins(up, up2), Knows(nm, f, up)
  PROVE  Knows(nm2, f, up2)
<1> DEFINE n == Len(nm)
<1>1. n \in Nat /\ DOMAIN nm = 1 .. n /\ f.scope \in Seq(Nat)
      /\ \A b \in 1 .. n : nm2[b] = nm[b] /\ nm[b] \in Seq(Nat)
  <2>1. f.scope \in Seq(Nat)
    BY DEF Frames
  <2> QED
    BY <2>1
<1>2. FrameOK(n, f)
  OBVIOUS
<1> HIDE DEF n
<1>3. /\ Fixed(f) \subseteq 1 .. n /\ Own(f) \subseteq 1 .. n
      /\ f.k \in {"do", "docond"} => /\ Blocks(f.brk) \subseteq 1 .. n
                                     /\ Blocks(f.cont) \subseteq 1 .. n
  BY <1>1, <1>2, RefsDomain
<1>4. Begins(f.scope, up2)
  BY <1>1, BeginsTrans DEF Knows
<1>5. f.k \in {"block", "then", "else", "wbody", "do", "docond"} =>
        \A b \in Fixed(f) : nm2[b] = f.scope
  BY <1>1, <1>3 DEF Knows
<1>6. f.k = "while" => nm2[f.oth] = f.scope
  BY <1>1, <1>2 DEF Knows, FrameOK
<1>7. f.k = "else" /\ f.oth # NoBlock => Begins(f.scope, nm2[f.oth])
  <2>1. f.k = "else" /\ f.oth # NoBlock => f.oth \in 1 .. n
    BY <1>1, <1>2 DEF FrameOK, NoBlock
  <2> QED
    BY <1>1, <2>1 DEF Knows
<1>8. f.k \in {"do", "docond"} =>
        /\ Begins(f.scope, nm2[f.oth])
        /\ \A b \in Blocks(f.brk) : Begins(f.scope, nm2[b])
  <2>1. f.k \in {"do", "docond"} => f.oth \in 1 .. n
    BY <1>2 DEF FrameOK
  <2> QED
    BY <1>1, <1>3, <2>1 DEF Knows
<1>9. f.k = "do" =>
       /\ Begins(f.scope, nm2[f.ctx]) /\ Begins(nm2[f.ctx], up2)
       /\ \A b \in Blocks(f.cont) : Begins(nm2[f.ctx], nm2[b])
       /\ ~f.done => /\ Begins(f.scope, nm2[f.prev]) /\ Begins(nm2[f.prev], up2)
                     /\ \A b \in Blocks(f.cont) : Begins(nm2[f.prev], nm2[b])
  <2> SUFFICES ASSUME f.k = "do"
               PROVE  /\ Begins(f.scope, nm2[f.ctx]) /\ Begins(nm2[f.ctx], up2)
                      /\ \A b \in Blocks(f.cont) : Begins(nm2[f.ctx], nm2[b])
                      /\ ~f.done => /\ Begins(f.scope, nm2[f.prev]) /\ Begins(nm2[f.prev], up2)
                                    /\ \A b \in Blocks(f.cont) : Begins(nm2[f.prev], nm2[b])
    OBVIOUS
  <2>1. f.ctx \in 1 .. n /\ f.prev \in 1 .. n /\ Blocks(f.cont) \subseteq 1 .. n
    BY <1>2, <1>3 DEF FrameOK
  <2>2. nm2[f.ctx] = nm[f.ctx] /\ nm2[f.prev] = nm[f.prev]
        /\ nm[f.ctx] \in Seq(Nat) /\ nm[f.prev] \in Seq(Nat)
        /\ \A b \in Blocks(f.cont) : nm2[b] = nm[b]
    BY <1>1, <2>1
  <2>3. /\ Begins(f.scope, nm[f.ctx]) /\ Begins(nm[f.ctx], up)
        /\ \A b \in Blocks(f.cont) : Begins(nm[f.ctx], nm[b])
        /\ ~f.done => /\ Begins(f.scope, nm[f.prev]) /\ Begins(nm[f.prev], up)
                      /\ \A b \in Blocks(f.cont) : Begins(nm[f.prev], nm[b])
    BY DEF Knows
  <2>4. Begins(nm[f.ctx], up2) /\ (~f.done => Begins(nm[f.prev], up2))
    BY <2>2, <2>3, BeginsTrans
  <2> QED
    BY <2>2, <2>3, <2>4
<1> QED
  BY <1>4, <1>5, <1>6, <1>7, <1>8, <1>9 DEF Knows

(***************************************************************************)
(* A step leaves the first k calls alone, replaces, adds or removes the one *)
(* above them, adds blocks and goes on in the same block, a new one or one  *)
(* the call above kept.  In an expression the list and the scope stay the   *)
(* same; a statement ends above calls that wait for statements.             *)
(***************************************************************************)
Move(nm, c, fs, sc, k, nm2, c2, fs2, sc2) ==
  /\ k \in Nat /\ k <= Len(fs) /\ Len(fs) <= k + 1
  /\ fs2 \in Seq(Frames) /\ k <= Len(fs2) /\ Len(fs2) <= k + 1
  /\ \A i \in 1 .. k : fs2[i] = fs[i]
  /\ nm2 \in Seq(Seq(Nat)) /\ Len(nm) <= Len(nm2) /\ \A b \in DOMAIN nm : nm2[b] = nm[b]
  /\ c2 \in 0 .. Len(nm2)
  /\ c2 = NoBlock \/ c2 = c \/ c2 \notin DOMAIN nm
       \/ (Len(fs) = k + 1 /\ c2 \in Pending(fs[k + 1]))
  /\ sc2 \in Seq(Nat) /\ Begins(Up(fs, sc, k), Up(fs2, sc2, k))
  /\ \/ \A i \in 1 .. k : fs[i].k \in Body
     \/ c # NoBlock /\ c2 # NoBlock /\ nm2[c2] = nm[c] /\ sc2 = sc
  /\ Len(fs2) = k + 1 =>
       LET g == fs2[k + 1]
       IN /\ FrameOK(Len(nm2), g)
          /\ \A b \in Pending(g) : \/ b = c /\ Len(fs) = k + 1 /\ fs[k + 1].k \in Forking
                                   \/ b \notin DOMAIN nm
                                   \/ Len(fs) = k + 1 /\ b \in Pending(fs[k + 1])
          /\ g.k \in Forking => c2 # c
          /\ c2 \notin Fixed(g)
          /\ g.k = "do" /\ c2 \in Own(g) => g.cont = <<>>
          /\ g.k \in {"then", "tfirst"} => g.ctx # g.oth
          /\ Knows(nm2, g, sc2)
          /\ g.k \notin Body => g.scope = sc2
          /\ g.k \in {"tfirst", "tsecond"} =>
               c2 # NoBlock /\ \A b \in Fixed(g) : nm2[b] = nm2[c2]
  /\ c2 # NoBlock => Begins(sc2, nm2[c2])
  /\ c2 # NoBlock /\ (\A i \in DOMAIN fs2 : fs2[i].k # "docond") => nm2[c2] = sc2

LEMMA MoveIndex ==
  ASSUME NEW nm, NEW c, NEW fs, NEW sc, NEW k, NEW nm2, NEW c2, NEW fs2, NEW sc2,
         Scene(nm, c, fs, sc), Move(nm, c, fs, sc, k, nm2, c2, fs2, sc2)
  PROVE  /\ DOMAIN nm = 1 .. Len(nm) /\ Len(nm) \in Nat
         /\ \A i \in 1 .. k : fs2[i] = fs[i] /\ i \in DOMAIN fs /\ i \in DOMAIN fs2
         /\ \A i \in DOMAIN fs2 : i \in 1 .. k \/ (Len(fs2) = k + 1 /\ i = k + 1)
         /\ Len(fs) = k + 1 => k + 1 \in DOMAIN fs /\ \A i \in 1 .. k : i < k + 1
         /\ \A i, j \in DOMAIN fs2 : i < j => i \in 1 .. k
         /\ \A i \in 1 .. k : i # k => i # Len(fs) /\ i # Len(fs2) /\ i + 1 \in 1 .. k
         /\ \A i \in 1 .. k : (i # Len(fs) => i + 1 \in DOMAIN fs)
                            /\ (i # Len(fs2) => i + 1 \in DOMAIN fs2)
<1> DEFINE m == Len(fs)
           m2 == Len(fs2)
<1>1. k \in Nat /\ k <= m /\ m <= k + 1 /\ m \in Nat
      /\ k <= m2 /\ m2 <= k + 1 /\ m2 \in Nat
      /\ DOMAIN fs = 1 .. m /\ DOMAIN fs2 = 1 .. m2
      /\ \A i \in 1 .. k : fs2[i] = fs[i]
  BY DEF Move, Scene
<1>2. DOMAIN nm = 1 .. Len(nm) /\ Len(nm) \in Nat
  BY DEF Scene
<1> HIDE DEF m, m2
<1>3. \A i \in 1 .. k : i \in 1 .. m /\ i \in 1 .. m2
  BY <1>1
<1>4. \A i \in 1 .. m2 : i \in 1 .. k \/ (m2 = k + 1 /\ i = k + 1)
  BY <1>1
<1>5. m = k + 1 => k + 1 \in 1 .. m /\ \A i \in 1 .. k : i < k + 1
  BY <1>1
<1>6. \A i, j \in 1 .. m2 : i < j => i \in 1 .. k
  BY <1>1
<1>7. \A i \in 1 .. k : i # k => i # m /\ i # m2 /\ i + 1 \in 1 .. k
  BY <1>1
<1>8. \A i \in 1 .. k : (i # m => i + 1 \in 1 .. m) /\ (i # m2 => i + 1 \in 1 .. m2)
  BY <1>1
<1> QED
  BY <1>1, <1>2, <1>3, <1>4, <1>5, <1>6, <1>7, <1>8, Zenon DEF m, m2

LEMMA MoveApart ==
  ASSUME NEW nm, NEW c, NEW fs, NEW sc, NEW k, NEW nm2, NEW c2, NEW fs2, NEW sc2,
         Scene(nm, c, fs, sc), Apart(c, fs), Move(nm, c, fs, sc, k, nm2, c2, fs2, sc2)
  PROVE  Apart(c2, fs2)
<1>1. /\ DOMAIN nm = 1 .. Len(nm) /\ Len(nm) \in Nat
      /\ \A i \in 1 .. k : fs2[i] = fs[i] /\ i \in DOMAIN fs /\ i \in DOMAIN fs2
      /\ \A i \in DOMAIN fs2 : i \in 1 .. k \/ (Len(fs2) = k + 1 /\ i = k + 1)
      /\ Len(fs) = k + 1 => k + 1 \in DOMAIN fs /\ \A i \in 1 .. k : i < k + 1
      /\ \A i, j \in DOMAIN fs2 : i < j => i \in 1 .. k
      /\ \A i \in 1 .. k : i # k => i # Len(fs) /\ i # Len(fs2) /\ i + 1 \in 1 .. k
  BY MoveIndex
<1>2. \A i \in DOMAIN fs : Fixed(fs[i]) \subseteq DOMAIN nm /\ Own(fs[i]) \subseteq DOMAIN nm
  BY <1>1, RefsDomain DEF Scene
<1>3. ASSUME NEW i \in 1 .. k, NEW x \in Fixed(fs[i]) \cup Own(fs[i]), x = c2
      PROVE  x = c
  <2>1. x \in DOMAIN nm /\ x # NoBlock
    BY <1>1, <1>2 DEF NoBlock
  <2>2. ASSUME Len(fs) = k + 1, c2 \in Pending(fs[k + 1])
        PROVE  FALSE
    <3>1. k + 1 \in DOMAIN fs /\ i < k + 1
      BY <1>1, <2>2
    <3> QED
      BY <1>1, <1>3, <2>2, <3>1 DEF Apart
  <2> QED
    BY <1>3, <2>1, <2>2 DEF Move
<1>4. \A i \in DOMAIN fs2 : c2 \notin Fixed(fs2[i])
  <2>1. \A i \in 1 .. k : c2 \notin Fixed(fs2[i])
    BY <1>1, <1>3 DEF Apart
  <2>2. Len(fs2) = k + 1 => c2 \notin Fixed(fs2[k + 1])
    BY DEF Move
  <2> QED
    BY <1>1, <2>1, <2>2
<1>5. ASSUME NEW i \in DOMAIN fs2, NEW j \in DOMAIN fs2, i < j
      PROVE  Pending(fs2[j]) \cap (Fixed(fs2[i]) \cup Own(fs2[i])) = {}
  <2>1. CASE j \in 1 .. k
    BY <1>1, <1>5, <2>1 DEF Apart
  <2>2. CASE j = k + 1 /\ Len(fs2) = k + 1
    <3>1. i \in 1 .. k /\ Len(fs2) = k + 1
      BY <1>1, <1>5, <2>2
    <3>2. ASSUME NEW b \in Pending(fs2[j]), b \in Fixed(fs[i]) \cup Own(fs[i])
          PROVE  FALSE
      <4>1. b \in DOMAIN nm
        BY <1>1, <1>2, <3>1, <3>2
      <4>2. CASE b = c /\ Len(fs) = k + 1 /\ fs[k + 1].k \in Forking
        <5>1. k + 1 \in DOMAIN fs /\ i < k + 1
          BY <1>1, <3>1, <4>2
        <5> QED
          BY <1>1, <3>1, <3>2, <4>2, <5>1 DEF Apart
      <4>3. CASE Len(fs) = k + 1 /\ b \in Pending(fs[k + 1])
        <5>1. k + 1 \in DOMAIN fs /\ i < k + 1
          BY <1>1, <3>1, <4>3
        <5> QED
          BY <1>1, <3>1, <3>2, <4>3, <5>1 DEF Apart
      <4> QED
        BY <2>2, <3>1, <3>2, <4>1, <4>2, <4>3 DEF Move
    <3> QED
      BY <1>1, <3>1, <3>2
  <2> QED
    BY <1>1, <2>1, <2>2
<1>6. ASSUME NEW i \in DOMAIN fs2, NEW j \in DOMAIN fs2, i < j, fs2[j].k \in Forking
      PROVE  c2 \notin Own(fs2[i])
  <2>1. i \in 1 .. k
    BY <1>1, <1>6
  <2>2. SUFFICES ASSUME c2 \in Own(fs[i])
                 PROVE  FALSE
    BY <1>1, <2>1
  <2>3. c2 = c
    BY <1>3, <2>1, <2>2
  <2>4. CASE j \in 1 .. k
    BY <1>1, <1>6, <2>1, <2>2, <2>3, <2>4 DEF Apart
  <2>5. CASE j = k + 1 /\ Len(fs2) = k + 1
    BY <1>6, <2>3, <2>5 DEF Move
  <2> QED
    BY <1>1, <2>4, <2>5
<1>7. ASSUME NEW i \in DOMAIN fs2, fs2[i].k = "do", c2 \in Own(fs2[i])
      PROVE  fs2[i].cont = <<>>
  <2>1. CASE i \in 1 .. k
    <3>1. c2 = c /\ fs2[i] = fs[i] /\ i \in DOMAIN fs
      BY <1>1, <1>3, <1>7, <2>1
    <3> QED
      BY <1>7, <3>1 DEF Apart
  <2>2. CASE i = k + 1 /\ Len(fs2) = k + 1
    BY <1>7, <2>2 DEF Move
  <2> QED
    BY <1>1, <2>1, <2>2
<1>8. ASSUME NEW i \in DOMAIN fs2, fs2[i].k \in {"then", "tfirst"}
      PROVE  fs2[i].ctx # fs2[i].oth
  <2>1. CASE i \in 1 .. k
    BY <1>1, <1>8, <2>1 DEF Apart
  <2>2. CASE i = k + 1 /\ Len(fs2) = k + 1
    BY <1>8, <2>2 DEF Move
  <2> QED
    BY <1>1, <2>1, <2>2
<1> QED
  BY <1>4, <1>5, <1>6, <1>7, <1>8 DEF Apart

LEMMA MoveKnown ==
  ASSUME NEW nm, NEW c, NEW fs, NEW sc, NEW k, NEW nm2, NEW c2, NEW fs2, NEW sc2,
         Scene(nm, c, fs, sc), Known(nm, c, fs, sc), Move(nm, c, fs, sc, k, nm2, c2, fs2, sc2)
  PROVE  Known(nm2, c2, fs2, sc2)
<1>1. /\ DOMAIN nm = 1 .. Len(nm) /\ Len(nm) \in Nat
      /\ \A i \in 1 .. k : fs2[i] = fs[i] /\ i \in DOMAIN fs /\ i \in DOMAIN fs2
      /\ \A i \in DOMAIN fs2 : i \in 1 .. k \/ (Len(fs2) = k + 1 /\ i = k + 1)
      /\ Len(fs) = k + 1 => k + 1 \in DOMAIN fs /\ \A i \in 1 .. k : i < k + 1
      /\ \A i, j \in DOMAIN fs2 : i < j => i \in 1 .. k
      /\ \A i \in 1 .. k : i # k => i # Len(fs) /\ i # Len(fs2) /\ i + 1 \in 1 .. k
  BY MoveIndex
<1>1a. \A i \in 1 .. k : (i # Len(fs) => i + 1 \in DOMAIN fs)
                        /\ (i # Len(fs2) => i + 1 \in DOMAIN fs2)
  BY MoveIndex
<1>2. /\ nm \in Seq(Seq(Nat)) /\ nm2 \in Seq(Seq(Nat)) /\ Len(nm) <= Len(nm2)
      /\ \A b \in DOMAIN nm : nm2[b] = nm[b]
      /\ fs \in Seq(Frames) /\ fs2 \in Seq(Frames) /\ sc \in Seq(Nat) /\ sc2 \in Seq(Nat)
      /\ \A i \in DOMAIN fs : FrameOK(Len(nm), fs[i])
  BY DEF Move, Scene
<1>3. \A i \in DOMAIN fs : fs[i] \in Frames /\ fs[i].scope \in Seq(Nat)
  <2>1. \A i \in DOMAIN fs : fs[i] \in Frames
    BY <1>2
  <2> QED
    BY <2>1 DEF Frames
<1>4. \A i \in DOMAIN fs2 : fs2[i] \in Frames /\ fs2[i].scope \in Seq(Nat)
  <2>1. \A i \in DOMAIN fs2 : fs2[i] \in Frames
    BY <1>2
  <2> QED
    BY <2>1 DEF Frames
<1>5. \A i \in 1 .. k : Up(fs, sc, i) \in Seq(Nat) /\ Up(fs2, sc2, i) \in Seq(Nat)
  <2>1. ASSUME NEW i \in 1 .. k
        PROVE  Up(fs, sc, i) \in Seq(Nat)
    <3>1. i # Len(fs) => fs[i + 1].scope \in Seq(Nat)
      BY <1>1a, <1>3
    <3> QED
      BY <1>2, <3>1 DEF Up
  <2>2. ASSUME NEW i \in 1 .. k
        PROVE  Up(fs2, sc2, i) \in Seq(Nat)
    <3>1. i # Len(fs2) => fs2[i + 1].scope \in Seq(Nat)
      BY <1>1a, <1>4
    <3> QED
      BY <1>2, <3>1 DEF Up
  <2> QED
    BY <2>1, <2>2
<1>6. \A i \in 1 .. k : Begins(Up(fs, sc, i), Up(fs2, sc2, i))
  <2>1. ASSUME NEW i \in 1 .. k, i # k
        PROVE  Begins(Up(fs, sc, i), Up(fs2, sc2, i))
    <3>1. i # Len(fs) /\ i # Len(fs2) /\ i + 1 \in 1 .. k
      BY <1>1, <2>1
    <3>2. Up(fs, sc, i) = Up(fs2, sc2, i)
      BY <1>1, <3>1 DEF Up
    <3> QED
      BY <1>5, <3>2, BeginsItself
  <2>2. k \in 1 .. k => Begins(Up(fs, sc, k), Up(fs2, sc2, k))
    BY DEF Move
  <2> QED
    BY <2>1, <2>2
<1>7. \A i \in DOMAIN fs2 : Knows(nm2, fs2[i], Up(fs2, sc2, i))
  <2>1. ASSUME NEW i \in 1 .. k
        PROVE  Knows(nm2, fs2[i], Up(fs2, sc2, i))
    <3>1. Knows(nm, fs[i], Up(fs, sc, i)) /\ fs2[i] = fs[i] /\ fs[i] \in Frames
          /\ FrameOK(Len(nm), fs[i])
      BY <1>1, <1>2, <1>3 DEF Known
    <3>2. Knows(nm2, fs[i], Up(fs2, sc2, i))
      BY <1>2, <1>5, <1>6, <3>1, KnowsGrows
    <3> QED
      BY <3>1, <3>2
  <2>2. Len(fs2) = k + 1 => Knows(nm2, fs2[k + 1], Up(fs2, sc2, k + 1))
    BY DEF Move, Up
  <2> QED
    BY <1>1, <2>1, <2>2
<1>8. (\A i \in 1 .. k : fs[i].k \in Body)
        \/ (c # NoBlock /\ c2 # NoBlock /\ nm2[c2] = nm[c] /\ sc2 = sc)
  BY DEF Move
<1>9. \A i \in DOMAIN fs2 : fs2[i].k \notin Body => fs2[i].scope = sc2
  <2>1. \A i \in 1 .. k : fs2[i].k \notin Body => fs2[i].scope = sc2
    BY <1>1, <1>8 DEF Known
  <2>2. Len(fs2) = k + 1 => (fs2[k + 1].k \notin Body => fs2[k + 1].scope = sc2)
    BY DEF Move
  <2> QED
    BY <1>1, <2>1, <2>2
<1>10. \A i \in DOMAIN fs2 : fs2[i].k \in {"tfirst", "tsecond"} =>
         c2 # NoBlock /\ \A b \in Fixed(fs2[i]) : nm2[b] = nm2[c2]
  <2>1. ASSUME NEW i \in 1 .. k, fs2[i].k \in {"tfirst", "tsecond"}
        PROVE  c2 # NoBlock /\ \A b \in Fixed(fs2[i]) : nm2[b] = nm2[c2]
    <3>1. fs[i].k \notin Body /\ fs2[i] = fs[i] /\ i \in DOMAIN fs
      BY <1>1, <2>1 DEF Body
    <3>2. c2 # NoBlock /\ nm2[c2] = nm[c]
      BY <1>8, <3>1
    <3>3. \A b \in Fixed(fs[i]) : nm[b] = nm[c]
      BY <2>1, <3>1 DEF Known
    <3>4. Fixed(fs[i]) \subseteq DOMAIN nm
      BY <1>1, <1>2, <3>1, RefsDomain
    <3> QED
      BY <1>2, <3>1, <3>2, <3>3, <3>4
  <2>2. Len(fs2) = k + 1 => (fs2[k + 1].k \in {"tfirst", "tsecond"} =>
          c2 # NoBlock /\ \A b \in Fixed(fs2[k + 1]) : nm2[b] = nm2[c2])
    BY DEF Move
  <2> QED
    BY <1>1, <2>1, <2>2
<1>11. /\ c2 # NoBlock => Begins(sc2, nm2[c2])
       /\ c2 # NoBlock /\ (\A i \in DOMAIN fs2 : fs2[i].k # "docond") => nm2[c2] = sc2
  BY DEF Move
<1> QED
  BY <1>7, <1>9, <1>10, <1>11 DEF Known

LEMMA Disciplined ==
  ASSUME NEW fs \in Seq(Frames), NEW a, Discipline(fs, a)
  PROVE  /\ a \in Between => \A i \in DOMAIN fs : fs[i].k \in Body
         /\ fs # <<>> /\ fs[Len(fs)].k \notin Expr => \A i \in 1 .. Len(fs) - 1 : fs[i].k \in Body
         /\ fs # <<>> /\ fs[Len(fs)].k \in Expr => Len(fs) > 1 /\ fs[Len(fs) - 1].k \notin Body
<1>1. Len(fs) \in Nat /\ DOMAIN fs = 1 .. Len(fs) /\ (fs = <<>> <=> Len(fs) = 0)
  OBVIOUS
<1>2. ASSUME fs # <<>>, fs[Len(fs)].k \notin Expr
      PROVE  \A i \in 1 .. Len(fs) - 1 : fs[i].k \in Body
  <2>1. \A i \in 1 .. Len(fs) - 1 : i \in DOMAIN fs /\ Len(fs) \in DOMAIN fs /\ i < Len(fs)
    BY <1>1
  <2> QED
    BY <1>2, <2>1 DEF Discipline
<1>3. ASSUME a \in Between
      PROVE  \A i \in DOMAIN fs : fs[i].k \in Body
  <2>1. CASE fs = <<>>
    BY <1>1, <2>1
  <2>2. CASE fs # <<>>
    <3>1. fs[Len(fs)].k \in Body
      BY <1>3, <2>2 DEF Discipline
    <3>2. fs[Len(fs)].k \notin Expr
      BY <3>1 DEF Body, Expr
    <3>3. \A i \in DOMAIN fs : i \in 1 .. Len(fs) - 1 \/ i = Len(fs)
      BY <1>1
    <3> QED
      BY <1>2, <2>2, <3>1, <3>2, <3>3
  <2> QED
    BY <2>1, <2>2
<1>4. ASSUME fs # <<>>, fs[Len(fs)].k \in Expr
      PROVE  Len(fs) > 1 /\ fs[Len(fs) - 1].k \notin Body
  <2>1. Len(fs) \in DOMAIN fs
    BY <1>1, <1>4
  <2> QED
    BY <1>4, <2>1 DEF Discipline
<1> QED
  BY <1>2, <1>3, <1>4

LEMMA MoveDiscipline ==
  ASSUME NEW fs \in Seq(Frames), NEW a, Discipline(fs, a),
         NEW k \in Nat, k <= Len(fs), Len(fs) <= k + 1,
         NEW fs2 \in Seq(Frames), k <= Len(fs2), Len(fs2) <= k + 1,
         \A i \in 1 .. k : fs2[i] = fs[i],
         NEW a2,
         Len(fs2) = k => (a2 \in Between <=> k = 0 \/ fs[k].k \in Body),
         Len(fs2) = k + 1 =>
           /\ fs2[k + 1].k \in Expr => k > 0 /\ fs[k].k \notin Body
           /\ fs2[k + 1].k \notin Expr => \A i \in 1 .. k : fs[i].k \in Body
           /\ a2 \in Between <=> fs2[k + 1].k \in Body
  PROVE  Discipline(fs2, a2)
<1> DEFINE m == Len(fs)
           m2 == Len(fs2)
<1>1. /\ m \in Nat /\ m2 \in Nat /\ DOMAIN fs = 1 .. m /\ DOMAIN fs2 = 1 .. m2
      /\ fs2 = <<>> <=> m2 = 0
      /\ k <= m /\ m <= k + 1 /\ k <= m2 /\ m2 <= k + 1
  OBVIOUS
<1>2. (m2 = k => (a2 \in Between <=> k = 0 \/ fs[k].k \in Body))
      /\ (m2 = k + 1 =>
           /\ fs2[k + 1].k \in Expr => k > 0 /\ fs[k].k \notin Body
           /\ fs2[k + 1].k \notin Expr => \A i \in 1 .. k : fs[i].k \in Body
           /\ a2 \in Between <=> fs2[k + 1].k \in Body)
  OBVIOUS
<1> HIDE DEF m, m2
<1>3. \A i \in 1 .. m2 : i \in 1 .. k \/ (m2 = k + 1 /\ i = k + 1)
  BY <1>1
<1>4. \A i, j \in 1 .. m2 : i < j => i \in 1 .. k
  BY <1>1
<1>5. \A i \in 1 .. k : i \in 1 .. m /\ fs2[i] = fs[i] /\ (i > 1 => i - 1 \in 1 .. k)
  BY <1>1
<1>6. ASSUME NEW i \in 1 .. m2, NEW j \in 1 .. m2, i < j, fs2[i].k \notin Body
      PROVE  fs2[j].k \in Expr
  <2>1. i \in 1 .. k
    BY <1>4, <1>6
  <2>2. CASE j \in 1 .. k
    BY <1>1, <1>5, <1>6, <2>1, <2>2 DEF Discipline
  <2>3. CASE m2 = k + 1 /\ j = k + 1
    BY <1>2, <1>5, <1>6, <2>1, <2>3
  <2> QED
    BY <1>3, <2>2, <2>3
<1>7. ASSUME NEW i \in 1 .. m2, fs2[i].k \in Expr
      PROVE  i > 1 /\ fs2[i - 1].k \notin Body
  <2>1. CASE i \in 1 .. k
    <3>1. i > 1 /\ fs[i - 1].k \notin Body
      BY <1>1, <1>5, <1>7, <2>1 DEF Discipline
    <3> QED
      BY <1>5, <2>1, <3>1
  <2>2. CASE m2 = k + 1 /\ i = k + 1
    <3>1. k > 0 /\ fs[k].k \notin Body
      BY <1>2, <1>7, <2>2
    <3>2. k \in 1 .. k /\ i > 1 /\ i - 1 = k
      BY <2>2, <3>1
    <3> QED
      BY <1>5, <3>1, <3>2
  <2> QED
    BY <1>3, <2>1, <2>2
<1>8. a2 \in Between <=> fs2 = <<>> \/ fs2[m2].k \in Body
  <2>1. CASE m2 = k
    <3>1. k # 0 => fs2[k] = fs[k]
      BY <1>5
    <3> QED
      BY <1>1, <1>2, <2>1, <3>1
  <2>2. CASE m2 = k + 1
    BY <1>1, <1>2, <2>2
  <2> QED
    BY <1>1, <2>1, <2>2
<1> QED
  BY <1>1, <1>6, <1>7, <1>8, Zenon DEF Discipline, m2

LEMMA ApartIs ==
  ASSUME NEW c, NEW fs, NEW m, DOMAIN fs = 1 .. m,
         \A i \in 1 .. m : c \notin Fixed(fs[i]),
         \A i, j \in 1 .. m : i < j => Pending(fs[j]) \cap (Fixed(fs[i]) \cup Own(fs[i])) = {},
         \A i, j \in 1 .. m : i < j /\ fs[j].k \in Forking => c \notin Own(fs[i]),
         \A i \in 1 .. m : fs[i].k = "do" /\ c \in Own(fs[i]) => fs[i].cont = <<>>,
         \A i \in 1 .. m : fs[i].k \in {"then", "tfirst"} => fs[i].ctx # fs[i].oth
  PROVE  Apart(c, fs)
BY DEF Apart

LEMMA ChainIs ==
  ASSUME NEW fs, NEW fs2, NEW sc, NEW m, DOMAIN fs2 = 1 .. m,
         \A i \in 1 .. m : fs2[i].scope = fs[i].scope,
         \A i, j \in 1 .. m : i < j => Begins(fs[i].scope, fs[j].scope),
         \A i \in 1 .. m : Begins(fs[i].scope, sc)
  PROVE  Chain(fs2, sc)
BY DEF Chain

LEMMA MoveChain ==
  ASSUME NEW nm, NEW c, NEW fs, NEW sc, NEW k, NEW nm2, NEW c2, NEW fs2, NEW sc2,
         Scene(nm, c, fs, sc), Chain(fs, sc), Move(nm, c, fs, sc, k, nm2, c2, fs2, sc2)
  PROVE  Chain(fs2, sc2)
<1>1. /\ \A i \in 1 .. k : fs2[i] = fs[i] /\ i \in DOMAIN fs /\ i \in DOMAIN fs2
      /\ \A i \in DOMAIN fs2 : i \in 1 .. k \/ (Len(fs2) = k + 1 /\ i = k + 1)
      /\ Len(fs) = k + 1 => k + 1 \in DOMAIN fs /\ \A i \in 1 .. k : i < k + 1
      /\ \A i, j \in DOMAIN fs2 : i < j => i \in 1 .. k
  BY MoveIndex
<1>2. /\ fs \in Seq(Frames) /\ fs2 \in Seq(Frames) /\ sc \in Seq(Nat) /\ sc2 \in Seq(Nat)
      /\ Len(fs) = k \/ Len(fs) = k + 1
      /\ Len(fs2) = k \/ Len(fs2) = k + 1
      /\ k \in Nat
  BY DEF Move, Scene
<1>3. \A i \in DOMAIN fs : fs[i] \in Frames
  BY <1>2
<1>4. \A i \in DOMAIN fs2 : fs2[i] \in Frames
  BY <1>2
<1>5. (\A i \in DOMAIN fs : fs[i].scope \in Seq(Nat)) /\ (\A i \in DOMAIN fs2 : fs2[i].scope \in Seq(Nat))
  BY <1>3, <1>4 DEF Frames
<1> DEFINE u == Up(fs, sc, k)
           u2 == Up(fs2, sc2, k)
<1>6. u = IF Len(fs) = k THEN sc ELSE fs[k + 1].scope
  BY DEF Up
<1>7. u2 = IF Len(fs2) = k THEN sc2 ELSE fs2[k + 1].scope
  BY DEF Up
<1>8. Begins(u, u2)
  BY DEF Move
<1> HIDE DEF u, u2
<1>9. Len(fs2) = k + 1 => k + 1 \in DOMAIN fs2 /\ k + 1 # k
  BY <1>2
<1>10. Len(fs) = k + 1 => k + 1 # k
  BY <1>2
<1>11. u \in Seq(Nat) /\ u2 \in Seq(Nat)
  BY <1>1, <1>2, <1>5, <1>6, <1>7, <1>9, <1>10
<1>12. Begins(u2, sc2)
  <2>1. CASE Len(fs2) = k
    BY <1>2, <1>7, <2>1, BeginsItself
  <2>2. CASE Len(fs2) = k + 1
    <3>1. Knows(nm2, fs2[k + 1], sc2)
      BY <2>2 DEF Move
    <3> QED
      BY <1>7, <1>9, <2>2, <3>1 DEF Knows
  <2> QED
    BY <1>2, <2>1, <2>2
<1>13. \A i \in 1 .. k : Begins(fs[i].scope, u)
  BY <1>1, <1>2, <1>6, <1>10 DEF Chain
<1>14. \A i \in 1 .. k : Begins(fs[i].scope, u2) /\ Begins(fs[i].scope, sc2)
  <2>1. ASSUME NEW i \in 1 .. k
        PROVE  Begins(fs[i].scope, u2) /\ Begins(fs[i].scope, sc2)
    <3>1. fs[i].scope \in Seq(Nat) /\ Begins(fs[i].scope, u)
      BY <1>1, <1>5, <1>13
    <3>2. Begins(fs[i].scope, u2)
      BY <1>8, <1>11, <3>1, BeginsTrans
    <3> QED
      BY <1>2, <1>11, <1>12, <3>1, <3>2, BeginsTrans
  <2> QED
    BY <2>1
<1>15. \A i \in DOMAIN fs2 : Begins(fs2[i].scope, sc2)
  <2>1. Len(fs2) = k + 1 => Begins(fs2[k + 1].scope, sc2)
    BY <1>7, <1>9, <1>12
  <2> QED
    BY <1>1, <1>14, <2>1
<1>16. ASSUME NEW i \in DOMAIN fs2, NEW j \in DOMAIN fs2, i < j
       PROVE  Begins(fs2[i].scope, fs2[j].scope)
  <2>1. i \in 1 .. k
    BY <1>1, <1>16
  <2>2. CASE j \in 1 .. k
    BY <1>1, <1>16, <2>1, <2>2 DEF Chain
  <2>3. CASE Len(fs2) = k + 1 /\ j = k + 1
    BY <1>1, <1>7, <1>9, <1>14, <2>1, <2>3
  <2> QED
    BY <1>1, <2>2, <2>3
<1> QED
  BY <1>15, <1>16 DEF Chain

\* What loop_trigger writes down.
LEMMA TriggerScopes ==
  ASSUME NEW nm \in Seq(Seq(Nat)), NEW c \in 1 .. Len(nm), NEW fs \in Seq(Frames),
         NEW sc \in Seq(Nat), fs # <<>>, fs[Len(fs)].k = "do", FrameOK(Len(nm), fs[Len(fs)]),
         Settled(nm, c, fs, sc, "stmt"),
         NEW fs2, fs2 = [fs EXCEPT ![Len(fs)] = LoopTrigger(fs[Len(fs)], c)]
  PROVE  Settled(nm, c, fs2, sc, "stmt")
<1> DEFINE m == Len(fs)
           f == fs[m]
           g == LoopTrigger(f, c)
<1>1. m \in Nat /\ DOMAIN fs = 1 .. m /\ m \in DOMAIN fs /\ f \in Frames
  OBVIOUS
<1>2. g \in Frames /\ FrameOK(Len(nm), g) /\ g.k = "do" /\ \A b : b \in Pending(g) <=> b \in Pending(f)
  <2>1. FrameOK(Len(nm), f) /\ f.k = "do" /\ f \in Frames /\ Len(nm) \in Nat
    BY <1>1
  <2> HIDE DEF f
  <2> QED
    BY <2>1, TriggerFrame
<1>3. fs2 \in Seq(Frames) /\ Len(fs2) = m /\ DOMAIN fs2 = 1 .. m /\ fs2[m] = g
      /\ \A i \in 1 .. m : i # m => fs2[i] = fs[i]
  <2>1. fs2 = [fs EXCEPT ![m] = g] /\ g \in Frames
    BY <1>2
  <2> HIDE DEF g, m
  <2>2. fs2 \in Seq(Frames) /\ Len(fs2) = Len(fs)
    BY <2>1, ExceptAnywhere
  <2>3. m = Len(fs) /\ DOMAIN fs2 = 1 .. Len(fs2)
    BY <2>2 DEF m
  <2> QED
    BY <1>1, <2>1, <2>2, <2>3, Zenon
<1>4. /\ g.scope = f.scope /\ g.par = f.par /\ g.oth = f.oth /\ g.brk = f.brk /\ g.cont = f.cont
      /\ \/ g.ctx = f.ctx /\ g.prev = f.prev /\ g.done = f.done
         \/ ~f.done /\ f.cont = <<>> /\ g.ctx = f.ctx /\ g.prev = c /\ g.done = f.done
         \/ ~f.done /\ g.ctx = f.prev /\ g.prev = f.prev /\ g.done
  BY <1>1, Zenon DEF LoopTrigger, Frames
<1>5. f.k = "do" /\ \A i \in DOMAIN fs : i < m => i # m
  BY <1>1
<1>6. \A i \in 1 .. m : fs2[i].k = fs[i].k /\ fs2[i].scope = fs[i].scope
        /\ Fixed(fs2[i]) = Fixed(fs[i]) /\ \A b : b \in Pending(fs2[i]) <=> b \in Pending(fs[i])
  <2>1. g.k = f.k /\ Fixed(g) = Fixed(f)
    BY <1>2, <1>4, <1>5 DEF Fixed
  <2> QED
    BY <1>2, <1>3, <1>4, <2>1, Zenon
<1>0. m = Len(fs)
  OBVIOUS
<1>0a. Discipline(fs, "stmt") /\ Apart(c, fs) /\ Known(nm, c, fs, sc) /\ Chain(fs, sc)
  BY DEF Settled
<1> HIDE DEF g, f, m
<1>7. Discipline(fs2, "stmt")
  <2>1. Discipline(fs, "stmt")
    BY <1>0a
  <2>2. \A i \in 1 .. m : i - 1 \in 1 .. m \/ i = 1
    BY <1>1
  <2>3. fs2 # <<>> /\ fs2[m].k = "do" /\ m \in 1 .. m
    BY <1>1, <1>2, <1>3
  <2>4. fs # <<>> /\ fs[m].k \in Body
    BY <1>1, <1>5, <1>6, <2>3 DEF Body
  <2>5. \A i, j \in 1 .. m : i < j /\ fs2[i].k \notin Body => fs2[j].k \in Expr
    BY <1>1, <1>6, <2>1 DEF Discipline
  <2>6. \A i \in 1 .. m : fs2[i].k \in Expr => i > 1 /\ fs2[i - 1].k \notin Body
    <3>1. ASSUME NEW i \in 1 .. m, fs2[i].k \in Expr
          PROVE  i > 1 /\ fs2[i - 1].k \notin Body
      <4>1. i > 1 /\ fs[i - 1].k \notin Body
        BY <1>1, <1>6, <2>1, <3>1 DEF Discipline
      <4>2. i - 1 \in 1 .. m
        BY <2>2, <4>1
      <4> QED
        BY <1>6, <4>1, <4>2
    <3> QED
      BY <3>1
  <2>7. fs2[m].k \in Body
    BY <2>3 DEF Body
  <2> QED
    BY <1>3, <2>3, <2>5, <2>6, <2>7 DEF Discipline, Between
<1>8. Own(g) \subseteq Own(f) \cup {c} /\ (c \in Own(g) /\ c \notin Own(f) => f.cont = <<>>)
  BY <1>2, <1>4, <1>5 DEF Own
<1>9. Apart(c, fs2)
  <2>1. \A i, j \in 1 .. m : i < j => fs2[i] = fs[i]
    BY <1>1, <1>3
  <2>2. \A i \in 1 .. m : fs2[i].k = "do" /\ c \in Own(fs2[i]) => fs2[i].cont = <<>>
    <3>1. \A i \in 1 .. m : i # m => (fs2[i].k = "do" /\ c \in Own(fs2[i]) => fs2[i].cont = <<>>)
      BY <1>0a, <1>1, <1>3 DEF Apart
    <3>2. c \in Own(f) => f.cont = <<>>
      BY <1>0a, <1>1, <1>5 DEF Apart, f
    <3> QED
      BY <1>3, <1>4, <1>8, <3>1, <3>2
  <2>3. \A i \in 1 .. m : fs2[i].k \in {"then", "tfirst"} => fs2[i].ctx # fs2[i].oth
    <3>1. \A i \in 1 .. m : i # m => (fs2[i].k \in {"then", "tfirst"} => fs2[i].ctx # fs2[i].oth)
      BY <1>0a, <1>1, <1>3 DEF Apart
    <3> QED
      BY <1>2, <1>3, <3>1
  <2>4. \A i \in 1 .. m : c \notin Fixed(fs2[i])
    BY <1>0a, <1>1, <1>6 DEF Apart
  <2>5. \A i, j \in 1 .. m : i < j => Pending(fs2[j]) \cap (Fixed(fs2[i]) \cup Own(fs2[i])) = {}
    <3>1. \A i, j \in 1 .. m : i < j => Pending(fs[j]) \cap (Fixed(fs[i]) \cup Own(fs[i])) = {}
      BY <1>0a, <1>1 DEF Apart
    <3> QED
      BY <1>6, <2>1, <3>1
  <2>6. \A i, j \in 1 .. m : i < j /\ fs2[j].k \in Forking => c \notin Own(fs2[i])
    <3>1. \A i, j \in 1 .. m : i < j /\ fs[j].k \in Forking => c \notin Own(fs[i])
      BY <1>0a, <1>1 DEF Apart
    <3> QED
      BY <1>6, <2>1, <3>1
  <2>7. DOMAIN fs2 = 1 .. m
    BY <1>3
  <2> QED
    BY <2>2, <2>3, <2>4, <2>5, <2>6, <2>7, ApartIs, Zenon
<1>10. \A i \in 1 .. m : Up(fs2, sc, i) = Up(fs, sc, i)
  <2>1. \A i \in 1 .. m : i # m => i + 1 \in 1 .. m
    BY <1>1
  <2> QED
    BY <1>0, <1>3, <1>6, <2>1 DEF Up
<1>11. Up(fs, sc, m) = sc /\ nm[c] = sc /\ sc \in Seq(Nat)
  <2>1. \A i \in DOMAIN fs : fs[i].k \in Body
    BY <1>0a, Disciplined DEF Between
  <2>2. \A i \in DOMAIN fs : fs[i].k # "docond"
    BY <2>1 DEF Body
  <2>3. c # NoBlock
    BY DEF NoBlock
  <2> QED
    BY <1>0a, <1>0, <2>2, <2>3 DEF Known, Up
<1>12. Knows(nm, f, sc)
  BY <1>0a, <1>1, <1>11 DEF Known, f
<1>13. Knows(nm, g, sc)
  <2>1. Begins(f.scope, sc) /\ Begins(sc, sc)
    BY <1>11, <1>12, BeginsItself DEF Knows
  <2>2. Fixed(g) = Fixed(f)
    BY <1>2, <1>4, <1>5 DEF Fixed
  <2>3. f.cont = <<>> => Blocks(f.cont) = {}
    BY DEF Blocks
  <2> QED
    BY <1>2, <1>4, <1>5, <1>11, <1>12, <2>1, <2>2, <2>3 DEF Knows
<1>14. Known(nm, c, fs2, sc)
  <2>1. \A i \in 1 .. m : Knows(nm, fs2[i], Up(fs2, sc, i))
    <3>1. \A i \in 1 .. m : Knows(nm, fs[i], Up(fs, sc, i))
      BY <1>0a, <1>1 DEF Known
    <3>2. Knows(nm, fs2[m], Up(fs2, sc, m))
      BY <1>1, <1>3, <1>10, <1>11, <1>13
    <3>3. \A i \in 1 .. m : i # m => Knows(nm, fs2[i], Up(fs2, sc, i))
      BY <1>3, <1>10, <3>1
    <3> QED
      BY <3>2, <3>3
  <2> QED
    BY <1>0a, <1>1, <1>3, <1>6, <2>1, Zenon DEF Known
<1>15. Chain(fs2, sc)
  <2>1. \A i, j \in 1 .. m : i < j => Begins(fs[i].scope, fs[j].scope)
    BY <1>0a, <1>1 DEF Chain
  <2>2. \A i \in 1 .. m : Begins(fs[i].scope, sc)
    BY <1>0a, <1>1 DEF Chain
  <2>3. DOMAIN fs2 = 1 .. m /\ \A i \in 1 .. m : fs2[i].scope = fs[i].scope
    BY <1>3, <1>6
  <2> QED
    BY <2>1, <2>2, <2>3, ChainIs, Zenon
<1> QED
  BY <1>7, <1>9, <1>14, <1>15 DEF Settled

\* A new variable in the current block, between statements.
LEMMA AddScopes ==
  ASSUME NEW nm, NEW c, NEW fs, NEW sc, Scene(nm, c, fs, sc), c # NoBlock,
         NEW a \in Between, Settled(nm, c, fs, sc, a), NEW s \in Nat,
         NEW nm2 \in Seq(Seq(Nat)), Len(nm2) = Len(nm), nm2[c] = Append(nm[c], s),
         \A b \in DOMAIN nm : b # c => nm2[b] = nm[b]
  PROVE  Settled(nm2, c, fs, Append(sc, s), a)
<1> DEFINE sc2 == Append(sc, s)
           n == Len(nm)
           m == Len(fs)
<1>1. /\ nm \in Seq(Seq(Nat)) /\ n \in Nat /\ DOMAIN nm = 1 .. n /\ c \in 1 .. n
      /\ fs \in Seq(Frames) /\ m \in Nat /\ DOMAIN fs = 1 .. m /\ sc \in Seq(Nat)
      /\ \A i \in DOMAIN fs : FrameOK(n, fs[i]) /\ c \notin Pending(fs[i])
  BY DEF Scene, NoBlock
<1>2. sc2 \in Seq(Nat) /\ Begins(sc, sc2)
  BY <1>1, BeginsAppend
<1>3. Discipline(fs, a) /\ Apart(c, fs) /\ Known(nm, c, fs, sc) /\ Chain(fs, sc)
  BY DEF Settled
<1>4. \A i \in DOMAIN fs : fs[i].k \in Body
  BY <1>1, <1>3, Disciplined
<1>5. nm[c] = sc
  <2>1. \A i \in DOMAIN fs : fs[i].k # "docond"
    BY <1>4 DEF Body
  <2> QED
    BY <1>3, <2>1 DEF Known
<1>6. nm2[c] = sc2 /\ Begins(nm[c], nm2[c])
  BY <1>2, <1>5
<1>7. \A b \in 1 .. n : nm[b] \in Seq(Nat) /\ nm2[b] \in Seq(Nat) /\ Begins(nm[b], nm2[b])
        /\ (b # c => nm2[b] = nm[b])
  <2>1. DOMAIN nm = 1 .. n /\ DOMAIN nm2 = 1 .. n
    OBVIOUS
  <2>2. \A b \in 1 .. n : nm[b] \in Seq(Nat) /\ nm2[b] \in Seq(Nat)
    BY <1>1, <2>1
  <2> QED
    BY <1>1, <1>6, <2>2, BeginsItself
<1>8. \A i \in DOMAIN fs : fs[i] \in Frames /\ fs[i].scope \in Seq(Nat)
  <2>1. \A i \in DOMAIN fs : fs[i] \in Frames
    BY <1>1
  <2> QED
    BY <2>1 DEF Frames
<1>0. m = Len(fs)
  OBVIOUS
<1> HIDE DEF sc2, n, m
<1>9. ASSUME NEW i \in DOMAIN fs
      PROVE  Knows(nm2, fs[i], Up(fs, sc2, i))
  <2> DEFINE f == fs[i]
             up == Up(fs, sc, i)
             up2 == Up(fs, sc2, i)
  <2>1. f \in Frames /\ FrameOK(n, f) /\ f.k \in Body /\ Knows(nm, f, up)
        /\ c \notin Fixed(f) /\ c \notin Pending(f) /\ f.scope \in Seq(Nat)
    BY <1>1, <1>3, <1>4, <1>8 DEF Apart, Known
  <2>2. up \in Seq(Nat) /\ up2 \in Seq(Nat) /\ Begins(up, up2)
        /\ (i # m => up2 = up) /\ (i = m => up2 = sc2)
    <3>1. i # m => i + 1 \in DOMAIN fs
      BY <1>1
    <3>2. i # m => up \in Seq(Nat) /\ up2 = up
      BY <1>0, <1>8, <3>1 DEF Up
    <3>3. i = m => up = sc /\ up2 = sc2
      BY <1>0 DEF Up
    <3> QED
      BY <1>1, <1>2, <3>2, <3>3, BeginsItself
  <2>3. f.k = "do" /\ c \in Own(f) => i = m /\ f.cont = <<>>
    <3>1. f.k = "do" /\ c \in Own(f) => f.cont = <<>>
      BY <1>3 DEF Apart
    <3>2. i # m => m \in DOMAIN fs /\ i < m
      BY <1>1
    <3>3. i # m => fs[m].k \in Forking
      BY <1>4, <3>2 DEF Body, Forking
    <3>4. i # m => c \notin Own(f)
      BY <1>3, <3>2, <3>3 DEF Apart
    <3> QED
      BY <3>1, <3>4
  <2> HIDE DEF f, up, up2
  <2>4. /\ Fixed(f) \subseteq 1 .. n /\ Own(f) \subseteq 1 .. n
        /\ f.k \in {"do", "docond"} => /\ Blocks(f.brk) \subseteq 1 .. n
                                       /\ Blocks(f.cont) \subseteq 1 .. n
    BY <1>1, <2>1, RefsDomain
  <2>5. Begins(f.scope, up2)
    BY <2>1, <2>2, BeginsTrans DEF Knows
  <2>6. \A b \in Fixed(f) : nm2[b] = nm[b]
    BY <1>7, <2>1, <2>4
  <2>7. \A b \in 1 .. n : Begins(f.scope, nm[b]) => Begins(f.scope, nm2[b])
    BY <1>7, <2>1, BeginsTrans
  <2>8. f.k = "else" /\ f.oth # NoBlock => Begins(f.scope, nm2[f.oth])
    <3>1. f.k = "else" /\ f.oth # NoBlock => f.oth \in 1 .. n
      BY <1>1, <2>1 DEF FrameOK, NoBlock
    <3> QED
      BY <2>1, <2>7, <3>1 DEF Knows
  <2>9. f.k = "do" => Begins(f.scope, nm2[f.oth]) /\ \A b \in Blocks(f.brk) : Begins(f.scope, nm2[b])
    <3>1. f.k = "do" => f.oth \in 1 .. n
      BY <2>1 DEF FrameOK
    <3> QED
      BY <2>1, <2>4, <2>7, <3>1 DEF Knows
  <2>10. ASSUME f.k = "do", NEW p \in Own(f), Begins(f.scope, nm[p]), Begins(nm[p], up),
                \A b \in Blocks(f.cont) : Begins(nm[p], nm[b])
         PROVE  Begins(f.scope, nm2[p]) /\ Begins(nm2[p], up2)
                  /\ \A b \in Blocks(f.cont) : Begins(nm2[p], nm2[b])
    <3>1. p \in 1 .. n /\ Begins(f.scope, nm2[p])
      BY <2>4, <2>7, <2>10
    <3>2. CASE p = c
      <4>1. nm2[p] = sc2 /\ up2 = sc2 /\ f.cont = <<>>
        BY <1>6, <2>2, <2>3, <2>10, <3>2
      <4>2. Blocks(f.cont) = {}
        BY <4>1 DEF Blocks
      <4> QED
        BY <1>2, <3>1, <4>1, <4>2, BeginsItself
    <3>3. CASE p # c
      <4>1. nm2[p] = nm[p] /\ nm[p] \in Seq(Nat)
        BY <1>7, <3>1, <3>3
      <4>2. Begins(nm2[p], up2)
        BY <2>2, <2>10, <4>1, BeginsTrans
      <4>3. \A b \in Blocks(f.cont) : nm[b] \in Seq(Nat) /\ nm2[b] \in Seq(Nat) /\ Begins(nm[b], nm2[b])
        BY <1>7, <2>4, <2>10
      <4> QED
        BY <2>10, <3>1, <4>1, <4>2, <4>3, BeginsTrans
    <3> QED
      BY <3>2, <3>3
  <2>11. f.k = "do" => f.ctx \in Own(f) /\ f.prev \in Own(f)
    BY DEF Own
  <2>12. Knows(nm2, f, up2)
    <3>1. f.k # "while" /\ f.k # "docond"
      BY <2>1 DEF Body
    <3>2. f.k = "do" =>
            /\ Begins(f.scope, nm2[f.ctx]) /\ Begins(nm2[f.ctx], up2)
            /\ \A b \in Blocks(f.cont) : Begins(nm2[f.ctx], nm2[b])
            /\ ~f.done => /\ Begins(f.scope, nm2[f.prev]) /\ Begins(nm2[f.prev], up2)
                          /\ \A b \in Blocks(f.cont) : Begins(nm2[f.prev], nm2[b])
      BY <2>1, <2>10, <2>11 DEF Knows
    <3>3. \A b \in Fixed(f) : nm[b] = f.scope
      BY <2>1 DEF Knows, Body
    <3> QED
      BY <2>5, <2>6, <2>8, <2>9, <3>1, <3>2, <3>3 DEF Knows
  <2> QED
    BY <2>12 DEF f, up2
<1>10. Known(nm2, c, fs, sc2)
  <2>1. \A i \in DOMAIN fs : fs[i].k \in Body /\ fs[i].k \notin {"tfirst", "tsecond"}
    BY <1>4 DEF Body
  <2> QED
    BY <1>2, <1>6, <1>9, <2>1, BeginsItself DEF Known
<1>11. Chain(fs, sc2)
  <2>1. \A i \in DOMAIN fs : Begins(fs[i].scope, sc2)
    BY <1>1, <1>2, <1>3, <1>8, BeginsTrans DEF Chain
  <2> QED
    BY <1>3, <2>1 DEF Chain
<1> QED
  BY <1>3, <1>10, <1>11 DEF Settled, sc2

\* A block whose list no call relies on gets one.
LEMMA ReturnScopes ==
  ASSUME NEW nm, NEW c, NEW fs, NEW sc, Scene(nm, c, fs, sc),
         NEW a, Settled(nm, c, fs, sc, a),
         fs # <<>>, fs[Len(fs)].k = "call", NEW r, r = fs[Len(fs)].oth,
         NEW nm2 \in Seq(Seq(Nat)), Len(nm2) = Len(nm),
         \A b \in DOMAIN nm : b # r => nm2[b] = nm[b]
  PROVE  Settled(nm2, c, fs, sc, a)
<1> DEFINE n == Len(nm)
           m == Len(fs)
<1>1. /\ nm \in Seq(Seq(Nat)) /\ n \in Nat /\ DOMAIN nm = 1 .. n /\ c \in 0 .. n
      /\ fs \in Seq(Frames) /\ m \in Nat /\ DOMAIN fs = 1 .. m /\ m \in DOMAIN fs
      /\ \A i \in DOMAIN fs : FrameOK(n, fs[i]) /\ c \notin Pending(fs[i])
      /\ \A i, j \in DOMAIN fs : i # j => Pending(fs[i]) \cap Pending(fs[j]) = {}
  BY DEF Scene
<1>2. Discipline(fs, a) /\ Apart(c, fs) /\ Known(nm, c, fs, sc) /\ Chain(fs, sc)
  BY DEF Settled
<1>3. r \in Pending(fs[m]) /\ r \in 1 .. n
  <2>1. r \in 1 .. n
    BY <1>1 DEF FrameOK
  <2> QED
    BY <2>1, PendingIs DEF NoBlock
<1>4. r # c
  BY <1>1, <1>3
<1>5. Fixed(fs[m]) = {} /\ Own(fs[m]) = {} /\ fs[m].k = "call"
  BY DEF Fixed, Own
<1> HIDE DEF n, m
<1>6. \A i \in DOMAIN fs : r \notin Fixed(fs[i]) /\ r \notin Own(fs[i])
        /\ (i # m => r \notin Pending(fs[i]))
  <2>1. \A i \in DOMAIN fs : i # m => i < m
    BY <1>1
  <2>2. \A i \in DOMAIN fs : i # m => r \notin Pending(fs[i])
    BY <1>1, <1>3
  <2>3. \A i \in DOMAIN fs : i # m => r \notin Fixed(fs[i]) /\ r \notin Own(fs[i])
    BY <1>1, <1>2, <1>3, <2>1 DEF Apart
  <2> QED
    BY <1>5, <2>2, <2>3
<1>7. \A b \in 1 .. n : b # r => nm2[b] = nm[b]
  BY <1>1
<1>8. ASSUME NEW i \in DOMAIN fs, NEW up, Knows(nm, fs[i], up)
      PROVE  Knows(nm2, fs[i], up)
  <2> DEFINE f == fs[i]
  <2>1. FrameOK(n, f) /\ Knows(nm, f, up) /\ r \notin Fixed(f) /\ r \notin Own(f)
        /\ (f.k # "call" => r \notin Pending(f))
    BY <1>1, <1>5, <1>6, <1>8
  <2> HIDE DEF f
  <2>2. /\ Fixed(f) \subseteq 1 .. n /\ Own(f) \subseteq 1 .. n
        /\ f.k \in {"do", "docond"} => /\ Blocks(f.brk) \subseteq 1 .. n
                                       /\ Blocks(f.cont) \subseteq 1 .. n
    BY <1>1, <2>1, RefsDomain
  <2>3. \A b \in Fixed(f) \cup Own(f) : nm2[b] = nm[b]
    BY <1>7, <2>1, <2>2
  <2>4. f.k = "else" /\ f.oth # NoBlock => nm2[f.oth] = nm[f.oth]
    <3>1. f.k = "else" /\ f.oth # NoBlock => f.oth \in 1 .. n /\ f.oth \in Pending(f)
      BY <1>1, <2>1, PendingIs DEF FrameOK, NoBlock
    <3> QED
      BY <1>7, <2>1, <3>1
  <2>5. f.k \in {"do", "docond"} => \A b \in Blocks(f.brk) : nm2[b] = nm[b]
    <3>1. f.k \in {"do", "docond"} => \A b \in Blocks(f.brk) : b \in Pending(f)
      BY <2>2, PendingIs DEF NoBlock
    <3> QED
      BY <1>7, <2>1, <2>2, <3>1
  <2>6. f.k = "do" => \A b \in Blocks(f.cont) : nm2[b] = nm[b]
    <3>1. f.k = "do" => \A b \in Blocks(f.cont) : b \in Pending(f)
      BY <2>2, PendingIs DEF NoBlock
    <3> QED
      BY <1>7, <2>1, <2>2, <3>1
  <2>7. /\ f.k \in {"do", "docond"} => f.oth \in Own(f)
        /\ f.k = "do" => f.ctx \in Own(f) /\ f.prev \in Own(f)
        /\ f.k = "while" => f.oth \in Own(f)
    BY DEF Own
  <2>8. Knows(nm2, f, up)
    BY <2>1, <2>3, <2>4, <2>5, <2>6, <2>7 DEF Knows
  <2> QED
    BY <2>8 DEF f
<1>9. c # NoBlock => nm2[c] = nm[c]
  BY <1>1, <1>4, <1>7 DEF NoBlock
<1>10. \A i \in DOMAIN fs : \A b \in Fixed(fs[i]) : nm2[b] = nm[b]
  <2>1. \A i \in DOMAIN fs : Fixed(fs[i]) \subseteq 1 .. n
    BY <1>1, RefsDomain
  <2> QED
    BY <1>6, <1>7, <2>1
<1>11. Known(nm2, c, fs, sc)
  BY <1>2, <1>8, <1>9, <1>10 DEF Known
<1> QED
  BY <1>2, <1>11 DEF Settled

\* A block that leaves a do-while waits in one of its lists.
LEMMA ControlScopes ==
  ASSUME NEW nm, NEW c, NEW fs, NEW sc, Scene(nm, c, fs, sc), c # NoBlock,
         Settled(nm, c, fs, sc, "stmt"), NEW i \in DOMAIN fs, fs[i].k = "do",
         NEW g \in Frames, g.k = "do", g.scope = fs[i].scope, g.par = fs[i].par,
         g.oth = fs[i].oth, g.ctx = fs[i].ctx, g.prev = fs[i].prev, g.done = fs[i].done,
         Blocks(g.brk) \subseteq Blocks(fs[i].brk) \cup {c},
         Blocks(g.cont) \subseteq Blocks(fs[i].cont) \cup {c},
         NEW fs2, fs2 = [fs EXCEPT ![i] = g]
  PROVE  Settled(nm, NoBlock, fs2, sc, "stmt")
<1> DEFINE n == Len(nm)
           m == Len(fs)
           f == fs[i]
<1>1. /\ nm \in Seq(Seq(Nat)) /\ n \in Nat /\ DOMAIN nm = 1 .. n /\ c \in 1 .. n
      /\ fs \in Seq(Frames) /\ m \in Nat /\ DOMAIN fs = 1 .. m /\ sc \in Seq(Nat)
      /\ \A j \in DOMAIN fs : FrameOK(n, fs[j]) /\ c \notin Pending(fs[j])
  BY DEF Scene, NoBlock
<1>2. Discipline(fs, "stmt") /\ Apart(c, fs) /\ Known(nm, c, fs, sc) /\ Chain(fs, sc)
  BY DEF Settled
<1>3. /\ fs2[i] = g /\ Len(fs2) = m /\ DOMAIN fs2 = 1 .. m
      /\ \A j \in 1 .. m : j # i => fs2[j] = fs[j]
  <2>1. fs2 \in Seq(Frames) /\ Len(fs2) = Len(fs)
    BY <1>1, ExceptAnywhere
  <2> QED
    BY <1>1, <2>1
<1>4. f.k = "do" /\ g.scope = f.scope /\ g.oth = f.oth /\ g.ctx = f.ctx /\ g.prev = f.prev
      /\ g.done = f.done /\ g.par = f.par
      /\ Blocks(g.brk) \subseteq Blocks(f.brk) \cup {c}
      /\ Blocks(g.cont) \subseteq Blocks(f.cont) \cup {c}
      /\ m = Len(fs) /\ i \in 1 .. m
  BY <1>1
<1>5. Fixed(g) = Fixed(f) /\ Own(g) = Own(f) /\ Pending(g) \subseteq Pending(f) \cup {c}
  <2>1. Fixed(g) = Fixed(f) /\ Own(g) = Own(f)
    BY <1>4 DEF Fixed, Own
  <2> QED
    BY <1>4, <2>1, PendingIs
<1>6. \A j \in 1 .. m : fs2[j].k = fs[j].k /\ fs2[j].scope = fs[j].scope
        /\ Fixed(fs2[j]) = Fixed(fs[j]) /\ Own(fs2[j]) = Own(fs[j])
        /\ fs2[j].ctx = fs[j].ctx /\ fs2[j].oth = fs[j].oth
  BY <1>3, <1>4, <1>5
<1> HIDE DEF n, m, f
<1>7. \A j \in 1 .. m : NoBlock \notin Fixed(fs2[j]) /\ NoBlock \notin Own(fs2[j])
  <2>1. \A j \in 1 .. m : Fixed(fs[j]) \subseteq 1 .. n /\ Own(fs[j]) \subseteq 1 .. n
    BY <1>1, RefsDomain
  <2> QED
    BY <1>1, <1>6, <2>1 DEF NoBlock
<1>8. ASSUME NEW j \in 1 .. m, NEW l \in 1 .. m, j < l
      PROVE  Pending(fs2[l]) \cap (Fixed(fs2[j]) \cup Own(fs2[j])) = {}
  <2>1. Pending(fs[l]) \cap (Fixed(fs[j]) \cup Own(fs[j])) = {}
    BY <1>1, <1>2, <1>8 DEF Apart
  <2>2. CASE l # i
    BY <1>3, <1>6, <2>1, <2>2
  <2>3. CASE l = i
    <3>1. c \notin Fixed(fs[j]) /\ c \notin Own(fs[j])
      BY <1>1, <1>2, <1>4, <1>8, <2>3 DEF Apart, Forking, f
    <3>2. fs2[l] = g /\ fs[l] = f
      BY <1>3, <2>3 DEF f
    <3> QED
      BY <1>5, <1>6, <2>1, <3>1, <3>2
  <2> QED
    BY <2>2, <2>3
<1>9. Apart(NoBlock, fs2)
  <2>1. \A j, l \in 1 .. m : j < l => Pending(fs2[l]) \cap (Fixed(fs2[j]) \cup Own(fs2[j])) = {}
    BY <1>8
  <2>2. \A j, l \in 1 .. m : j < l /\ fs2[l].k \in Forking => NoBlock \notin Own(fs2[j])
    BY <1>7
  <2>3. \A j \in 1 .. m : fs2[j].k = "do" /\ NoBlock \in Own(fs2[j]) => fs2[j].cont = <<>>
    BY <1>7
  <2>4. \A j \in 1 .. m : fs2[j].k \in {"then", "tfirst"} => fs2[j].ctx # fs2[j].oth
    BY <1>1, <1>2, <1>6 DEF Apart
  <2>5. \A j \in 1 .. m : NoBlock \notin Fixed(fs2[j])
    BY <1>7
  <2>6. DOMAIN fs2 = 1 .. m
    BY <1>3
  <2> QED
    BY <2>1, <2>2, <2>3, <2>4, <2>5, <2>6, ApartIs, ZenonT(30)
<1>10. \A j \in 1 .. m : Up(fs2, sc, j) = Up(fs, sc, j)
  <2>1. \A j \in 1 .. m : j # m => j + 1 \in 1 .. m
    BY <1>1
  <2> QED
    BY <1>3, <1>4, <1>6, <2>1 DEF Up
<1>11. \A j \in 1 .. m : fs[j] \in Frames /\ fs[j].scope \in Seq(Nat) /\ Begins(fs[j].scope, sc)
  <2>1. \A j \in 1 .. m : fs[j] \in Frames
    BY <1>1
  <2> QED
    BY <1>1, <1>2, <2>1 DEF Chain, Frames
<1>12. nm[c] = sc /\ \A j \in 1 .. m : fs[j].k \in Body
  <2>1. \A j \in 1 .. m : fs[j].k \in Body
    BY <1>1, <1>2, Disciplined DEF Between
  <2>2. \A j \in DOMAIN fs : fs[j].k # "docond"
    BY <1>1, <2>1 DEF Body
  <2> QED
    BY <1>2, <2>1, <2>2 DEF Known
<1> DEFINE up == Up(fs, sc, i)
<1>13. up \in Seq(Nat) /\ Begins(up, sc)
  <2>1. i # m => i + 1 \in 1 .. m
    BY <1>1, <1>4
  <2>2. i # m => up \in Seq(Nat) /\ Begins(up, sc)
    BY <1>4, <1>11, <2>1 DEF Up
  <2>3. i = m => up = sc
    BY <1>4 DEF Up
  <2> QED
    BY <1>1, <2>2, <2>3, BeginsItself
<1>14. Knows(nm, f, up) /\ FrameOK(n, f) /\ f \in Frames
  BY <1>1, <1>2, <1>4, <1>11 DEF Known, f
<1> HIDE DEF up
<1>15. Knows(nm, g, up)
  <2>1. \A p \in Own(f) : nm[p] \in Seq(Nat)
    BY <1>1, <1>14, RefsDomain
  <2>2. f.ctx \in Own(f) /\ f.prev \in Own(f)
    BY <1>4 DEF Own
  <2>3. \A p \in Own(f) : Begins(nm[p], up) => Begins(nm[p], nm[c])
    BY <1>1, <1>12, <1>13, <2>1, BeginsTrans
  <2>4. Begins(f.scope, nm[c])
    BY <1>11, <1>12, <1>4 DEF f
  <2> QED
    BY <1>4, <1>5, <1>14, <2>2, <2>3, <2>4 DEF Knows
<1>16. Known(nm, NoBlock, fs2, sc)
  <2>1. \A j \in 1 .. m : Knows(nm, fs[j], Up(fs, sc, j))
    BY <1>1, <1>2 DEF Known
  <2>2. Knows(nm, fs2[i], Up(fs2, sc, i))
    BY <1>3, <1>4, <1>10, <1>15 DEF up
  <2>3. \A j \in 1 .. m : j # i => Knows(nm, fs2[j], Up(fs2, sc, j))
    BY <1>3, <1>10, <2>1
  <2>4. \A j \in 1 .. m : fs2[j].k \in Body /\ fs2[j].k \notin {"tfirst", "tsecond"}
    BY <1>6, <1>12 DEF Body
  <2> QED
    BY <1>3, <2>2, <2>3, <2>4 DEF Known
<1>17. Discipline(fs2, "stmt")
  <2>1. \A j \in 1 .. m : fs2[j].k \in Body /\ fs2[j].k \notin Expr
    BY <1>6, <1>12 DEF Body, Expr
  <2>2. fs2 # <<>> => Len(fs2) \in 1 .. m
    BY <1>1, <1>3, <1>4
  <2> QED
    BY <1>3, <2>1, <2>2 DEF Discipline, Between
<1>18. Chain(fs2, sc)
  <2>1. \A j, l \in 1 .. m : j < l => Begins(fs[j].scope, fs[l].scope)
    BY <1>1, <1>2 DEF Chain
  <2>2. DOMAIN fs2 = 1 .. m /\ \A j \in 1 .. m : fs2[j].scope = fs[j].scope
    BY <1>3, <1>6
  <2> QED
    BY <1>11, <2>1, <2>2, ChainIs, Zenon
<1> QED
  BY <1>9, <1>16, <1>17, <1>18 DEF Settled

\* The target of a compound assignment that waits for its value is a variable
\* the block has.
Targets(nm, c, fs) ==
  \A i \in DOMAIN fs : fs[i].k = "compound" =>
    c # NoBlock /\ \E q \in DOMAIN nm[c] : nm[c][q] = fs[i].sym

LEMMA MoveTargets ==
  ASSUME NEW nm, NEW c, NEW fs, NEW sc, NEW k, NEW nm2, NEW c2, NEW fs2, NEW sc2,
         Scene(nm, c, fs, sc), Targets(nm, c, fs), Move(nm, c, fs, sc, k, nm2, c2, fs2, sc2),
         Len(fs2) = k + 1 /\ fs2[k + 1].k = "compound" =>
           c2 # NoBlock /\ \E q \in DOMAIN nm2[c2] : nm2[c2][q] = fs2[k + 1].sym
  PROVE  Targets(nm2, c2, fs2)
<1>1. /\ \A i \in 1 .. k : fs2[i] = fs[i] /\ i \in DOMAIN fs /\ i \in DOMAIN fs2
      /\ \A i \in DOMAIN fs2 : i \in 1 .. k \/ (Len(fs2) = k + 1 /\ i = k + 1)
  BY MoveIndex
<1>2. ASSUME NEW i \in 1 .. k, fs[i].k = "compound"
      PROVE  c2 # NoBlock /\ \E q \in DOMAIN nm2[c2] : nm2[c2][q] = fs[i].sym
  <2>1. fs[i].k \notin Body
    BY <1>2 DEF Body
  <2>2. c2 # NoBlock /\ nm2[c2] = nm[c]
    BY <2>1 DEF Move
  <2> QED
    BY <1>1, <1>2, <2>2 DEF Targets
<1> QED
  BY <1>1, <1>2 DEF Targets

LEMMA TargetsBetween ==
  ASSUME NEW fs \in Seq(Frames), NEW a \in Between, Discipline(fs, a), NEW nm, NEW c
  PROVE  Targets(nm, c, fs)
<1>1. \A i \in DOMAIN fs : fs[i].k \in Body
  BY Disciplined
<1> QED
  BY <1>1 DEF Targets, Body

LEMMA MoveSettled ==
  ASSUME NEW nm, NEW c, NEW fs, NEW sc, NEW k, NEW nm2, NEW c2, NEW fs2, NEW sc2, NEW a,
         Scene(nm, c, fs, sc), Settled(nm, c, fs, sc, a), Targets(nm, c, fs),
         Move(nm, c, fs, sc, k, nm2, c2, fs2, sc2),
         Len(fs2) = k + 1 /\ fs2[k + 1].k = "compound" =>
           c2 # NoBlock /\ \E q \in DOMAIN nm2[c2] : nm2[c2][q] = fs2[k + 1].sym,
         NEW a2,
         Len(fs2) = k => (a2 \in Between <=> k = 0 \/ fs[k].k \in Body),
         Len(fs2) = k + 1 =>
           /\ fs2[k + 1].k \in Expr => k > 0 /\ fs[k].k \notin Body
           /\ fs2[k + 1].k \notin Expr => \A i \in 1 .. k : fs[i].k \in Body
           /\ a2 \in Between <=> fs2[k + 1].k \in Body
  PROVE  Settled(nm2, c2, fs2, sc2, a2) /\ Targets(nm2, c2, fs2)
<1>1. Discipline(fs, a) /\ Apart(c, fs) /\ Known(nm, c, fs, sc) /\ Chain(fs, sc)
  BY DEF Settled
<1>2. /\ k \in Nat /\ k <= Len(fs) /\ Len(fs) <= k + 1 /\ fs \in Seq(Frames)
      /\ fs2 \in Seq(Frames) /\ k <= Len(fs2) /\ Len(fs2) <= k + 1
      /\ \A i \in 1 .. k : fs2[i] = fs[i]
  BY DEF Move, Scene
<1>3. Discipline(fs2, a2)
  BY <1>1, <1>2, MoveDiscipline
<1>4. Apart(c2, fs2)
  BY <1>1, MoveApart
<1>5. Known(nm2, c2, fs2, sc2)
  BY <1>1, MoveKnown
<1>6. Chain(fs2, sc2)
  BY <1>1, MoveChain
<1>7. Targets(nm2, c2, fs2)
  BY MoveTargets
<1> QED
  BY <1>3, <1>4, <1>5, <1>6, <1>7 DEF Settled

\* More blocks, and the same lists.
More(nm, nm2) ==
  nm2 \in Seq(Seq(Nat)) /\ Len(nm) <= Len(nm2) /\ \A b \in DOMAIN nm : nm2[b] = nm[b]

\* The current block's list is the scope, but in the condition of a do-while.
LEMMA CurrentList ==
  ASSUME NEW nm, NEW c, NEW fs \in Seq(Frames), NEW sc, NEW a, Settled(nm, c, fs, sc, a)
  PROVE  /\ c # NoBlock => Begins(sc, nm[c])
         /\ c # NoBlock /\ (\A i \in DOMAIN fs : fs[i].k # "docond") => nm[c] = sc
         /\ c # NoBlock /\ a \in Between => nm[c] = sc
<1>1. a \in Between => \A i \in DOMAIN fs : fs[i].k \in Body
  BY Disciplined DEF Settled
<1>2. a \in Between => \A i \in DOMAIN fs : fs[i].k # "docond"
  BY <1>1 DEF Body
<1> QED
  BY <1>2 DEF Settled, Known

\* The calls stay as they are.
LEMMA StayScopes ==
  ASSUME NEW nm, NEW c, NEW fs, NEW sc, NEW a,
         Scene(nm, c, fs, sc), Settled(nm, c, fs, sc, a), Targets(nm, c, fs), c # NoBlock,
         NEW nm2, More(nm, nm2), NEW c2 \in 0 .. Len(nm2),
         c2 = NoBlock \/ c2 = c \/ c2 \notin DOMAIN nm,
         c2 = NoBlock => a \in Between, c2 # NoBlock => nm2[c2] = nm[c],
         NEW a2, a2 \in Between <=> a \in Between
  PROVE  Settled(nm2, c2, fs, sc, a2) /\ Targets(nm2, c2, fs)
<1> DEFINE k == Len(fs)
<1>1. /\ k \in Nat /\ k <= Len(fs) /\ Len(fs) <= k + 1 /\ fs \in Seq(Frames) /\ sc \in Seq(Nat)
      /\ Len(fs) # k + 1 /\ Len(fs) = k /\ (k = 0 <=> fs = <<>>) /\ 1 .. k = DOMAIN fs
  BY DEF Scene
<1> HIDE DEF k
<1>2. Discipline(fs, a)
  BY DEF Settled
<1>3. a \in Between => \A i \in 1 .. k : fs[i].k \in Body
  BY <1>1, <1>2, Disciplined
<1>4. Begins(Up(fs, sc, k), Up(fs, sc, k))
  BY <1>1, BeginsItself DEF Up
<1>5. c2 # NoBlock => Begins(sc, nm2[c2])
        /\ ((\A i \in DOMAIN fs : fs[i].k # "docond") => nm2[c2] = sc)
  <2>1. Known(nm, c, fs, sc)
    BY DEF Settled
  <2> QED
    BY <2>1 DEF Known
<1>6. Move(nm, c, fs, sc, k, nm2, c2, fs, sc)
  BY <1>1, <1>3, <1>4, <1>5 DEF Move, More
<1>7. a2 \in Between <=> k = 0 \/ fs[k].k \in Body
  BY <1>1, <1>2 DEF Discipline
<1> QED
  BY <1>1, <1>6, <1>7, MoveSettled

\* Calls that go on in the block they began in.
Mild == {"define", "let", "discard", "if", "return", "set", "compound", "linear", "instanceof",
         "element", "target", "update", "tcond", "call"}

LEMMA MildFrame ==
  ASSUME NEW f, f.k \in Mild
  PROVE  /\ Fixed(f) = {} /\ Own(f) = {} /\ f.k \notin Forking /\ f.k \notin Body
         /\ f.k # "do" /\ f.k \notin {"then", "tfirst"} /\ f.k \notin {"tfirst", "tsecond"}
         /\ f.k # "docond"
         /\ \A nm, up : Begins(f.scope, up) => Knows(nm, f, up)
BY DEF Mild, Fixed, Own, Forking, Body, Knows

\* A call begins, in the same block.
LEMMA EnterScopes ==
  ASSUME NEW nm, NEW c, NEW fs, NEW sc, NEW a,
         Scene(nm, c, fs, sc), Settled(nm, c, fs, sc, a), Targets(nm, c, fs), c # NoBlock,
         NEW nm2, More(nm, nm2),
         NEW g \in Frames, g.k \in Mild, g.scope = sc, FrameOK(Len(nm2), g),
         Pending(g) \cap DOMAIN nm = {}, g.k \in Expr <=> a \notin Between,
         g.k = "compound" => \E q \in DOMAIN nm[c] : nm[c][q] = g.sym,
         NEW a2, a2 \notin Between
  PROVE  Settled(nm2, c, Append(fs, g), sc, a2) /\ Targets(nm2, c, Append(fs, g))
<1> DEFINE k == Len(fs)
           fs2 == Append(fs, g)
<1>1. /\ k \in Nat /\ k <= Len(fs) /\ Len(fs) <= k + 1 /\ fs \in Seq(Frames) /\ sc \in Seq(Nat)
      /\ Len(fs) # k + 1 /\ Len(fs) = k /\ (k = 0 <=> fs = <<>>) /\ 1 .. k = DOMAIN fs
      /\ (fs # <<>> => k > 0) /\ c \in 0 .. Len(nm) /\ nm \in Seq(Seq(Nat))
  BY DEF Scene
<1>2. /\ fs2 \in Seq(Frames) /\ Len(fs2) = k + 1 /\ k <= Len(fs2) /\ Len(fs2) <= k + 1
      /\ fs2[k + 1] = g /\ (\A i \in 1 .. k : fs2[i] = fs[i]) /\ k + 1 \in DOMAIN fs2
      /\ Len(fs2) # k
      /\ \A i \in 1 .. k : i \in DOMAIN fs2
  BY <1>1
<1> HIDE DEF k, fs2
<1>3. Discipline(fs, a) /\ Known(nm, c, fs, sc)
  BY DEF Settled
<1>4. a \in Between => \A i \in 1 .. k : fs[i].k \in Body
  BY <1>1, <1>3, Disciplined
<1>5. a \notin Between => k > 0 /\ fs[k].k \notin Body
  BY <1>1, <1>3 DEF Discipline
<1>6. c \in DOMAIN nm /\ nm2[c] = nm[c] /\ c \in 0 .. Len(nm2) /\ nm2 \in Seq(Seq(Nat))
      /\ Len(nm) <= Len(nm2) /\ \A b \in DOMAIN nm : nm2[b] = nm[b]
  <2>1. c \in DOMAIN nm
    BY <1>1 DEF NoBlock
  <2> QED
    BY <1>1, <2>1 DEF More
<1>7. Begins(Up(fs, sc, k), Up(fs2, sc, k)) /\ Begins(sc, sc)
  <2>1. Up(fs, sc, k) = sc /\ Up(fs2, sc, k) = sc
    BY <1>1, <1>2 DEF Up
  <2> QED
    BY <1>1, <2>1, BeginsItself
<1>8. Begins(sc, nm2[c]) /\ ((\A i \in DOMAIN fs2 : fs2[i].k # "docond") => nm2[c] = sc)
  <2>1. (\A i \in DOMAIN fs2 : fs2[i].k # "docond") => \A i \in DOMAIN fs : fs[i].k # "docond"
    BY <1>1, <1>2
  <2> QED
    BY <1>3, <1>6, <2>1 DEF Known
<1>9. /\ Fixed(g) = {} /\ Own(g) = {} /\ g.k \notin Forking /\ g.k \notin Body
      /\ g.k # "do" /\ g.k \notin {"then", "tfirst"} /\ g.k \notin {"tfirst", "tsecond"}
      /\ Knows(nm2, g, sc)
  BY <1>7, MildFrame
<1>10. Move(nm, c, fs, sc, k, nm2, c, fs2, sc)
  BY <1>1, <1>2, <1>6, <1>7, <1>8, <1>9 DEF Move
<1>11. Settled(nm2, c, fs2, sc, a2) /\ Targets(nm2, c, fs2)
  BY <1>2, <1>4, <1>5, <1>6, <1>9, <1>10, MoveSettled
<1> QED
  BY <1>11 DEF fs2

\* A call goes on to its next operand.
LEMMA SwapScopes ==
  ASSUME NEW nm, NEW c, NEW fs, NEW sc, NEW a,
         Scene(nm, c, fs, sc), Settled(nm, c, fs, sc, a), Targets(nm, c, fs), c # NoBlock,
         NEW nm2, More(nm, nm2), fs # <<>>, fs[Len(fs)].k \in Expr \cap Mild,
         NEW g \in Frames, g.k \in Expr \cap Mild, g.k # "compound", g.scope = fs[Len(fs)].scope,
         FrameOK(Len(nm2), g), Pending(g) \subseteq Pending(fs[Len(fs)]),
         NEW a2, a2 \notin Between
  PROVE  LET fs2 == Append(SubSeq(fs, 1, Len(fs) - 1), g)
         IN Settled(nm2, c, fs2, sc, a2) /\ Targets(nm2, c, fs2)
<1> DEFINE k == Len(fs) - 1
           fs2 == Append(SubSeq(fs, 1, k), g)
           f == fs[k + 1]
<1>1. /\ k \in Nat /\ k <= Len(fs) /\ Len(fs) <= k + 1 /\ fs \in Seq(Frames) /\ sc \in Seq(Nat)
      /\ Len(fs) = k + 1 /\ Len(fs) - 1 = k /\ Len(fs) # k
      /\ c \in 0 .. Len(nm) /\ nm \in Seq(Seq(Nat))
      /\ k + 1 \in DOMAIN fs /\ f \in Frames /\ fs[Len(fs)] = f
      /\ \A i \in DOMAIN fs : i \in 1 .. k \/ i = k + 1
  BY DEF Scene
<1>2. /\ fs2 \in Seq(Frames) /\ Len(fs2) = k + 1 /\ k <= Len(fs2) /\ Len(fs2) <= k + 1
      /\ fs2[k + 1] = g /\ (\A i \in 1 .. k : fs2[i] = fs[i]) /\ k + 1 \in DOMAIN fs2
      /\ Len(fs2) # k
      /\ \A i \in 1 .. k : i \in DOMAIN fs2
  <2> DEFINE below == SubSeq(fs, 1, k)
  <2>0. fs \in Seq(Frames) /\ k \in Nat /\ Len(fs) = k + 1
    BY <1>1, Zenon
  <2>1. below \in Seq(Frames) /\ Len(below) = k /\ \A i \in 1 .. k : below[i] = fs[i]
    <3> HIDE DEF f, k
    <3> QED
      BY ONLY <2>0
  <2> HIDE DEF below
  <2>2. fs2 = Append(below, g)
    BY DEF below
  <2> HIDE DEF fs2, k
  <2> QED
    BY <1>1, <2>1, <2>2
<1> HIDE DEF k, fs2
<1>3. Discipline(fs, a) /\ Known(nm, c, fs, sc) /\ Chain(fs, sc)
  BY DEF Settled
<1>4. k > 0 /\ fs[k].k \notin Body
  <2>1. fs[Len(fs)].k \in Expr
    OBVIOUS
  <2>2. Len(fs) > 1 /\ fs[Len(fs) - 1].k \notin Body
    BY <1>1, <1>3, <2>1, Disciplined
  <2> QED
    BY <1>1, <2>2
<1>5. c \in DOMAIN nm /\ nm2[c] = nm[c] /\ c \in 0 .. Len(nm2) /\ nm2 \in Seq(Seq(Nat))
      /\ Len(nm) <= Len(nm2) /\ \A b \in DOMAIN nm : nm2[b] = nm[b]
  <2>1. c \in DOMAIN nm
    BY <1>1 DEF NoBlock
  <2> QED
    BY <1>1, <2>1 DEF More
<1>6. f.k \in Expr /\ f.k \in Mild /\ g.scope = f.scope /\ f.scope = sc /\ f.k # "docond"
      /\ Pending(g) \subseteq Pending(f)
  <2>1. f.k \in Expr /\ f.k \in Mild /\ g.scope = f.scope /\ Pending(g) \subseteq Pending(f)
    BY <1>1
  <2>2. f.k \notin Body /\ f.k # "docond"
    BY <2>1, MildFrame
  <2>3. f.scope = sc
    BY <1>1, <1>3, <2>2 DEF Known
  <2> QED
    BY <2>1, <2>2, <2>3
<1>7. Begins(Up(fs, sc, k), Up(fs2, sc, k)) /\ Begins(sc, sc)
  <2>1. Up(fs, sc, k) = sc /\ Up(fs2, sc, k) = sc
    BY <1>1, <1>2, <1>6 DEF Up
  <2> QED
    BY <1>1, <2>1, BeginsItself
<1>8. Begins(sc, nm2[c]) /\ ((\A i \in DOMAIN fs2 : fs2[i].k # "docond") => nm2[c] = sc)
  <2>1. (\A i \in DOMAIN fs2 : fs2[i].k # "docond") => \A i \in DOMAIN fs : fs[i].k # "docond"
    BY <1>1, <1>2, <1>6
  <2> QED
    BY <1>3, <1>5, <2>1 DEF Known
<1>9. /\ Fixed(g) = {} /\ Own(g) = {} /\ g.k \notin Forking /\ g.k \notin Body
      /\ g.k # "do" /\ g.k \notin {"then", "tfirst"} /\ g.k \notin {"tfirst", "tsecond"}
      /\ Knows(nm2, g, sc)
  BY <1>6, <1>7, MildFrame
<1>10. Move(nm, c, fs, sc, k, nm2, c, fs2, sc)
  BY <1>1, <1>2, <1>5, <1>6, <1>7, <1>8, <1>9 DEF Move
<1>11. Settled(nm2, c, fs2, sc, a2) /\ Targets(nm2, c, fs2)
  BY <1>2, <1>4, <1>9, <1>10, MoveSettled
<1> QED
  BY <1>11 DEF fs2, k

LEMMA BelowFacts ==
  ASSUME NEW fs \in Seq(Frames), fs # <<>>
  PROVE  LET k == Len(fs) - 1
             below == SubSeq(fs, 1, k)
         IN /\ k \in Nat /\ k <= Len(fs) /\ Len(fs) <= k + 1 /\ Len(fs) = k + 1 /\ Len(fs) # k
            /\ below \in Seq(Frames) /\ Len(below) = k /\ Len(below) # k + 1
            /\ k <= Len(below) /\ Len(below) <= k + 1
            /\ k + 1 \in DOMAIN fs /\ fs[k + 1] \in Frames /\ fs[Len(fs)] = fs[k + 1]
            /\ \A i \in 1 .. k : below[i] = fs[i] /\ i \in DOMAIN fs /\ i \in DOMAIN below
            /\ \A i \in DOMAIN fs : i \in 1 .. k \/ i = k + 1
            /\ \A i \in DOMAIN below : i \in 1 .. k
<1> DEFINE k == Len(fs) - 1
           below == SubSeq(fs, 1, k)
<1>1. /\ k \in Nat /\ k <= Len(fs) /\ Len(fs) <= k + 1 /\ Len(fs) = k + 1 /\ Len(fs) # k
      /\ DOMAIN fs = 1 .. k + 1
  OBVIOUS
<1> HIDE DEF k
<1>2. k + 1 \in DOMAIN fs /\ fs[k + 1] \in Frames /\ fs[Len(fs)] = fs[k + 1]
  <2>1. k + 1 \in 1 .. k + 1
    BY <1>1
  <2> QED
    BY <1>1, <2>1
<1>3. below \in Seq(Frames) /\ Len(below) = k /\ \A i \in 1 .. k : below[i] = fs[i]
  BY <1>1
<1> HIDE DEF below
<1>4. DOMAIN below = 1 .. k /\ \A i \in 1 .. k : i \in 1 .. k + 1
  BY <1>1, <1>3
<1>5. \A i \in 1 .. k + 1 : i \in 1 .. k \/ i = k + 1
  BY <1>1
<1>6. Len(below) # k + 1 /\ k <= Len(below) /\ Len(below) <= k + 1
  BY <1>1, <1>3
<1> QED
  BY <1>1, <1>2, <1>3, <1>4, <1>5, <1>6, Zenon DEF below, k

\* A call ends.  That of an expression leaves the list and the scope as they
\* are; after a statement the block has the symbols in scope.
LEMMA LeaveScopes ==
  ASSUME NEW nm, NEW c, NEW fs, NEW sc, NEW a,
         Scene(nm, c, fs, sc), Settled(nm, c, fs, sc, a), Targets(nm, c, fs),
         NEW nm2, More(nm, nm2), fs # <<>>, NEW c2 \in 0 .. Len(nm2),
         c2 = NoBlock \/ c2 = c \/ c2 \notin DOMAIN nm \/ c2 \in Pending(fs[Len(fs)]),
         NEW sc2 \in Seq(Nat),
         IF fs[Len(fs)].k \in Expr
           THEN c # NoBlock /\ c2 # NoBlock /\ nm2[c2] = nm[c] /\ sc2 = sc
           ELSE sc2 = fs[Len(fs)].scope /\ (c2 # NoBlock => nm2[c2] = sc2),
         NEW a2, a2 \in Between <=> fs[Len(fs)].k \notin Expr
  PROVE  LET fs2 == SubSeq(fs, 1, Len(fs) - 1)
         IN Settled(nm2, c2, fs2, sc2, a2) /\ Targets(nm2, c2, fs2)
<1> DEFINE k == Len(fs) - 1
           fs2 == SubSeq(fs, 1, k)
           f == fs[k + 1]
<1>0. fs \in Seq(Frames) /\ sc \in Seq(Nat) /\ nm \in Seq(Seq(Nat)) /\ c \in 0 .. Len(nm)
  BY DEF Scene
<1>1. /\ k \in Nat /\ k <= Len(fs) /\ Len(fs) <= k + 1 /\ Len(fs) = k + 1 /\ Len(fs) # k
      /\ fs2 \in Seq(Frames) /\ Len(fs2) = k /\ Len(fs2) # k + 1
      /\ k <= Len(fs2) /\ Len(fs2) <= k + 1
      /\ k + 1 \in DOMAIN fs /\ f \in Frames /\ fs[Len(fs)] = f
      /\ \A i \in 1 .. k : fs2[i] = fs[i] /\ i \in DOMAIN fs /\ i \in DOMAIN fs2
      /\ \A i \in DOMAIN fs : i \in 1 .. k \/ i = k + 1
      /\ \A i \in DOMAIN fs2 : i \in 1 .. k
  BY <1>0, BelowFacts
<1>2. Len(fs) - 1 = k
  OBVIOUS
<1> HIDE DEF k, fs2, f
<1>3. Discipline(fs, a) /\ Known(nm, c, fs, sc) /\ Chain(fs, sc)
  BY DEF Settled
<1>4. IF f.k \in Expr THEN k > 0 /\ fs[k].k \notin Body ELSE \A i \in 1 .. k : fs[i].k \in Body
  <2>1. /\ f.k \notin Expr => \A i \in 1 .. Len(fs) - 1 : fs[i].k \in Body
        /\ f.k \in Expr => Len(fs) > 1 /\ fs[Len(fs) - 1].k \notin Body
    BY <1>0, <1>1, <1>3, Disciplined
  <2>2. Len(fs) > 1 => k > 0
    BY <1>1
  <2> QED
    BY <1>2, <2>1, <2>2
<1>5. IF f.k \in Expr
        THEN c # NoBlock /\ c2 # NoBlock /\ nm2[c2] = nm[c] /\ sc2 = sc
        ELSE sc2 = f.scope /\ (c2 # NoBlock => nm2[c2] = sc2)
  BY <1>1
<1>6. f.k \in Expr => f.scope = sc /\ f.k # "docond"
  <2>1. f.k \in Expr => f.k \notin Body /\ f.k # "docond"
    BY DEF Expr, Body
  <2> QED
    BY <1>1, <1>3, <2>1 DEF Known, f
<1>7. Up(fs, sc, k) = f.scope /\ Up(fs2, sc2, k) = sc2 /\ f.scope \in Seq(Nat)
  <2>1. f.scope \in Seq(Nat)
    BY <1>1 DEF Frames
  <2> QED
    BY <1>1, <2>1 DEF Up, f
<1>8. Begins(Up(fs, sc, k), Up(fs2, sc2, k))
  <2>1. sc2 = f.scope
    BY <1>5, <1>6
  <2> QED
    BY <1>7, <2>1, BeginsItself
<1>9. c2 # NoBlock => Begins(sc2, nm2[c2])
        /\ ((\A i \in DOMAIN fs2 : fs2[i].k # "docond") => nm2[c2] = sc2)
  <2>1. CASE f.k \in Expr
    <3>1. (\A i \in DOMAIN fs2 : fs2[i].k # "docond") => \A i \in DOMAIN fs : fs[i].k # "docond"
      BY <1>1, <1>6, <2>1 DEF f
    <3> QED
      BY <1>3, <1>5, <2>1, <3>1 DEF Known
  <2>2. CASE f.k \notin Expr
    BY <1>5, <2>2, BeginsItself
  <2> QED
    BY <2>1, <2>2
<1>10. c2 = NoBlock \/ c2 = c \/ c2 \notin DOMAIN nm
         \/ (Len(fs) = k + 1 /\ c2 \in Pending(fs[k + 1]))
  BY <1>1
<1>11. \/ \A i \in 1 .. k : fs[i].k \in Body
       \/ c # NoBlock /\ c2 # NoBlock /\ nm2[c2] = nm[c] /\ sc2 = sc
  BY <1>4, <1>5
<1>12. nm2 \in Seq(Seq(Nat)) /\ Len(nm) <= Len(nm2) /\ \A b \in DOMAIN nm : nm2[b] = nm[b]
  BY DEF More
<1>13. Move(nm, c, fs, sc, k, nm2, c2, fs2, sc2)
  BY <1>1, <1>8, <1>9, <1>10, <1>11, <1>12 DEF Move
<1>14. a2 \in Between <=> k = 0 \/ fs[k].k \in Body
  <2>1. a2 \in Between <=> f.k \notin Expr
    BY <1>1
  <2>2. k = 0 \/ k \in 1 .. k
    BY <1>1
  <2>3. f.k \in Expr => k # 0
    BY <1>4
  <2> QED
    BY <1>4, <2>1, <2>2, <2>3
<1>15. Settled(nm2, c2, fs2, sc2, a2) /\ Targets(nm2, c2, fs2)
  BY <1>1, <1>13, <1>14, MoveSettled
<1> QED
  BY <1>15 DEF fs2, k

\* A statement begins that goes on in a new block.
LEMMA ForkScopes ==
  ASSUME NEW nm, NEW c, NEW fs, NEW sc, NEW a \in Between,
         Scene(nm, c, fs, sc), Settled(nm, c, fs, sc, a), Targets(nm, c, fs), c # NoBlock,
         NEW nm2, More(nm, nm2), NEW c2 \in 0 .. Len(nm2), c2 \notin DOMAIN nm, c2 # NoBlock,
         nm2[c2] = sc,
         NEW g \in Frames, g.k \in {"block", "while", "do"}, g.scope = sc,
         FrameOK(Len(nm2), g), Pending(g) = {}, c2 \notin Fixed(g),
         g.k = "do" => g.cont = <<>>, Knows(nm2, g, sc),
         NEW a2, a2 \in Between <=> g.k # "while"
  PROVE  Settled(nm2, c2, Append(fs, g), sc, a2) /\ Targets(nm2, c2, Append(fs, g))
<1> DEFINE k == Len(fs)
           fs2 == Append(fs, g)
<1>1. /\ k \in Nat /\ k <= Len(fs) /\ Len(fs) <= k + 1 /\ fs \in Seq(Frames) /\ sc \in Seq(Nat)
      /\ Len(fs) # k + 1 /\ Len(fs) = k /\ 1 .. k = DOMAIN fs
      /\ c \in 0 .. Len(nm) /\ nm \in Seq(Seq(Nat))
  BY DEF Scene
<1>2. /\ fs2 \in Seq(Frames) /\ Len(fs2) = k + 1 /\ k <= Len(fs2) /\ Len(fs2) <= k + 1
      /\ fs2[k + 1] = g /\ (\A i \in 1 .. k : fs2[i] = fs[i]) /\ k + 1 \in DOMAIN fs2
      /\ Len(fs2) # k
  BY <1>1
<1> HIDE DEF k, fs2
<1>3. Discipline(fs, a)
  BY DEF Settled
<1>4. \A i \in 1 .. k : fs[i].k \in Body
  BY <1>1, <1>3, Disciplined
<1>5. c \in DOMAIN nm /\ c # c2
  BY <1>1 DEF NoBlock
<1>6. Begins(Up(fs, sc, k), Up(fs2, sc, k)) /\ Begins(sc, sc)
  <2>1. Up(fs, sc, k) = sc /\ Up(fs2, sc, k) = sc
    BY <1>1, <1>2 DEF Up
  <2> QED
    BY <1>1, <2>1, BeginsItself
<1>7. g.k \notin {"then", "tfirst"} /\ g.k \notin {"tfirst", "tsecond"} /\ g.k \notin Expr
      /\ g.k # "compound" /\ (g.k \in Body <=> g.k # "while")
  BY DEF Expr, Body
<1>8. nm2 \in Seq(Seq(Nat)) /\ Len(nm) <= Len(nm2) /\ \A b \in DOMAIN nm : nm2[b] = nm[b]
  BY DEF More
<1>9. Move(nm, c, fs, sc, k, nm2, c2, fs2, sc)
  BY <1>1, <1>2, <1>4, <1>5, <1>6, <1>7, <1>8 DEF Move
<1>10. Settled(nm2, c2, fs2, sc, a2) /\ Targets(nm2, c2, fs2)
  BY <1>2, <1>4, <1>7, <1>9, MoveSettled
<1> QED
  BY <1>10 DEF fs2

\* The call f goes on with its next part g, in another block.
Turns(nm, c, f, sc, nm2, c2, g, sc2, a2) ==
  /\ c2 # NoBlock /\ c2 # c /\ (c2 \notin DOMAIN nm \/ c2 \in Pending(f))
  /\ g.scope = f.scope /\ (f.k \in Expr <=> g.k \in Expr)
  /\ g.k \in {"then", "else", "wbody", "docond", "tfirst", "tsecond"}
  /\ g.k \in Expr => c # NoBlock /\ nm2[c2] = nm[c] /\ sc2 = sc
  /\ \A b \in Pending(g) : (b = c /\ f.k \in Forking) \/ b \notin DOMAIN nm \/ b \in Pending(f)
  /\ c2 \notin Fixed(g) /\ (g.k \in {"then", "tfirst"} => g.ctx # g.oth)
  /\ Knows(nm2, g, sc2) /\ (g.k \notin Body => g.scope = sc2)
  /\ g.k \in {"tfirst", "tsecond"} => \A b \in Fixed(g) : nm2[b] = nm2[c2]
  /\ g.k \notin Expr => Begins(sc2, nm2[c2])
  /\ g.k \in {"then", "else", "wbody"} => nm2[c2] = sc2
  /\ a2 \in Between <=> g.k \in Body

LEMMA TurnScopes ==
  ASSUME NEW nm, NEW c, NEW fs, NEW sc, NEW a,
         Scene(nm, c, fs, sc), Settled(nm, c, fs, sc, a), Targets(nm, c, fs),
         NEW nm2, More(nm, nm2), fs # <<>>, NEW c2 \in 0 .. Len(nm2), NEW f, f = fs[Len(fs)],
         NEW sc2 \in Seq(Nat), NEW g \in Frames, FrameOK(Len(nm2), g),
         NEW a2, Turns(nm, c, f, sc, nm2, c2, g, sc2, a2)
  PROVE  LET fs2 == Append(SubSeq(fs, 1, Len(fs) - 1), g)
         IN Settled(nm2, c2, fs2, sc2, a2) /\ Targets(nm2, c2, fs2)
<1> DEFINE k == Len(fs) - 1
           below == SubSeq(fs, 1, k)
           fs2 == Append(below, g)
<1>0. fs \in Seq(Frames) /\ sc \in Seq(Nat) /\ nm \in Seq(Seq(Nat)) /\ c \in 0 .. Len(nm)
  BY DEF Scene
<1>a. /\ c2 # NoBlock /\ c2 # c /\ (c2 \notin DOMAIN nm \/ c2 \in Pending(f))
      /\ g.scope = f.scope /\ (f.k \in Expr <=> g.k \in Expr)
      /\ g.k \in {"then", "else", "wbody", "docond", "tfirst", "tsecond"}
      /\ g.k \in Expr => c # NoBlock /\ nm2[c2] = nm[c] /\ sc2 = sc
      /\ \A b \in Pending(g) : (b = c /\ f.k \in Forking) \/ b \notin DOMAIN nm \/ b \in Pending(f)
      /\ c2 \notin Fixed(g) /\ (g.k \in {"then", "tfirst"} => g.ctx # g.oth)
      /\ Knows(nm2, g, sc2) /\ (g.k \notin Body => g.scope = sc2)
      /\ g.k \in {"tfirst", "tsecond"} => \A b \in Fixed(g) : nm2[b] = nm2[c2]
      /\ g.k \notin Expr => Begins(sc2, nm2[c2])
      /\ g.k \in {"then", "else", "wbody"} => nm2[c2] = sc2
      /\ a2 \in Between <=> g.k \in Body
  BY DEF Turns
<1>1. /\ k \in Nat /\ k <= Len(fs) /\ Len(fs) <= k + 1 /\ Len(fs) = k + 1 /\ Len(fs) # k
      /\ k + 1 \in DOMAIN fs /\ f \in Frames /\ fs[k + 1] = f
      /\ below \in Seq(Frames) /\ Len(below) = k
      /\ \A i \in 1 .. k : below[i] = fs[i] /\ i \in DOMAIN fs
      /\ \A i \in DOMAIN fs : i \in 1 .. k \/ i = k + 1
  BY <1>0, BelowFacts
<1>2. Len(fs) - 1 = k
  OBVIOUS
<1>3. /\ fs2 \in Seq(Frames) /\ Len(fs2) = k + 1 /\ k <= Len(fs2) /\ Len(fs2) <= k + 1
      /\ fs2[k + 1] = g /\ k + 1 \in DOMAIN fs2 /\ Len(fs2) # k
      /\ \A i \in 1 .. k : fs2[i] = fs[i] /\ i \in DOMAIN fs2
  <2> HIDE DEF below, k
  <2> QED
    BY <1>1
<1> HIDE DEF k, below, fs2
<1>4. Discipline(fs, a) /\ Known(nm, c, fs, sc)
  BY DEF Settled
<1>5. IF f.k \in Expr THEN k > 0 /\ fs[k].k \notin Body ELSE \A i \in 1 .. k : fs[i].k \in Body
  <2>1. /\ f.k \notin Expr => \A i \in 1 .. Len(fs) - 1 : fs[i].k \in Body
        /\ f.k \in Expr => Len(fs) > 1 /\ fs[Len(fs) - 1].k \notin Body
    BY <1>0, <1>1, <1>4, Disciplined
  <2>2. Len(fs) > 1 => k > 0
    BY <1>1
  <2> QED
    BY <1>2, <2>1, <2>2
<1>6. f.scope \in Seq(Nat) /\ Up(fs, sc, k) = f.scope /\ Up(fs2, sc2, k) = f.scope
  <2>1. f.scope \in Seq(Nat)
    BY <1>1 DEF Frames
  <2> QED
    BY <1>1, <1>3, <1>a, <2>1 DEF Up
<1>7. Begins(Up(fs, sc, k), Up(fs2, sc2, k))
  BY <1>6, BeginsItself
<1>8. g.k \in Forking /\ g.k # "do" /\ g.k # "compound"
  BY <1>a DEF Forking
<1>9. Begins(sc2, nm2[c2]) /\ ((\A i \in DOMAIN fs2 : fs2[i].k # "docond") => nm2[c2] = sc2)
  <2>1. CASE g.k \in Expr
    <3>1. f.k # "docond"
      BY <1>a, <2>1 DEF Expr
    <3>2. (\A i \in DOMAIN fs2 : fs2[i].k # "docond") => \A i \in DOMAIN fs : fs[i].k # "docond"
      BY <1>1, <1>3, <3>1
    <3> QED
      BY <1>a, <1>4, <2>1, <3>2 DEF Known
  <2>2. CASE g.k \notin Expr
    <3>1. g.k \in {"then", "else", "wbody"} \/ g.k = "docond"
      BY <1>a, <2>2 DEF Expr
    <3> QED
      BY <1>a, <1>3, <2>2, <3>1
  <2> QED
    BY <2>1, <2>2
<1>10. nm2 \in Seq(Seq(Nat)) /\ Len(nm) <= Len(nm2) /\ \A b \in DOMAIN nm : nm2[b] = nm[b]
  BY DEF More
<1>11. \/ \A i \in 1 .. k : fs[i].k \in Body
       \/ c # NoBlock /\ c2 # NoBlock /\ nm2[c2] = nm[c] /\ sc2 = sc
  BY <1>a, <1>5
<1>12. Move(nm, c, fs, sc, k, nm2, c2, fs2, sc2)
  BY <1>a, <1>1, <1>3, <1>7, <1>8, <1>9, <1>10, <1>11 DEF Move
<1>13. /\ fs2[k + 1].k \in Expr => k > 0 /\ fs[k].k \notin Body
       /\ fs2[k + 1].k \notin Expr => \A i \in 1 .. k : fs[i].k \in Body
       /\ a2 \in Between <=> fs2[k + 1].k \in Body
  BY <1>a, <1>3, <1>5
<1>14. ~(fs2[k + 1].k = "compound") /\ Len(fs2) # k /\ Len(fs2) = k + 1
  BY <1>3, <1>8
<1>15. Settled(nm2, c2, fs2, sc2, a2) /\ Targets(nm2, c2, fs2)
  BY <1>12, <1>13, <1>14, MoveSettled
<1> QED
  BY <1>15 DEF fs2, below, k

-----------------------------------------------------------------------------
(* The lists of the blocks there are.                                      *)

LEMMA ListsType ==
  ASSUME NEW bs \in Seq(Block)
  PROVE  /\ Lists(bs) \in Seq(Seq(Nat)) /\ Len(Lists(bs)) = Len(bs)
         /\ DOMAIN Lists(bs) = DOMAIN bs
         /\ \A b \in DOMAIN bs : Lists(bs)[b] = Names(bs[b].syms)
         /\ \A b \in DOMAIN bs : /\ Names(bs[b].syms) \in Seq(Nat)
                                 /\ Len(Names(bs[b].syms)) = Len(bs[b].syms)
                                 /\ DOMAIN Names(bs[b].syms) = DOMAIN bs[b].syms
<1>1. ASSUME NEW b \in DOMAIN bs
      PROVE  /\ Names(bs[b].syms) \in Seq(Nat)
             /\ Len(Names(bs[b].syms)) = Len(bs[b].syms)
             /\ DOMAIN Names(bs[b].syms) = DOMAIN bs[b].syms
  <2> DEFINE s == bs[b].syms
             f == Names(s)
  <2>1. bs[b] \in Block
    OBVIOUS
  <2>2. s \in Seq(Entry)
    BY <2>1 DEF Block
  <2> HIDE DEF s
  <2>3. DOMAIN s = 1 .. Len(s) /\ Len(s) \in Nat /\ \A q \in 1 .. Len(s) : s[q].s \in Nat
    <3>1. DOMAIN s = 1 .. Len(s) /\ Len(s) \in Nat /\ \A q \in 1 .. Len(s) : s[q] \in Entry
      BY <2>2
    <3> QED
      BY <3>1 DEF Entry
  <2>4. f \in [1 .. Len(s) -> Nat]
    BY <2>3 DEF Names
  <2>5. f \in Seq(Nat) /\ Len(f) = Len(s)
    BY <2>3, <2>4, FunSeq
  <2>6. DOMAIN f = DOMAIN s
    BY DEF Names
  <2> QED
    BY <2>5, <2>6 DEF s
<1> DEFINE l == Lists(bs)
<1>2. l \in [1 .. Len(bs) -> Seq(Nat)]
  <2>1. DOMAIN bs = 1 .. Len(bs)
    OBVIOUS
  <2> QED
    BY <1>1, <2>1 DEF Lists
<1>3. l \in Seq(Seq(Nat)) /\ Len(l) = Len(bs)
  <2>1. Len(bs) \in Nat
    OBVIOUS
  <2> HIDE DEF l
  <2> QED
    BY <1>2, <2>1, FunSeq
<1>4. DOMAIN l = DOMAIN bs /\ \A b \in DOMAIN bs : l[b] = Names(bs[b].syms)
  BY DEF Lists
<1> QED
  BY <1>1, <1>3, <1>4

LEMMA SceneIs ==
  ASSUME NEW bs, NEW c, NEW fs, NEW a, NEW h, Ready(bs, c, fs, a, h), NEW sc \in Seq(Nat)
  PROVE  Scene(Lists(bs), c, fs, sc)
<1>1. /\ bs \in Seq(Block) /\ c \in 0 .. Len(bs) /\ fs \in Seq(Frames)
      /\ \A i \in DOMAIN fs : FrameOK(Len(bs), fs[i])
      /\ \A i \in DOMAIN fs : c \notin Pending(fs[i])
      /\ \A i, j \in DOMAIN fs : i # j => Pending(fs[i]) \cap Pending(fs[j]) = {}
  BY DEF Ready, Shape
<1>2. Lists(bs) \in Seq(Seq(Nat)) /\ Len(Lists(bs)) = Len(bs)
  BY <1>1, ListsType
<1> QED
  BY <1>1, <1>2 DEF Scene

\* The block a call returns to has no symbols yet.
Idle(nm, fs) == \A i \in DOMAIN fs : fs[i].k = "call" => nm[fs[i].oth] = <<>>

LEMMA MoreIdle ==
  ASSUME NEW nm, NEW c, NEW fs, NEW sc, Scene(nm, c, fs, sc), Idle(nm, fs),
         NEW nm2, More(nm, nm2), NEW fs2,
         \A i \in DOMAIN fs2 : \/ i \in DOMAIN fs /\ fs2[i] = fs[i]
                               \/ fs2[i].k # "call"
                               \/ nm2[fs2[i].oth] = <<>>
  PROVE  Idle(nm2, fs2)
<1>1. \A i \in DOMAIN fs : fs[i].k = "call" => fs[i].oth \in DOMAIN nm
  BY DEF Scene, FrameOK
<1> QED
  BY <1>1 DEF Idle, More

LEMMA IdleBetween ==
  ASSUME NEW fs \in Seq(Frames), NEW a \in Between, Discipline(fs, a), NEW nm
  PROVE  Idle(nm, fs)
<1>1. \A i \in DOMAIN fs : fs[i].k \in Body
  BY Disciplined
<1> QED
  BY <1>1 DEF Idle, Body

\* The state's lists fit its calls.
Good == /\ Settled(Lists(blocks), cur, frames, scope, at)
        /\ Targets(Lists(blocks), cur, frames)
        /\ Idle(Lists(blocks), frames)

LEMMA BetweenGood ==
  ASSUME Settled(Lists(blocks'), cur', frames', scope', at'), frames' \in Seq(Frames),
         at' \in Between
  PROVE  Good'
BY TargetsBetween, IdleBetween DEF Settled, Good

\* loop_trigger at the end of a statement.
LEMMA DoneScopes ==
  ASSUME NEW fs \in Seq(Frames), NEW c, NEW bs \in Seq(Block), Done(fs, c, bs),
         NEW sc \in Seq(Nat), scope' = sc, c \in 0 .. Len(bs),
         \A i \in DOMAIN fs : FrameOK(Len(bs), fs[i]),
         Settled(Lists(bs), c, fs, sc, "stmt")
  PROVE  Good'
<1> DEFINE nm == Lists(bs)
<1>1. nm \in Seq(Seq(Nat)) /\ Len(nm) = Len(bs)
  BY ListsType
<1> HIDE DEF nm
<1>2. cur' = c /\ at' = "stmt" /\ blocks' = bs
  BY DEF Done, Produce
<1>3. Settled(nm, c, frames', sc, "stmt") /\ frames' \in Seq(Frames)
  <2>1. CASE fs # <<>> /\ fs[Len(fs)].k = "do" /\ c # NoBlock
    <3> DEFINE f == fs[Len(fs)]
               g == LoopTrigger(f, c)
    <3>1. c \in 1 .. Len(nm) /\ Len(fs) \in DOMAIN fs /\ f \in Frames /\ Len(nm) \in Nat
      BY <1>1, <2>1 DEF NoBlock
    <3>2. FrameOK(Len(nm), f) /\ f.k = "do"
      BY <1>1, <2>1, <3>1
    <3>3. frames' = [fs EXCEPT ![Len(fs)] = g]
      BY <2>1 DEF Done
    <3>4. Settled(nm, c, fs, sc, "stmt")
      BY DEF nm
    <3>5. g \in Frames
      <4> HIDE DEF f
      <4> QED
        BY <3>1, <3>2, TriggerFrame
    <3>6. Settled(nm, c, frames', sc, "stmt")
      BY <1>1, <2>1, <3>1, <3>2, <3>3, <3>4, TriggerScopes
    <3> HIDE DEF g, f
    <3>7. frames' \in Seq(Frames)
      BY <3>3, <3>5, ExceptAnywhere
    <3> QED
      BY <3>6, <3>7
  <2>2. CASE ~(fs # <<>> /\ fs[Len(fs)].k = "do" /\ c # NoBlock)
    <3>1. frames' = fs
      BY <2>2 DEF Done
    <3> QED
      BY <3>1 DEF nm
  <2> QED
    BY <2>1, <2>2
<1>4. "stmt" \in Between
  BY DEF Between
<1> QED
  BY <1>2, <1>3, <1>4, BetweenGood DEF nm

-----------------------------------------------------------------------------
(* What the operations on a block leave alone.                             *)

Fields == {"par", "syms", "stack", "accRet", "hasRet", "retIns", "code", "tail", "final", "made"}

\* x is the block b with other contents: the same names, and a value for each
\* that had one.
Kin(x, b) ==
  /\ DOMAIN x = DOMAIN b
  /\ Names(x.syms) = Names(b.syms) /\ With(b.syms) \subseteq With(x.syms)
  /\ x.par = b.par /\ x.accRet = b.accRet /\ x.hasRet = b.hasRet /\ x.made = b.made

LEMMA BlockFielded ==
  ASSUME NEW b \in Block
  PROVE  Fields = DOMAIN b
BY DEF Block, Fields

LEMMA KinItself ==
  ASSUME NEW b
  PROVE  Kin(b, b)
BY DEF Kin

LEMMA KinTrans ==
  ASSUME NEW x, NEW y, NEW z, Kin(x, y), Kin(y, z)
  PROVE  Kin(x, z)
BY DEF Kin

LEMMA HoldsNames ==
  ASSUME NEW b, NEW s
  PROVE  Holds(b, s) <=> \E q \in DOMAIN Names(b.syms) : Names(b.syms)[q] = s
BY DEF Holds, Names

LEMMA KinHolds ==
  ASSUME NEW x, NEW y, NEW s, Kin(x, y), Holds(y, s)
  PROVE  Holds(x, s)
BY HoldsNames DEF Kin

LEMMA EmitKin ==
  ASSUME NEW b, Fields = DOMAIN b, NEW op, NEW args
  PROVE  Kin(Emit(b, op, args), b)
<1> DEFINE x == Emit(b, op, args)
<1>1. DOMAIN x = DOMAIN b /\ x.syms = b.syms /\ x.par = b.par /\ x.accRet = b.accRet
      /\ x.hasRet = b.hasRet /\ x.made = b.made
  BY DEF Emit, Fields
<1> QED
  BY <1>1 DEF Kin

LEMMA MirrorKin ==
  ASSUME NEW b, Fields = DOMAIN b, NEW src
  PROVE  Kin(Mirror(b, src), b)
BY EmitKin DEF Mirror

LEMMA BlockrefKin ==
  ASSUME NEW b, Fields = DOMAIN b, NEW d
  PROVE  Kin(AddBlockref(b, d), b)
<1> DEFINE x == AddBlockref(b, d)
<1>1. DOMAIN x = DOMAIN b /\ x.syms = b.syms /\ x.par = b.par /\ x.accRet = b.accRet
      /\ x.hasRet = b.hasRet /\ x.made = b.made
  BY DEF AddBlockref, Fields
<1> QED
  BY <1>1 DEF Kin

LEMMA TailKin ==
  ASSUME NEW b, Fields = DOMAIN b, NEW t
  PROVE  Kin([b EXCEPT !.tail = t], b)
<1> DEFINE x == [b EXCEPT !.tail = t]
<1>1. DOMAIN x = DOMAIN b /\ x.syms = b.syms /\ x.par = b.par /\ x.accRet = b.accRet
      /\ x.hasRet = b.hasRet /\ x.made = b.made
  BY DEF Fields
<1> QED
  BY <1>1 DEF Kin

LEMMA StackKin ==
  ASSUME NEW b, Fields = DOMAIN b
  PROVE  /\ Kin(PushStack(b), b)
         /\ \A n : Kin(PopStack(b, n), b)
<1> DEFINE x == PushStack(b)
<1>1. DOMAIN x = DOMAIN b /\ x.syms = b.syms /\ x.par = b.par /\ x.accRet = b.accRet
      /\ x.hasRet = b.hasRet /\ x.made = b.made
  BY DEF PushStack, PushFrom, Fields
<1>2. ASSUME NEW n
      PROVE  Kin(PopStack(b, n), b)
  <2> DEFINE y == PopStack(b, n)
  <2>1. DOMAIN y = DOMAIN b /\ y.syms = b.syms /\ y.par = b.par /\ y.accRet = b.accRet
        /\ y.hasRet = b.hasRet /\ y.made = b.made
    BY DEF PopStack, Fields
  <2> QED
    BY <2>1 DEF Kin
<1> QED
  BY <1>1, <1>2 DEF Kin

LEMMA SymbolKin ==
  ASSUME NEW b, Fields = DOMAIN b, NEW s, NEW ins, Holds(b, s)
  PROVE  Kin(SetSymbol(b, s, ins), b)
<1> DEFINE x == SetSymbol(b, s, ins)
           q == Find(b, s)
           e == [s |-> s, ex |-> TRUE, ins |-> ins]
<1>1. q \in DOMAIN b.syms /\ b.syms[q].s = s
  BY DEF Holds, Find
<1>2. e.s = s /\ e.ex
  OBVIOUS
<1> HIDE DEF q, e
<1>3. x = [b EXCEPT !.syms[q] = e]
  BY DEF SetSymbol, q, e
<1>4. DOMAIN x = DOMAIN b /\ x.syms = [b.syms EXCEPT ![q] = e] /\ x.par = b.par
      /\ x.accRet = b.accRet /\ x.hasRet = b.hasRet /\ x.made = b.made
  BY <1>3 DEF Fields
<1>5. Names(x.syms) = Names(b.syms) /\ With(b.syms) \subseteq With(x.syms)
  <2> DEFINE y == b.syms
             z == [y EXCEPT ![q] = e]
  <2>1. DOMAIN z = DOMAIN y /\ z[q] = e /\ \A p \in DOMAIN y : p # q => z[p] = y[p]
    BY <1>1
  <2>2. x.syms = z
    BY <1>4
  <2> HIDE DEF z, y
  <2>3. \A p \in DOMAIN y : z[p].s = y[p].s /\ (y[p].ex => z[p].ex)
    BY <1>1, <1>2, <2>1 DEF y
  <2>4. Names(z) = Names(y) /\ With(y) \subseteq With(z)
    BY <2>1, <2>3 DEF Names, With
  <2> QED
    BY <2>2, <2>4 DEF y
<1> QED
  BY <1>4, <1>5 DEF Kin

LEMMA KinFields ==
  ASSUME NEW x, NEW b, Fields = DOMAIN b, Kin(x, b)
  PROVE  Fields = DOMAIN x
BY DEF Kin

LEMMA ComputeKin ==
  ASSUME NEW b, Fields = DOMAIN b
  PROVE  Kin(Compute(b), b)
<1>1. Kin(PopStack(b, 1), b) /\ Fields = DOMAIN PopStack(b, 1)
  BY StackKin, KinFields
<1>2. Kin(Compute(b), PopStack(b, 1))
  BY <1>1, EmitKin DEF Compute
<1> QED
  BY <1>1, <1>2, KinTrans

LEMMA StoreKin ==
  ASSUME NEW b, Fields = DOMAIN b, NEW n
  PROVE  Kin(Store(b, n), b)
<1>1. \A m : Kin(PopStack(b, m), b) /\ Fields = DOMAIN PopStack(b, m)
  BY StackKin, KinFields
<1>2. \A m, op, args : Kin(Emit(PopStack(b, m), op, args), b)
                        /\ Fields = DOMAIN Emit(PopStack(b, m), op, args)
  <2>1. ASSUME NEW m, NEW op, NEW args
        PROVE  Kin(Emit(PopStack(b, m), op, args), b)
    BY <1>1, EmitKin, KinTrans
  <2> QED
    BY <2>1, KinFields
<1>3. \A m, op, args, src : Kin(Mirror(Emit(PopStack(b, m), op, args), src), b)
  <2>1. ASSUME NEW m, NEW op, NEW args, NEW src
        PROVE  Kin(Mirror(Emit(PopStack(b, m), op, args), src), b)
    <3>1. Kin(Mirror(Emit(PopStack(b, m), op, args), src), Emit(PopStack(b, m), op, args))
      BY <1>2, MirrorKin
    <3> QED
      BY <1>2, <3>1, KinTrans
  <2> QED
    BY <2>1
<1> QED
  BY <1>3 DEF Store

LEMMA LoadKin ==
  ASSUME NEW b, Fields = DOMAIN b, NEW n
  PROVE  Kin(Load(b, n), b)
<1> DEFINE t == PushStack(b)
           e == Emit(t, "get", [i \in 1 .. n |-> t.stack[n + 1 - i]])
<1>1. Kin(t, b) /\ Fields = DOMAIN t
  BY StackKin, KinFields
<1> HIDE DEF t
<1>2. Kin(e, b) /\ Fields = DOMAIN e
  BY <1>1, EmitKin, KinTrans, KinFields
<1>3. Load(b, n) = PushStack(e)
  BY DEF Load, t
<1> HIDE DEF e
<1> QED
  BY <1>2, <1>3, StackKin, KinTrans

LEMMA RestoreKin ==
  ASSUME NEW b, Fields = DOMAIN b, NEW n
  PROVE  Kin(Restore(b, n), b)
<1> DEFINE new == Compute(b)
           args == [i \in 1 .. n |-> new.stack[n + 1 - i]] \o <<LastInstruction(new)>>
           op == IF n = 1 THEN "put" ELSE "setindex"
           y == PopStack(new, n)
<1>1. Kin(new, b) /\ Fields = DOMAIN new
  BY ComputeKin, KinFields
<1>2. Restore(b, n) = Emit(y, op, args)
  BY DEF Restore
<1> HIDE DEF new, args, op
<1>3. Kin(y, b) /\ Fields = DOMAIN y
  BY <1>1, StackKin, KinTrans, KinFields
<1> HIDE DEF y
<1> QED
  BY <1>2, <1>3, EmitKin, KinTrans

=============================================================================
