-------------------------- MODULE GenerateOperands --------------------------
(***************************************************************************)
(* What the instructions use, for programs of any size: OperandsEarlier.     *)
(*                                                                         *)
(* Operands are earlier as long as every block has numbers for what is in   *)
(* its symbols, on its stack and in its return struct (Located), and has as *)
(* many of them as there are such things (Room): a child takes one parameter *)
(* for each, which must not reach past what its parents have.  An expression *)
(* leaves one more number than that, its value (Ordered).                   *)
(***************************************************************************)
EXTENDS GenerateArguments

-----------------------------------------------------------------------------
(* The order of the instructions: the inductive invariant.                  *)

\* The parameters and instructions a block has so far.
Numbers(b) == 0 .. LastInstruction(b)

\* Each instruction uses only what comes before it.
Backward(b) ==
  \A i \in DOMAIN b.code : \A k \in DOMAIN b.code[i].args :
    b.code[i].args[k] \in 0 .. ParamCount(b) + i - 2

\* The stack, the symbols and the return struct are in the block.
Located(b) ==
  /\ \A i \in DOMAIN b.stack : b.stack[i] \in Numbers(b)
  /\ \A q \in DOMAIN b.syms : b.syms[q].ex /\ b.syms[q].ins \in Numbers(b)
  /\ b.hasRet => b.retIns \in Numbers(b)

\* There are instructions for all of those and n more.
Used(b) == One(b.hasRet) + Len(b.syms) + Len(b.stack)
Room(b, n) == Used(b) + n <= NextInstruction(b)

Fine(b, n) == Backward(b) /\ Located(b) /\ Room(b, n)

\* A tail names instructions of its block.
Terminated(b) ==
  b.tail.type # "open" =>
    /\ {b.tail.first, b.tail.second, b.tail.cond} \subseteq Numbers(b)
    /\ b.tail.inject = "ok" => \A k \in DOMAIN b.tail.args : b.tail.args[k] \in Numbers(b)
    /\ b.tail.type \in {"call", "return"} => b.tail.live = {}

Orderly(bs) == \A b \in DOMAIN bs : Fine(bs[b], 0) /\ Terminated(bs[b])

\* The block an invocation returns to has nothing in it before.
Blank(b) == \E m \in {1, 2} : b = [EmptyBlock EXCEPT !.par.extra = m]

\* The first branch of a conditional expression waits with its value, and a call
\* with the block it returns to.
Holding(bs, f) ==
  /\ f.k # "instanceof"
  /\ f.k = "tsecond" => Fine(bs[f.oth], 1)
  /\ f.k = "call" => Blank(bs[f.oth])

\* An expression leaves its value as an instruction that is in no symbol and
\* on no stack.
Ordered(bs, c, fs, a) ==
  /\ Orderly(bs)
  /\ \A i \in DOMAIN fs : Holding(bs, fs[i])
  /\ a = "value" => Fine(bs[c], 1)

-----------------------------------------------------------------------------
(* One block.                                                              *)

LEMMA BlockParts ==
  ASSUME NEW b \in Block
  PROVE  /\ ParamCount(b) \in Nat /\ NextInstruction(b) \in Nat
         /\ NextInstruction(b) = ParamCount(b) + Len(b.code)
         /\ LastInstruction(b) = NextInstruction(b) - 1
         /\ Numbers(b) = 0 .. NextInstruction(b) - 1
         /\ Len(b.code) \in Nat /\ Len(b.syms) \in Nat /\ Len(b.stack) \in Nat
         /\ b.code \in Seq(Instruction) /\ b.syms \in Seq(Entry) /\ b.stack \in Seq(Int)
         /\ DOMAIN b.code = 1 .. Len(b.code) /\ DOMAIN b.syms = 1 .. Len(b.syms)
         /\ DOMAIN b.stack = 1 .. Len(b.stack)
         /\ One(b.hasRet) \in {0, 1} /\ b.hasRet \in BOOLEAN
         /\ Used(b) \in Nat /\ Len(b.stack) <= Used(b) /\ Len(b.syms) <= Used(b)
         /\ One(b.hasRet) + Len(b.stack) + Len(b.syms) = Used(b)
<1>1. b.code \in Seq(Instruction) /\ b.syms \in Seq(Entry) /\ b.stack \in Seq(Int)
      /\ b.hasRet \in BOOLEAN
  BY DEF Block
<1>2. ParamCount(b) \in Nat /\ NextInstruction(b) \in Nat
  BY ParamCountNat
<1>3. One(b.hasRet) \in {0, 1}
  BY DEF One
<1>4. NextInstruction(b) = ParamCount(b) + Len(b.code) /\ LastInstruction(b) = NextInstruction(b) - 1
  BY DEF NextInstruction, LastInstruction
<1>5. Numbers(b) = 0 .. NextInstruction(b) - 1
  BY <1>4 DEF Numbers
<1> DEFINE r == One(b.hasRet)
           y == Len(b.syms)
           t == Len(b.stack)
<1>6. r \in {0, 1} /\ y \in Nat /\ t \in Nat /\ Used(b) = r + y + t
  BY <1>1, <1>3 DEF Used
<1>7. Used(b) \in Nat /\ t <= Used(b) /\ y <= Used(b) /\ r + t + y = Used(b)
  <2> HIDE DEF r, y, t
  <2> QED
    BY <1>6
<1> QED
  BY <1>1, <1>2, <1>3, <1>4, <1>5, <1>7

LEMMA FineLess ==
  ASSUME NEW b \in Block, NEW n \in Nat, Fine(b, n), NEW m \in Nat, m <= n
  PROVE  Fine(b, m)
<1>1. Room(b, m)
  BY BlockParts DEF Fine, Room
<1> QED
  BY <1>1 DEF Fine

\* A block with room for something has an instruction or a parameter.
LEMMA FineLast ==
  ASSUME NEW b \in Block, NEW n \in Nat, Fine(b, n), n + Len(b.stack) >= 1
  PROVE  /\ LastInstruction(b) \in Numbers(b) /\ 0 \in Numbers(b)
         /\ n + Len(b.stack) >= 2 => LastInstruction(b) - 1 \in Numbers(b)
<1>1. /\ NextInstruction(b) \in Nat /\ Used(b) \in Nat /\ Len(b.stack) \in Nat
      /\ Len(b.stack) <= Used(b)
      /\ LastInstruction(b) = NextInstruction(b) - 1 /\ Numbers(b) = 0 .. NextInstruction(b) - 1
  BY BlockParts
<1>2. Used(b) + n <= NextInstruction(b)
  BY DEF Fine, Room
<1> QED
  BY <1>1, <1>2

\* x has the instructions of b, and more.
Extending(x, b) ==
  /\ x.par = b.par /\ x.syms = b.syms /\ x.stack = b.stack /\ x.hasRet = b.hasRet
  /\ x.retIns = b.retIns
  /\ \A i \in DOMAIN b.code : x.code[i] = b.code[i]
  /\ \A i \in Len(b.code) + 1 .. Len(x.code) : \A k \in DOMAIN x.code[i].args :
       x.code[i].args[k] \in 0 .. ParamCount(b) + i - 2

LEMMA FineCode ==
  ASSUME NEW b \in Block, NEW x \in Block, NEW n \in Nat, Fine(b, n), NEW m \in Nat,
         Extending(x, b), Len(x.code) = Len(b.code) + m
  PROVE  /\ Fine(x, n + m) /\ NextInstruction(x) = NextInstruction(b) + m
         /\ ParamCount(x) = ParamCount(b) /\ Numbers(b) \subseteq Numbers(x)
<1>1. ParamCount(x) = ParamCount(b)
  BY DEF ParamCount, Extending
<1>2. /\ NextInstruction(x) = NextInstruction(b) + m /\ NextInstruction(b) \in Nat
      /\ Numbers(b) = 0 .. NextInstruction(b) - 1 /\ Numbers(x) = 0 .. NextInstruction(x) - 1
      /\ Len(b.code) \in Nat /\ DOMAIN b.code = 1 .. Len(b.code)
      /\ Len(x.code) \in Nat /\ DOMAIN x.code = 1 .. Len(x.code)
      /\ Used(b) \in Nat
  <2>1. /\ NextInstruction(x) = ParamCount(x) + Len(x.code)
        /\ NextInstruction(b) = ParamCount(b) + Len(b.code)
        /\ ParamCount(b) \in Nat /\ Len(b.code) \in Nat
    BY BlockParts, Zenon
  <2>2. NextInstruction(x) = NextInstruction(b) + m
    BY <1>1, <2>1
  <2> QED
    BY <2>2, BlockParts, Zenon
<1>3. Numbers(b) \subseteq Numbers(x)
  BY <1>2
<1>4. Backward(x)
  <2> SUFFICES ASSUME NEW i \in DOMAIN x.code, NEW k \in DOMAIN x.code[i].args
               PROVE  x.code[i].args[k] \in 0 .. ParamCount(x) + i - 2
    BY DEF Backward
  <2>1. i \in DOMAIN b.code \/ i \in Len(b.code) + 1 .. Len(x.code)
    BY <1>2
  <2>2. CASE i \in DOMAIN b.code
    BY <1>1, <2>2 DEF Fine, Backward, Extending
  <2> QED
    BY <1>1, <2>1, <2>2 DEF Extending
<1>5. Located(x)
  BY <1>3 DEF Fine, Located, Extending
<1>6. Room(x, n + m)
  <2>1. Used(b) + n <= NextInstruction(b) /\ Used(x) = Used(b)
    BY DEF Fine, Room, Used, Extending
  <2> QED
    BY <1>2, <2>1 DEF Room
<1> QED
  BY <1>1, <1>2, <1>3, <1>4, <1>5, <1>6 DEF Fine

\* x is b with other symbols, another stack or another return struct.
LEMMA FineData ==
  ASSUME NEW b \in Block, NEW x \in Block, Backward(b), NEW n, x.par = b.par, x.code = b.code,
         Located(x), Room(x, n)
  PROVE  /\ Fine(x, n) /\ NextInstruction(x) = NextInstruction(b)
         /\ LastInstruction(x) = LastInstruction(b)
         /\ ParamCount(x) = ParamCount(b) /\ Numbers(x) = Numbers(b)
<1>1. ParamCount(x) = ParamCount(b)
  BY DEF ParamCount
<1>2. NextInstruction(x) = NextInstruction(b)
  BY <1>1 DEF NextInstruction
<1>3. Backward(x)
  BY <1>1 DEF Backward
<1> QED
  BY <1>1, <1>2, <1>3 DEF Fine, Numbers, LastInstruction

\* x is b with one more instruction.
Longer(x, b) ==
  /\ x \in Block /\ x.tail = b.tail /\ x.stack = b.stack /\ x.syms = b.syms
  /\ x.hasRet = b.hasRet
  /\ NextInstruction(x) = NextInstruction(b) + 1 /\ Numbers(b) \subseteq Numbers(x)
  /\ LastInstruction(x) = NextInstruction(b) /\ LastInstruction(x) \in Numbers(x)
  /\ LastInstruction(b) = NextInstruction(b) - 1 /\ NextInstruction(b) \in Nat

LEMMA AppendFine ==
  ASSUME NEW b \in Block, NEW n \in Nat, Fine(b, n), NEW e \in Instruction,
         \A k \in DOMAIN e.args : e.args[k] \in Numbers(b),
         NEW x \in Block, x = [b EXCEPT !.code = Append(@, e)]
  PROVE  Fine(x, n + 1) /\ Longer(x, b)
<1>1. /\ x.par = b.par /\ x.syms = b.syms /\ x.stack = b.stack /\ x.hasRet = b.hasRet
      /\ x.retIns = b.retIns /\ x.tail = b.tail /\ x.code = Append(b.code, e)
  BY DEF Block
<1>2. /\ b.code \in Seq(Instruction) /\ Len(b.code) \in Nat /\ DOMAIN b.code = 1 .. Len(b.code)
      /\ NextInstruction(b) = ParamCount(b) + Len(b.code) /\ ParamCount(b) \in Nat
      /\ Numbers(b) = 0 .. NextInstruction(b) - 1 /\ NextInstruction(b) \in Nat
      /\ LastInstruction(b) = NextInstruction(b) - 1
  BY BlockParts
<1> DEFINE c == x.code
<1>3. /\ Len(c) = Len(b.code) + 1 /\ c[Len(b.code) + 1] = e
      /\ \A i \in DOMAIN b.code : c[i] = b.code[i]
  BY <1>1, <1>2
<1>4. ASSUME NEW i \in Len(b.code) + 1 .. Len(c), NEW k \in DOMAIN c[i].args
      PROVE  c[i].args[k] \in 0 .. ParamCount(b) + i - 2
  <2>1. i = Len(b.code) + 1
    BY <1>2, <1>3, <1>4
  <2>2. c[i] = e /\ ParamCount(b) + i - 2 = NextInstruction(b) - 1
    BY <1>2, <1>3, <2>1
  <2> QED
    BY <1>2, <1>4, <2>2, Zenon
<1>5. /\ Fine(x, n + 1) /\ NextInstruction(x) = NextInstruction(b) + 1
      /\ Numbers(b) \subseteq Numbers(x)
  <2> DEFINE m == 1
  <2>1. m \in Nat /\ Len(x.code) = Len(b.code) + m
    BY <1>3
  <2> HIDE DEF m
  <2>2. Extending(x, b)
    BY <1>1, <1>3, <1>4 DEF Extending
  <2>3. Fine(x, n + m) /\ NextInstruction(x) = NextInstruction(b) + m
    BY <2>1, <2>2, FineCode, Zenon
  <2>4. Numbers(x) = 0 .. NextInstruction(x) - 1
    BY BlockParts
  <2>5. Fine(x, n + 1) /\ NextInstruction(x) = NextInstruction(b) + 1
    BY <2>3 DEF m
  <2>6. NextInstruction(b) \in Nat /\ Numbers(b) = 0 .. NextInstruction(b) - 1
    BY <1>2
  <2>7. Numbers(b) \subseteq Numbers(x)
    BY <2>4, <2>5, <2>6
  <2> QED
    BY <2>5, <2>7, Zenon
<1>6. LastInstruction(x) = NextInstruction(x) - 1 /\ Numbers(x) = 0 .. NextInstruction(x) - 1
  BY BlockParts
<1>7. LastInstruction(x) = NextInstruction(b) /\ LastInstruction(x) \in Numbers(x)
  BY <1>2, <1>5, <1>6
<1> QED
  BY <1>1, <1>2, <1>5, <1>7, Zenon DEF Longer

LEMMA EmitFine ==
  ASSUME NEW b \in Block, NEW n \in Nat, Fine(b, n), NEW op \in Ops, NEW args \in Seq(Int),
         \A k \in DOMAIN args : args[k] \in Numbers(b)
  PROVE  Fine(Emit(b, op, args), n + 1) /\ Longer(Emit(b, op, args), b)
<1> DEFINE e == Instr(op, args, 0)
           x == Emit(b, op, args)
<1>1. e \in Instruction /\ e.args = args
  BY InstrType DEF Instr
<1>2. x \in Block /\ x = [b EXCEPT !.code = Append(@, e)]
  BY EmitBlock DEF Emit
<1> HIDE DEF e, x
<1>3. Fine(x, n + 1) /\ Longer(x, b)
  BY <1>1, <1>2, AppendFine, Zenon
<1> QED
  BY <1>3 DEF x

LEMMA RefFine ==
  ASSUME NEW b \in Block, NEW n \in Nat, Fine(b, n), NEW d \in Nat
  PROVE  Fine(AddBlockref(b, d), n + 1) /\ Longer(AddBlockref(b, d), b)
<1> DEFINE e == Instr("ref", <<>>, d)
           x == AddBlockref(b, d)
<1>1. e \in Instruction /\ e.args = <<>>
  <2>1. "ref" \in Ops /\ <<>> \in Seq(Int)
    BY DEF Ops
  <2> QED
    BY <2>1, InstrType, Zenon DEF Instr
<1>2. x \in Block /\ x = [b EXCEPT !.code = Append(@, e)]
  BY AddBlockrefBlock DEF AddBlockref
<1> HIDE DEF e, x
<1>3. Fine(x, n + 1) /\ Longer(x, b)
  BY <1>1, <1>2, AppendFine
<1> QED
  BY <1>3 DEF x

LEMMA MirrorFine ==
  ASSUME NEW b \in Block, NEW n \in Nat, Fine(b, n), NEW src \in Numbers(b)
  PROVE  Fine(Mirror(b, src), n + 1) /\ Longer(Mirror(b, src), b)
<1>1. "get" \in Ops /\ <<src>> \in Seq(Int) /\ \A k \in DOMAIN <<src>> : <<src>>[k] = src
  BY DEF Ops, Numbers
<1>2. \A k \in DOMAIN <<src>> : <<src>>[k] \in Numbers(b)
  BY <1>1
<1> QED
  BY <1>1, <1>2, EmitFine, Zenon DEF Mirror

\* x is b with another stack or other symbols.
Equal(x, b) ==
  /\ x \in Block /\ x.tail = b.tail /\ x.hasRet = b.hasRet
  /\ NextInstruction(x) = NextInstruction(b) /\ Numbers(x) = Numbers(b)
  /\ LastInstruction(x) = LastInstruction(b)

LEMMA PushFine ==
  ASSUME NEW b \in Block, NEW n \in Nat, Fine(b, n + 1)
  PROVE  LET x == PushStack(b)
         IN /\ Fine(x, n) /\ Equal(x, b) /\ x.syms = b.syms
            /\ x.stack[1] = LastInstruction(b) /\ Len(x.stack) = Len(b.stack) + 1
<1> DEFINE l == LastInstruction(b)
           x == PushStack(b)
           s == <<l>> \o b.stack
<1>1. l \in Numbers(b) /\ l \in Int
  <2>1. Len(b.stack) \in Nat
    BY BlockParts
  <2> DEFINE t == Len(b.stack)
  <2>2. n + 1 + t >= 1 /\ n + 1 \in Nat
    <3>1. t \in Nat
      BY <2>1
    <3> HIDE DEF t
    <3> QED
      BY <3>1
  <2> QED
    BY <2>2, FineLast DEF Numbers
<1>2. x \in Block /\ x = [b EXCEPT !.stack = s]
  BY <1>1, PushBlock DEF PushStack, PushFrom
<1>3. /\ x.par = b.par /\ x.code = b.code /\ x.syms = b.syms /\ x.hasRet = b.hasRet
      /\ x.retIns = b.retIns /\ x.tail = b.tail /\ x.stack = s
  BY <1>2, Zenon DEF Block
<1>4. b.stack \in Seq(Int) /\ Len(b.stack) \in Nat
  BY BlockParts
<1>5. /\ Len(s) = Len(b.stack) + 1 /\ s[1] = l
      /\ \A i \in DOMAIN s : s[i] = l \/ \E j \in DOMAIN b.stack : s[i] = b.stack[j]
  <2> HIDE DEF l
  <2>1. Len(s) = Len(b.stack) + 1 /\ s[1] = l /\ DOMAIN s = 1 .. Len(b.stack) + 1
    BY <1>1, <1>4
  <2>2. ASSUME NEW i \in DOMAIN s, i # 1
        PROVE  i - 1 \in DOMAIN b.stack /\ s[i] = b.stack[i - 1]
    BY <1>1, <1>4, <2>1, <2>2
  <2> QED
    BY <2>1, <2>2
<1> HIDE DEF x, s, l
<1>6. Used(x) = Used(b) + 1
  <2> DEFINE r == One(b.hasRet)
             y == Len(b.syms)
             t == Len(b.stack)
  <2>1. r \in {0, 1} /\ y \in Nat /\ t \in Nat /\ Used(b) = r + y + t
    BY BlockParts DEF Used
  <2>2. Used(x) = r + y + (t + 1)
    BY <1>3, <1>5 DEF Used
  <2> HIDE DEF r, y, t
  <2> QED
    BY <2>1, <2>2
<1>7. Numbers(x) = Numbers(b) /\ NextInstruction(x) = NextInstruction(b)
  BY <1>3 DEF Numbers, LastInstruction, NextInstruction, ParamCount
<1>8. Room(x, n)
  BY <1>6, <1>7, BlockParts DEF Fine, Room
<1>9. Located(x)
  BY <1>1, <1>3, <1>5, <1>7 DEF Fine, Located
<1>10. Fine(x, n) /\ LastInstruction(x) = LastInstruction(b)
  BY <1>2, <1>3, <1>8, <1>9, FineData, Zenon DEF Fine
<1> QED
  BY <1>2, <1>3, <1>5, <1>7, <1>10 DEF Equal, x, l

LEMMA PopFine ==
  ASSUME NEW b \in Block, NEW n \in Nat, Fine(b, n), NEW m \in Nat, m <= Len(b.stack)
  PROVE  LET x == PopStack(b, m)
         IN /\ Fine(x, n + m) /\ Equal(x, b) /\ x.syms = b.syms
            /\ Len(x.stack) = Len(b.stack) - m
<1> DEFINE x == PopStack(b, m)
           s == SubSeq(b.stack, m + 1, Len(b.stack))
<1>1. x \in Block /\ Len(x.stack) = Len(b.stack) - m
  BY PopBlock
<1>2. /\ x.par = b.par /\ x.code = b.code /\ x.syms = b.syms /\ x.hasRet = b.hasRet
      /\ x.retIns = b.retIns /\ x.tail = b.tail /\ x.stack = s
  BY Zenon DEF PopStack, Block
<1>3. b.stack \in Seq(Int) /\ Len(b.stack) \in Nat /\ DOMAIN b.stack = 1 .. Len(b.stack)
  BY BlockParts
<1>4. \A i \in DOMAIN s : i + m \in DOMAIN b.stack /\ s[i] = b.stack[i + m]
  <2> DEFINE t == b.stack
             k == Len(t)
  <2>1. t \in Seq(Int) /\ k \in Nat /\ DOMAIN t = 1 .. k /\ m <= k /\ s = SubSeq(t, m + 1, k)
    BY <1>3
  <2>2. DOMAIN s = 1 .. k - m /\ \A i \in 1 .. k - m : s[i] = t[i + m]
    <3> HIDE DEF t
    <3>1. DOMAIN s = 1 .. k - m
      BY <2>1
    <3>2. \A i \in 1 .. k - m : s[i] = t[i + m]
      BY <2>1
    <3> QED
      BY <3>1, <3>2, Zenon
  <2>3. \A i \in 1 .. k - m : i + m \in 1 .. k
    <3> HIDE DEF k
    <3> QED
      BY ONLY <2>1, m \in Nat
  <2> HIDE DEF s, k
  <2>4. \A i \in DOMAIN s : i + m \in DOMAIN b.stack
    BY <2>1, <2>2, <2>3, Zenon
  <2>5. \A i \in DOMAIN s : s[i] = b.stack[i + m]
    BY <2>2, Zenon
  <2> QED
    BY <2>4, <2>5, Zenon
<1> HIDE DEF x, s
<1>5. Used(x) = Used(b) - m
  <2> DEFINE r == One(b.hasRet)
             y == Len(b.syms)
             t == Len(b.stack)
  <2>1. r \in {0, 1} /\ y \in Nat /\ t \in Nat /\ Used(b) = r + y + t
    BY BlockParts DEF Used
  <2>2. Used(x) = r + y + (t - m)
    BY <1>1, <1>2 DEF Used
  <2> HIDE DEF r, y, t
  <2> QED
    BY <2>1, <2>2
<1>6. Numbers(x) = Numbers(b) /\ NextInstruction(x) = NextInstruction(b)
  BY <1>2 DEF Numbers, LastInstruction, NextInstruction, ParamCount
<1>7. Room(x, n + m)
  BY <1>5, <1>6, BlockParts DEF Fine, Room
<1>8. Located(x)
  BY <1>2, <1>4, <1>6 DEF Fine, Located
<1>9. Fine(x, n + m) /\ LastInstruction(x) = LastInstruction(b)
  BY <1>1, <1>2, <1>7, <1>8, FineData DEF Fine
<1> QED
  BY <1>1, <1>2, <1>6, <1>9 DEF Equal, x

LEMMA SetFine ==
  ASSUME NEW b \in Block, NEW n \in Nat, Fine(b, n), NEW s \in Nat, Holds(b, s),
         NEW ins \in Numbers(b)
  PROVE  LET x == SetSymbol(b, s, ins)
         IN Fine(x, n) /\ Equal(x, b) /\ x.stack = b.stack
<1> DEFINE x == SetSymbol(b, s, ins)
           q == Find(b, s)
           e == [s |-> s, ex |-> TRUE, ins |-> ins]
           y == b.syms
           z == [y EXCEPT ![q] = e]
<1>1. ins \in Int
  BY DEF Numbers
<1>2. x \in Block /\ x = [b EXCEPT !.syms = z]
  BY <1>1, SymbolBlock, Zenon DEF SetSymbol
<1>3. q \in DOMAIN y /\ e.ex /\ e.ins = ins
  BY DEF Holds, Find
<1>4. y \in Seq(Entry) /\ Len(y) \in Nat
  BY BlockParts
<1> HIDE DEF x, q, e
<1>5. Len(z) = Len(y) /\ DOMAIN z = DOMAIN y /\ \A p \in DOMAIN y : z[p] = e \/ z[p] = y[p]
  <2> HIDE DEF y
  <2> QED
    BY <1>3, <1>4
<1> HIDE DEF z
<1>6. /\ x.par = b.par /\ x.code = b.code /\ x.syms = z /\ x.hasRet = b.hasRet
      /\ x.retIns = b.retIns /\ x.tail = b.tail /\ x.stack = b.stack
  BY <1>2 DEF Block
<1>7. Numbers(x) = Numbers(b) /\ NextInstruction(x) = NextInstruction(b)
  BY <1>6 DEF Numbers, LastInstruction, NextInstruction, ParamCount
<1>8. Used(x) = Used(b)
  BY <1>5, <1>6 DEF Used
<1>9. Room(x, n)
  BY <1>7, <1>8 DEF Fine, Room
<1>10. Located(x)
  BY <1>3, <1>5, <1>6, <1>7 DEF Fine, Located
<1>11. Fine(x, n) /\ LastInstruction(x) = LastInstruction(b)
  BY <1>2, <1>6, <1>9, <1>10, FineData, Zenon DEF Fine
<1> QED
  BY <1>2, <1>6, <1>7, <1>11 DEF Equal, x

LEMMA AddFine ==
  ASSUME NEW b \in Block, NEW n \in Nat, Fine(b, n + 1), NEW s \in Nat, NEW ins \in Numbers(b)
  PROVE  LET x == AddSymbol(b, s, TRUE, ins)
         IN Fine(x, n) /\ Equal(x, b) /\ x.stack = b.stack
<1> DEFINE x == AddSymbol(b, s, TRUE, ins)
           e == [s |-> s, ex |-> TRUE, ins |-> ins]
           y == b.syms
           z == Append(y, e)
<1>1. ins \in Int
  BY DEF Numbers
<1>2. x \in Block /\ x = [b EXCEPT !.syms = z]
  BY <1>1, SymbolBlock, Zenon DEF AddSymbol
<1>3. e.ex /\ e.ins = ins /\ e \in Entry
  BY <1>1 DEF Entry
<1>4. y \in Seq(Entry) /\ Len(y) \in Nat /\ DOMAIN y = 1 .. Len(y)
  BY BlockParts
<1> HIDE DEF x, e
<1>5. Len(z) = Len(y) + 1 /\ \A p \in DOMAIN z : z[p] = e \/ (p \in DOMAIN y /\ z[p] = y[p])
  <2> HIDE DEF y
  <2> QED
    BY <1>3, <1>4
<1> HIDE DEF z
<1>6. /\ x.par = b.par /\ x.code = b.code /\ x.syms = z /\ x.hasRet = b.hasRet
      /\ x.retIns = b.retIns /\ x.tail = b.tail /\ x.stack = b.stack
  BY <1>2 DEF Block
<1>7. Numbers(x) = Numbers(b) /\ NextInstruction(x) = NextInstruction(b)
  BY <1>6 DEF Numbers, LastInstruction, NextInstruction, ParamCount
<1>8. Used(x) = Used(b) + 1
  <2> DEFINE r == One(b.hasRet)
             l == Len(y)
             t == Len(b.stack)
  <2>1. r \in {0, 1} /\ l \in Nat /\ t \in Nat /\ Used(b) = r + l + t
    BY BlockParts DEF Used
  <2>2. Used(x) = r + (l + 1) + t
    BY <1>5, <1>6 DEF Used
  <2> HIDE DEF r, l, t
  <2> QED
    BY <2>1, <2>2
<1>9. Room(x, n)
  BY <1>7, <1>8, BlockParts DEF Fine, Room
<1>10. Located(x)
  BY <1>3, <1>5, <1>6, <1>7 DEF Fine, Located
<1>11. Fine(x, n) /\ LastInstruction(x) = LastInstruction(b)
  BY <1>2, <1>6, <1>9, <1>10, FineData, Zenon DEF Fine
<1> QED
  BY <1>2, <1>6, <1>7, <1>11, Zenon DEF Equal, x

\* A tail, or the mark of the end, changes nothing else.
LEMMA TailFine ==
  ASSUME NEW b \in Block, NEW n \in Nat, Fine(b, n), NEW t, NEW end
  PROVE  /\ Fine([b EXCEPT !.tail = t], n)
         /\ Numbers([b EXCEPT !.tail = t]) = Numbers(b)
         /\ [b EXCEPT !.tail = t].tail = t
         /\ Fine([b EXCEPT !.final = end], n)
         /\ [b EXCEPT !.final = end].tail = b.tail
<1>1. ASSUME NEW x, x.par = b.par, x.code = b.code, x.syms = b.syms, x.hasRet = b.hasRet,
             x.retIns = b.retIns, x.stack = b.stack
      PROVE  Fine(x, n) /\ Numbers(x) = Numbers(b)
  <2>1. /\ ParamCount(x) = ParamCount(b) /\ NextInstruction(x) = NextInstruction(b)
        /\ LastInstruction(x) = LastInstruction(b) /\ Used(x) = Used(b)
    BY <1>1 DEF ParamCount, NextInstruction, LastInstruction, Used
  <2>2. Backward(x) /\ Numbers(x) = Numbers(b)
    BY <1>1, <2>1 DEF Fine, Backward, Numbers
  <2>3. Located(x) /\ Room(x, n)
    BY <1>1, <2>1, <2>2 DEF Fine, Located, Room
  <2> QED
    BY <2>2, <2>3 DEF Fine
<1> DEFINE x == [b EXCEPT !.tail = t]
           y == [b EXCEPT !.final = end]
<1>2. /\ x.par = b.par /\ x.code = b.code /\ x.syms = b.syms /\ x.hasRet = b.hasRet
      /\ x.retIns = b.retIns /\ x.stack = b.stack /\ x.tail = t
  BY DEF Block
<1>3. /\ y.par = b.par /\ y.code = b.code /\ y.syms = b.syms /\ y.hasRet = b.hasRet
      /\ y.retIns = b.retIns /\ y.stack = b.stack /\ y.tail = b.tail
  BY DEF Block
<1> HIDE DEF x, y
<1>4. Fine(x, n) /\ Numbers(x) = Numbers(b) /\ Fine(y, n)
  BY <1>1, <1>2, <1>3
<1> QED
  BY <1>2, <1>3, <1>4 DEF x, y

-----------------------------------------------------------------------------
(* The operations on the stack.                                            *)

\* What an operation leaves: x has the tail of b, the values of b, at least m
\* instructions more, and n of them are to spare.
Spare(x, b, n, m) ==
  /\ x \in Block /\ x.tail = b.tail /\ x.hasRet = b.hasRet /\ Fine(x, n)
  /\ NextInstruction(b) + m <= NextInstruction(x)

LEMMA SpareNumbers ==
  ASSUME NEW b \in Block, NEW x, NEW n, NEW m \in Nat, Spare(x, b, n, m)
  PROVE  /\ \A i \in Numbers(b) : i \in Numbers(x)
         /\ NextInstruction(x) \in Nat /\ NextInstruction(b) \in Nat
         /\ m >= 1 => NextInstruction(b) \in Numbers(x)
<1>1. /\ NextInstruction(x) \in Nat /\ NextInstruction(b) \in Nat
      /\ Numbers(b) = 0 .. NextInstruction(b) - 1 /\ Numbers(x) = 0 .. NextInstruction(x) - 1
      /\ NextInstruction(b) + m <= NextInstruction(x)
  BY BlockParts DEF Spare
<1> QED
  BY <1>1

LEMMA LongerSpare ==
  ASSUME NEW b \in Block, NEW x, Longer(x, b), NEW n, Fine(x, n)
  PROVE  Spare(x, b, n, 1)
<1>1. NextInstruction(x) = NextInstruction(b) + 1 /\ NextInstruction(b) \in Nat
  BY DEF Longer
<1>2. NextInstruction(b) + 1 <= NextInstruction(x)
  BY <1>1
<1> QED
  BY <1>2 DEF Longer, Spare

LEMMA EqualSpare ==
  ASSUME NEW b \in Block, NEW x, Equal(x, b), NEW n, Fine(x, n)
  PROVE  Spare(x, b, n, 0)
<1>1. NextInstruction(x) = NextInstruction(b) /\ NextInstruction(b) \in Nat
  BY BlockParts DEF Equal
<1>2. NextInstruction(b) + 0 <= NextInstruction(x)
  BY <1>1
<1> QED
  BY <1>2 DEF Equal, Spare

LEMMA SpareTrans ==
  ASSUME NEW b \in Block, NEW x, NEW y, NEW n, NEW n2, NEW m \in Nat, NEW m2 \in Nat,
         Spare(x, b, n, m), Spare(y, x, n2, m2)
  PROVE  Spare(y, b, n2, m + m2)
<1>1. /\ NextInstruction(x) \in Nat /\ NextInstruction(b) \in Nat /\ NextInstruction(y) \in Nat
      /\ NextInstruction(b) + m <= NextInstruction(x) /\ NextInstruction(x) + m2 <= NextInstruction(y)
  BY BlockParts DEF Spare
<1>2. NextInstruction(b) + (m + m2) <= NextInstruction(y)
  BY <1>1
<1> QED
  BY <1>2 DEF Spare

LEMMA ComputeFine ==
  ASSUME NEW b \in Block, NEW n \in Nat, Fine(b, n), 1 <= Len(b.stack)
  PROVE  /\ Spare(Compute(b), b, n + 2, 1) /\ Len(Compute(b).stack) = Len(b.stack) - 1
         /\ Compute(b).syms = b.syms /\ LastInstruction(Compute(b)) = NextInstruction(b)
<1> DEFINE p == PopStack(b, 1)
           args == <<b.stack[1], LastInstruction(b)>>
           x == Compute(b)
<1>1. Fine(p, n + 1) /\ Equal(p, b) /\ p.syms = b.syms /\ Len(p.stack) = Len(b.stack) - 1
  BY PopFine
<1>2. b.stack[1] \in Numbers(b) /\ LastInstruction(b) \in Numbers(b)
  <2>1. Len(b.stack) \in Nat /\ DOMAIN b.stack = 1 .. Len(b.stack)
    BY BlockParts
  <2>2. n + Len(b.stack) >= 1 /\ 1 \in DOMAIN b.stack
    BY <2>1
  <2> QED
    BY <2>2, FineLast DEF Fine, Located
<1>3. "calc" \in Ops /\ args \in Seq(Int) /\ \A k \in DOMAIN args : args[k] \in Numbers(b)
  <2>1. b.stack[1] \in Int /\ LastInstruction(b) \in Int
    BY <1>2 DEF Numbers
  <2>2. args \in Seq(Int) /\ DOMAIN args = {1, 2} /\ args[1] = b.stack[1]
        /\ args[2] = LastInstruction(b)
    BY <2>1
  <2> QED
    BY <1>2, <2>2 DEF Ops
<1>4. x = Emit(p, "calc", args)
  BY DEF Compute
<1> HIDE DEF p, args, x
<1>5. p \in Block /\ Numbers(p) = Numbers(b) /\ n + 1 \in Nat
  BY <1>1 DEF Equal
<1>6. Fine(x, n + 1 + 1) /\ Longer(x, p)
  BY <1>1, <1>3, <1>4, <1>5, EmitFine
<1>7. Spare(x, p, n + 2, 1) /\ Spare(p, b, n + 1, 0)
  <2>1. n + 1 + 1 = n + 2
    OBVIOUS
  <2> QED
    BY <1>1, <1>5, <1>6, <2>1, LongerSpare, EqualSpare
<1>8. Spare(x, b, n + 2, 1)
  <2> DEFINE none == 0
             one == 1
  <2>1. none \in Nat /\ one \in Nat /\ none + one = 1
    OBVIOUS
  <2>2. Spare(x, p, n + 2, one) /\ Spare(p, b, n + 1, none)
    BY <1>7
  <2> HIDE DEF none, one
  <2> QED
    BY <2>1, <2>2, SpareTrans, Zenon
<1>9. x.syms = b.syms /\ x.stack = p.stack /\ LastInstruction(x) = NextInstruction(b)
  BY <1>1, <1>6 DEF Longer, Equal
<1> QED
  BY <1>1, <1>8, <1>9 DEF x

\* The operands on the stack are in the block.
LEMMA OperandsFine ==
  ASSUME NEW b \in Block, NEW m \in Nat, Fine(b, m), NEW n \in Nat, n <= Len(b.stack)
  PROVE  /\ Operands(b, n) \in Seq(Int)
         /\ \A k \in DOMAIN Operands(b, n) : Operands(b, n)[k] \in Numbers(b)
<1>1. Operands(b, n) \in Seq(Int)
  BY OperandsInt
<1>2. Len(b.stack) \in Nat /\ DOMAIN b.stack = 1 .. Len(b.stack)
  BY BlockParts
<1>3. ASSUME NEW k \in 1 .. n
      PROVE  b.stack[n + 1 - k] \in Numbers(b)
  <2>1. n + 1 - k \in DOMAIN b.stack
    BY <1>2, <1>3
  <2> QED
    BY <2>1 DEF Fine, Located
<1>4. DOMAIN Operands(b, n) = 1 .. n /\ \A k \in 1 .. n : Operands(b, n)[k] = b.stack[n + 1 - k]
  BY DEF Operands
<1> QED
  BY <1>1, <1>3, <1>4, Zenon

\* The pair that an assignment to an element of an array or an object takes.
LEMMA StackFine ==
  ASSUME NEW b \in Block, NEW n \in Nat, Fine(b, n), NEW i \in DOMAIN b.stack
  PROVE  /\ b.stack[i] \in Numbers(b) /\ b.stack[i] \in Int
         /\ LastInstruction(b) \in Numbers(b) /\ LastInstruction(b) \in Int
<1>1. b.stack[i] \in Numbers(b)
  BY DEF Fine, Located
<1>2. 1 <= Len(b.stack) /\ Len(b.stack) \in Nat
  BY BlockParts
<1>3. n + Len(b.stack) >= 1
  BY <1>2
<1>4. LastInstruction(b) \in Numbers(b)
  BY <1>3, FineLast
<1> QED
  BY <1>1, <1>4 DEF Numbers

LEMMA MirrorLast ==
  ASSUME NEW b \in Block, NEW n \in Nat, Fine(b, n + 1)
  PROVE  Fine(Mirror(b, LastInstruction(b)), 1)
<1> DEFINE l == LastInstruction(b)
<1>1. l \in Numbers(b)
  <2> DEFINE t == Len(b.stack)
             k == n + 1
  <2>1. k \in Nat /\ k >= 1 /\ t \in Nat
    BY BlockParts
  <2>2. k + t >= 1
    <3> HIDE DEF k, t
    <3> QED
      BY <2>1
  <2> HIDE DEF k
  <2> QED
    BY <2>1, <2>2, FineLast DEF k
<1>2. n + 1 \in Nat
  OBVIOUS
<1> HIDE DEF l
<1>3. Fine(Mirror(b, l), n + 1 + 1) /\ Mirror(b, l) \in Block
  BY <1>1, <1>2, MirrorFine DEF Longer
<1>4. 1 \in Nat /\ n + 1 + 1 \in Nat /\ 1 <= n + 1 + 1
  OBVIOUS
<1>5. Fine(Mirror(b, l), 1)
  BY <1>3, <1>4, FineLess
<1> QED
  BY <1>5 DEF l

LEMMA StoreFine ==
  ASSUME NEW b \in Block, Fine(b, 0), NEW n \in 2 .. 3, n - 1 <= Len(b.stack)
  PROVE  Fine(Store(b, n), 1)
<1> DEFINE m == n - 1
           p == PopStack(b, m)
           op == IF n = 2 THEN "put" ELSE "setindex"
           args == IF n = 2 THEN <<b.stack[1], LastInstruction(b)>>
                   ELSE <<b.stack[2], LastInstruction(b), b.stack[1]>>
           x == Emit(p, op, args)
<1>1. m \in {1, 2} /\ m \in Nat /\ 0 + m = m /\ 0 \in Nat
  OBVIOUS
<1>2. Len(b.stack) \in Nat /\ DOMAIN b.stack = 1 .. Len(b.stack)
  BY BlockParts
<1>3. 1 \in DOMAIN b.stack /\ (n = 3 => 2 \in DOMAIN b.stack)
  BY <1>2
<1>4. LastInstruction(b) \in Numbers(b) /\ LastInstruction(b) \in Int
      /\ b.stack[1] \in Numbers(b) /\ b.stack[1] \in Int
      /\ (n = 3 => b.stack[2] \in Numbers(b) /\ b.stack[2] \in Int)
  BY <1>1, <1>3, StackFine
<1>5. op \in Ops /\ args \in Seq(Int) /\ \A k \in DOMAIN args : args[k] \in Numbers(b)
  <2>1. CASE n = 2
    <3> DEFINE u == b.stack[1]
               v == LastInstruction(b)
    <3> HIDE DEF u, v
    <3>1. args = <<u, v>>
      BY <2>1 DEF u, v
    <3>2. u \in Numbers(b) /\ v \in Numbers(b) /\ u \in Int /\ v \in Int
      BY <1>4 DEF u, v
    <3> HIDE DEF args
    <3> QED
      BY <2>1, <3>1, <3>2 DEF Ops
  <2>2. CASE n = 3
    <3> DEFINE u == b.stack[1]
               v == LastInstruction(b)
               w == b.stack[2]
    <3> HIDE DEF u, v, w
    <3>1. args = <<w, v, u>>
      BY <2>2 DEF u, v, w
    <3>2. /\ u \in Numbers(b) /\ v \in Numbers(b) /\ u \in Int /\ v \in Int
          /\ w \in Numbers(b) /\ w \in Int
      BY <1>4, <2>2 DEF u, v, w
    <3> HIDE DEF args
    <3> QED
      BY <2>2, <3>1, <3>2 DEF Ops
  <2> QED
    BY <2>1, <2>2
<1>6. Store(b, n) = Mirror(x, LastInstruction(b))
  BY DEF Store
<1>7. Fine(p, m) /\ Equal(p, b)
  <2>1. Fine(p, 0 + m) /\ Equal(p, b)
    BY <1>1, PopFine
  <2> QED
    BY <1>1, <2>1
<1> HIDE DEF m, p, op, args, x
<1>8. p \in Block /\ Numbers(p) = Numbers(b)
  BY <1>7 DEF Equal
<1>9. Fine(Emit(p, op, args), m + 1) /\ Longer(Emit(p, op, args), p)
  BY <1>1, <1>5, <1>7, <1>8, EmitFine
<1>10. LastInstruction(b) \in Numbers(x) /\ x \in Block /\ Fine(x, m + 1)
  <2>1. x = Emit(p, op, args)
    BY DEF x
  <2>2. Numbers(p) \subseteq Numbers(x) /\ x \in Block
    BY <1>9, <2>1 DEF Longer
  <2> QED
    BY <1>4, <1>8, <1>9, <2>1, <2>2
<1> DEFINE l == LastInstruction(b)
<1>11. l \in Numbers(x) /\ Store(b, n) = Mirror(x, l)
  BY <1>6, <1>10
<1> HIDE DEF l
<1>12. m + 1 \in Nat /\ m + 1 + 1 \in Nat /\ 1 <= m + 1 + 1 /\ 1 \in Nat
  BY <1>1
<1>13. Fine(Mirror(x, l), m + 1 + 1) /\ Mirror(x, l) \in Block
  BY <1>10, <1>11, <1>12, MirrorFine DEF Longer
<1>14. Fine(Mirror(x, l), 1)
  BY <1>12, <1>13, FineLess
<1> QED
  BY <1>11, <1>14

LEMMA LoadFine ==
  ASSUME NEW b \in Block, Fine(b, 1), NEW n \in 1 .. 2, n - 1 <= Len(b.stack)
  PROVE  LET x == Load(b, n)
         IN /\ Fine(x, 0) /\ x \in Block /\ Len(x.stack) = Len(b.stack) + 2
            /\ x.stack[1] \in Numbers(x)
<1> DEFINE t == PushStack(b)
           args == Operands(t, n)
           e == Emit(t, "get", args)
           x == PushStack(e)
<1>1. x = Load(b, n)
  BY DEF Load, Operands
<1>2. Fine(t, 0) /\ t \in Block /\ Len(t.stack) = Len(b.stack) + 1
  <2>1. 0 \in Nat /\ 0 + 1 = 1
    OBVIOUS
  <2> DEFINE zero == 0
  <2>2. zero \in Nat /\ Fine(b, zero + 1)
    BY <2>1
  <2> HIDE DEF zero
  <2>3. Fine(t, zero) /\ Equal(t, b) /\ Len(t.stack) = Len(b.stack) + 1
    BY <2>2, PushFine, Zenon
  <2> QED
    BY <2>3 DEF Equal, zero
<1>3. n \in Nat /\ n <= Len(t.stack) /\ 0 \in Nat /\ "get" \in Ops
  <2>1. Len(b.stack) \in Nat
    BY BlockParts
  <2> QED
    BY <1>2, <2>1 DEF Ops
<1> HIDE DEF t
<1>4. args \in Seq(Int) /\ \A k \in DOMAIN args : args[k] \in Numbers(t)
  BY <1>2, <1>3, OperandsFine
<1> HIDE DEF args
<1>5. Fine(e, 0 + 1) /\ Longer(e, t)
  BY <1>2, <1>3, <1>4, EmitFine
<1>6. e \in Block /\ e.stack = t.stack /\ LastInstruction(e) \in Numbers(e)
  BY <1>5 DEF Longer
<1> HIDE DEF e
<1>7. /\ Fine(x, 0) /\ Equal(x, e) /\ x.stack[1] = LastInstruction(e)
      /\ Len(x.stack) = Len(e.stack) + 1
  BY <1>3, <1>5, <1>6, PushFine, Zenon
<1> HIDE DEF x
<1>8. Len(x.stack) = Len(b.stack) + 2
  <2>1. Len(b.stack) \in Nat
    BY BlockParts
  <2> QED
    BY <1>2, <1>6, <1>7, <2>1
<1>9. x.stack[1] \in Numbers(x) /\ x \in Block
  BY <1>6, <1>7 DEF Equal
<1> QED
  BY <1>1, <1>7, <1>8, <1>9

LEMMA RestoreFine ==
  ASSUME NEW b \in Block, NEW m \in Nat, Fine(b, m), NEW n \in 1 .. 2, n + 1 <= Len(b.stack)
  PROVE  Spare(Restore(b, n), b, m + 3, 2)
<1> DEFINE c == Compute(b)
           args == Operands(c, n)
           all == args \o <<LastInstruction(c)>>
           p == PopStack(c, n)
           op == IF n = 1 THEN "put" ELSE "setindex"
           x == Emit(p, op, all)
<1>1. x = Restore(b, n)
  BY DEF Restore, Operands
<1>2. n \in Nat /\ 1 <= Len(b.stack) /\ Len(b.stack) \in Nat /\ op \in Ops
  BY BlockParts DEF Ops
<1>3. Spare(c, b, m + 2, 1) /\ Len(c.stack) = Len(b.stack) - 1
  BY <1>2, ComputeFine
<1>4. c \in Block /\ Fine(c, m + 2) /\ m + 2 \in Nat /\ n <= Len(c.stack)
  BY <1>2, <1>3 DEF Spare
<1> HIDE DEF c
<1>5. args \in Seq(Int) /\ \A k \in DOMAIN args : args[k] \in Numbers(c)
  BY <1>2, <1>4, OperandsFine
<1>6. LastInstruction(c) \in Numbers(c) /\ LastInstruction(c) \in Int
  <2> DEFINE t == Len(c.stack)
             k == m + 2
  <2>1. k \in Nat /\ k >= 1 /\ t \in Nat
    BY <1>4, BlockParts
  <2>2. k + t >= 1
    <3> HIDE DEF k, t
    <3> QED
      BY <2>1
  <2> HIDE DEF k
  <2>3. Fine(c, k)
    BY <1>4 DEF k
  <2>4. LastInstruction(c) \in Numbers(c)
    BY <1>4, <2>1, <2>2, <2>3, FineLast
  <2> QED
    BY <2>4 DEF Numbers
<1> HIDE DEF args, op
<1>7. all \in Seq(Int) /\ \A k \in DOMAIN all : all[k] \in Numbers(c)
  <2> DEFINE l == LastInstruction(c)
             N == Numbers(c)
  <2>1. l \in N /\ l \in Int /\ args \in Seq(Int) /\ \A k \in DOMAIN args : args[k] \in N
    BY <1>5, <1>6
  <2> HIDE DEF l, N
  <2>2. args \o <<l>> \in Seq(Int)
    BY <2>1
  <2>3. ASSUME NEW k \in DOMAIN (args \o <<l>>)
        PROVE  (args \o <<l>>)[k] \in N
    <3>1. /\ Len(args) \in Nat /\ DOMAIN args = 1 .. Len(args)
          /\ DOMAIN (args \o <<l>>) = 1 .. Len(args) + 1
          /\ \A j \in 1 .. Len(args) : (args \o <<l>>)[j] = args[j]
          /\ (args \o <<l>>)[Len(args) + 1] = l
      BY <2>1
    <3>2. k \in 1 .. Len(args) \/ k = Len(args) + 1
      BY <2>3, <3>1
    <3> QED
      BY <2>1, <3>1, <3>2
  <2> QED
    BY <2>2, <2>3 DEF l, N
<1> HIDE DEF all
<1>8. Fine(p, m + 2 + n) /\ Equal(p, c)
  BY <1>2, <1>4, PopFine
<1>9. p \in Block /\ Numbers(p) = Numbers(c) /\ m + 2 + n \in Nat
  BY <1>2, <1>4, <1>8 DEF Equal
<1> HIDE DEF p
<1>10. Fine(x, m + 2 + n + 1) /\ Longer(x, p)
  BY <1>2, <1>7, <1>8, <1>9, EmitFine
<1> HIDE DEF x
<1>11. Spare(x, p, m + 2 + n + 1, 1) /\ Spare(p, c, m + 2 + n, 0)
  BY <1>4, <1>8, <1>9, <1>10, LongerSpare, EqualSpare
<1>12. Spare(x, b, m + 3, 2)
  <2> DEFINE zero == 0
             one == 1
             k == m + 2 + n + 1
  <2>1. zero \in Nat /\ one \in Nat /\ zero + one = 1 /\ one + one = 2 /\ k \in Nat /\ m + 3 <= k
        /\ m + 3 \in Nat
    BY <1>2, <1>4
  <2>2. Spare(x, p, k, one) /\ Spare(p, c, m + 2 + n, zero) /\ Spare(c, b, m + 2, one)
    BY <1>3, <1>11
  <2> HIDE DEF zero, one, k
  <2>3. Spare(x, c, k, zero + one)
    BY <1>4, <2>1, <2>2, SpareTrans, Zenon
  <2>4. Spare(x, c, k, one)
    BY <2>1, <2>3 DEF one
  <2>5. Spare(x, b, k, one + one)
    BY <2>1, <2>2, <2>4, SpareTrans
  <2>6. Spare(x, b, k, 2) /\ x \in Block /\ Fine(x, k)
    BY <2>1, <2>5 DEF Spare
  <2>7. Fine(x, m + 3)
    BY <2>1, <2>6, FineLess
  <2> QED
    BY <2>6, <2>7 DEF Spare
<1> QED
  BY <1>1, <1>12

-----------------------------------------------------------------------------
(* A step in general.                                                      *)

\* The blocks of S and the new ones are in order, the others as they were.
Sorted(bs, bs2, S) ==
  /\ bs2 \in Seq(Block) /\ Len(bs) <= Len(bs2)
  /\ \A b \in DOMAIN bs \ S : bs2[b] = bs[b]
  /\ \A b \in DOMAIN bs2 : b \in S \/ b \notin DOMAIN bs => Fine(bs2[b], 0) /\ Terminated(bs2[b])

LEMMA SortedOrderly ==
  ASSUME NEW bs, NEW bs2, NEW S, Orderly(bs), Sorted(bs, bs2, S)
  PROVE  Orderly(bs2)
<1> SUFFICES ASSUME NEW b \in DOMAIN bs2
             PROVE  Fine(bs2[b], 0) /\ Terminated(bs2[b])
  BY DEF Orderly
<1>1. CASE b \in S \/ b \notin DOMAIN bs
  BY <1>1 DEF Sorted
<1>2. CASE b \in DOMAIN bs \ S
  BY <1>2 DEF Sorted, Orderly
<1> QED
  BY <1>1, <1>2

\* What a call below those a step touches waits for is as it was.
LEMMA HoldingStays ==
  ASSUME NEW h, Before(h), NEW k \in Nat, k <= Len(frames), Len(frames) <= k + 1,
         NEW bs2, NEW S, Sorted(blocks, bs2, S), S \subseteq Held(cur, frames, k),
         NEW i \in 1 .. k, Holding(blocks, frames[i])
  PROVE  Holding(bs2, frames[i])
<1> DEFINE f == frames[i]
<1>1. Shape(blocks, cur, frames)
  BY DEF Before, Ready
<1>2. /\ i \in DOMAIN frames /\ Pending(f) \subseteq DOMAIN blocks
      /\ Pending(f) \cap Held(cur, frames, k) = {}
  BY <1>1, Rest
<1>3. FrameOK(Len(blocks), f)
  BY <1>1, <1>2 DEF Shape
<1> HIDE DEF f
<1>4. ASSUME f.k \in {"tsecond", "call"}
      PROVE  bs2[f.oth] = blocks[f.oth]
  <2>1. f.oth \in 1 .. Len(blocks)
    BY <1>3, <1>4 DEF FrameOK
  <2>2. f.oth # NoBlock
    BY <2>1 DEF NoBlock
  <2>3. f.oth \in Pending(f)
    BY <1>4, <2>2, PendingIs
  <2>4. f.oth \in DOMAIN blocks \ S
    BY <1>2, <2>3
  <2> QED
    BY <2>4 DEF Sorted
<1>5. Holding(bs2, f)
  <2>1. Holding(blocks, f)
    BY DEF f
  <2> QED
    BY <1>4, <2>1 DEF Holding
<1> QED
  BY <1>5 DEF f

LEMMA OrderMove ==
  ASSUME NEW h, Before(h), Ordered(blocks, cur, frames, at),
         NEW k, NEW fs2, Above(frames, k, fs2),
         NEW bs2, NEW S, Sorted(blocks, bs2, S), S \subseteq Held(cur, frames, k),
         Len(fs2) = k + 1 => Holding(bs2, fs2[k + 1]),
         NEW c2, NEW a2, a2 = "value" => Fine(bs2[c2], 1)
  PROVE  Ordered(bs2, c2, fs2, a2)
<1>1. frames \in Seq(Frames)
  BY BeforeFacts
<1>2. /\ \A i \in 1 .. k : i \in DOMAIN frames /\ i \in DOMAIN fs2 /\ fs2[i] = frames[i]
      /\ \A i \in DOMAIN fs2 : i \in 1 .. k \/ (Len(fs2) = k + 1 /\ i = k + 1)
  BY <1>1, AboveIndex
<1>3. k \in Nat /\ k <= Len(frames) /\ Len(frames) <= k + 1
  BY DEF Above
<1>4. ASSUME NEW i \in 1 .. k
      PROVE  Holding(bs2, fs2[i])
  <2>1. Holding(blocks, frames[i])
    BY <1>2, <1>4 DEF Ordered
  <2>2. Holding(bs2, frames[i])
    BY <1>3, <1>4, <2>1, HoldingStays
  <2> QED
    BY <1>2, <1>4, <2>2
<1>5. Orderly(bs2)
  BY SortedOrderly DEF Ordered
<1> QED
  BY <1>2, <1>4, <1>5 DEF Ordered

LEMMA OrderStay ==
  ASSUME NEW h, Before(h), Ordered(blocks, cur, frames, at),
         NEW bs2, NEW S, Sorted(blocks, bs2, S), S \subseteq Only(cur),
         NEW c2, NEW a2, a2 = "value" => Fine(bs2[c2], 1)
  PROVE  Ordered(bs2, c2, frames, a2)
<1> DEFINE k == Len(frames)
<1>1. frames \in Seq(Frames) /\ k \in Nat
  BY BeforeFacts
<1>2. Held(cur, frames, k) = Only(cur)
  BY <1>1, HeldOnly
<1>3. Above(frames, k, frames) /\ k # k + 1
  BY <1>1, StayAbove
<1> HIDE DEF k
<1>4. Len(frames) # k + 1
  BY <1>3 DEF k
<1> QED
  BY <1>2, <1>3, <1>4, OrderMove

LEMMA OrderEnter ==
  ASSUME NEW h, Before(h), Ordered(blocks, cur, frames, at),
         NEW bs2, NEW S, Sorted(blocks, bs2, S), S \subseteq Only(cur),
         NEW g \in Frames, Holding(bs2, g),
         NEW c2, NEW a2, a2 = "value" => Fine(bs2[c2], 1)
  PROVE  Ordered(bs2, c2, Append(frames, g), a2)
<1> DEFINE k == Len(frames)
           fs2 == Append(frames, g)
<1>1. frames \in Seq(Frames) /\ k \in Nat
  BY BeforeFacts
<1>2. Held(cur, frames, k) = Only(cur)
  BY <1>1, HeldOnly
<1>3. Above(frames, k, fs2) /\ fs2[k + 1] = g
  BY <1>1, EnterAbove
<1> HIDE DEF k, fs2
<1>4. Ordered(bs2, c2, fs2, a2)
  BY <1>2, <1>3, OrderMove
<1> QED
  BY <1>4 DEF fs2

LEMMA OrderLeave ==
  ASSUME NEW h, Before(h), Ordered(blocks, cur, frames, at), frames # <<>>,
         NEW bs2, NEW S, Sorted(blocks, bs2, S), S \subseteq Top(cur, top),
         NEW c2, NEW a2, a2 = "value" => Fine(bs2[c2], 1)
  PROVE  Ordered(bs2, c2, Below, a2)
<1> DEFINE k == Len(frames) - 1
           fs2 == SubSeq(frames, 1, k)
<1>1. frames \in Seq(Frames)
  BY BeforeFacts
<1>2. k \in Nat /\ Len(frames) = k + 1 /\ frames[k + 1] = top
  BY <1>1 DEF top
<1>3. Above(frames, k, fs2) /\ Len(fs2) # k + 1
  BY <1>1, LeaveAbove
<1> HIDE DEF k
<1>4. Held(cur, frames, k) = Top(cur, top)
  BY <1>1, <1>2, HeldTop
<1> HIDE DEF fs2
<1>5. Ordered(bs2, c2, fs2, a2)
  BY <1>3, <1>4, OrderMove
<1> QED
  BY <1>5 DEF fs2, k, Below

LEMMA OrderSwap ==
  ASSUME NEW h, Before(h), Ordered(blocks, cur, frames, at), frames # <<>>,
         NEW bs2, NEW S, Sorted(blocks, bs2, S), S \subseteq Top(cur, top),
         NEW g \in Frames, Holding(bs2, g),
         NEW c2, NEW a2, a2 = "value" => Fine(bs2[c2], 1)
  PROVE  Ordered(bs2, c2, Append(Below, g), a2)
<1> DEFINE k == Len(frames) - 1
           fs2 == Append(SubSeq(frames, 1, k), g)
<1>1. frames \in Seq(Frames)
  BY BeforeFacts
<1>2. k \in Nat /\ Len(frames) = k + 1 /\ frames[k + 1] = top
  BY <1>1 DEF top
<1>3. Above(frames, k, fs2) /\ fs2[k + 1] = g
  BY <1>1, SwapAbove, Zenon
<1> HIDE DEF k
<1>4. Held(cur, frames, k) = Top(cur, top)
  BY <1>1, <1>2, HeldTop
<1> HIDE DEF fs2
<1>5. Ordered(bs2, c2, fs2, a2)
  BY <1>3, <1>4, OrderMove
<1> QED
  BY <1>5 DEF fs2, k, Below

\* A do-while waits for no value.
LEMMA OrderLoop ==
  ASSUME NEW bs, NEW c, NEW fs \in Seq(Frames), NEW a, Ordered(bs, c, fs, a),
         NEW i \in DOMAIN fs, NEW g, g.k = "do", NEW c2, NEW a2, a2 # "value"
  PROVE  Ordered(bs, c2, [fs EXCEPT ![i] = g], a2)
<1> DEFINE fs2 == [fs EXCEPT ![i] = g]
<1>1. ASSUME NEW j \in DOMAIN fs2
      PROVE  Holding(bs, fs2[j])
  <2>1. j \in DOMAIN fs /\ fs2[j] = IF j = i THEN g ELSE fs[j]
    BY <1>1
  <2>2. Holding(bs, g)
    BY DEF Holding
  <2> QED
    BY <2>1, <2>2 DEF Ordered
<1> HIDE DEF fs2
<1>2. Ordered(bs, c2, fs2, a2)
  BY <1>1 DEF Ordered
<1> QED
  BY <1>2 DEF fs2

Orders == Ordered(blocks', cur', frames', at')

LEMMA DoneOrder ==
  ASSUME NEW fs \in Seq(Frames), NEW c, NEW bs, Done(fs, c, bs), NEW a, Ordered(bs, c, fs, a),
         a # "value"
  PROVE  Orders
<1>1. blocks' = bs /\ cur' = c /\ at' = "stmt"
  BY DEF Done, Produce
<1>2. CASE fs # <<>> /\ fs[Len(fs)].k = "do" /\ c # NoBlock
  <2>1. Len(fs) \in DOMAIN fs /\ fs[Len(fs)] \in Frames
    BY <1>2
  <2> DEFINE f == fs[Len(fs)]
             g == LoopTrigger(f, c)
  <2>2. g.k = "do"
    <3>1. f \in Frames /\ f.k = "do"
      BY <1>2, <2>1
    <3> HIDE DEF f
    <3> QED
      BY <3>1 DEF LoopTrigger, Frames
  <2>3. frames' = [fs EXCEPT ![Len(fs)] = g]
    BY <1>2 DEF Done
  <2> HIDE DEF g
  <2>4. Ordered(bs, c, [fs EXCEPT ![Len(fs)] = g], "stmt")
    BY <2>1, <2>2, OrderLoop
  <2> QED
    BY <1>1, <2>3, <2>4 DEF Orders
<1>3. CASE ~(fs # <<>> /\ fs[Len(fs)].k = "do" /\ c # NoBlock)
  <2>1. frames' = fs
    BY <1>3 DEF Done
  <2> QED
    BY <1>1, <2>1 DEF Orders, Ordered
<1> QED
  BY <1>2, <1>3

-----------------------------------------------------------------------------
(* Steps that fill the current block.                                      *)

LEMMA CurFine ==
  ASSUME NEW h, Before(h), Ordered(blocks, cur, frames, at), cur # NoBlock
  PROVE  LET b == blocks[cur]
         IN /\ cur \in DOMAIN blocks /\ blocks \in Seq(Block) /\ b \in Block
            /\ b.tail.type = "open" /\ Only(cur) = {cur} /\ Len(b.stack) \in Nat
            /\ Fine(b, 0) /\ (at = "value" => Fine(b, 1))
<1>1. Ready(blocks, cur, frames, at, h)
  BY DEF Before
<1>2. /\ cur \in DOMAIN blocks /\ blocks \in Seq(Block) /\ blocks[cur] \in Block
      /\ Only(cur) = {cur} /\ \A b \in Only(cur) : Open(blocks, b)
  BY <1>1, CurReady
<1>3. Len(blocks[cur].stack) \in Nat
  BY <1>2, StackInt
<1> QED
  BY <1>2, <1>3 DEF Ordered, Orderly, Open

LEMMA FillSorted ==
  ASSUME NEW bs \in Seq(Block), NEW c \in DOMAIN bs, NEW x \in Block,
         x.tail.type = "open", Fine(x, 0)
  PROVE  Sorted(bs, [bs EXCEPT ![c] = x], {c})
<1> DEFINE bs2 == [bs EXCEPT ![c] = x]
<1>1. bs2 \in Seq(Block) /\ Len(bs2) = Len(bs) /\ DOMAIN bs2 = DOMAIN bs
  BY ExceptAnywhere
<1>2. bs2[c] = x /\ \A b \in DOMAIN bs : b # c => bs2[b] = bs[b]
  OBVIOUS
<1>3. Terminated(x)
  BY DEF Terminated
<1>4. Len(bs) <= Len(bs2)
  BY <1>1
<1> HIDE DEF bs2
<1>5. Sorted(bs, bs2, {c})
  BY <1>1, <1>2, <1>3, <1>4 DEF Sorted
<1> QED
  BY <1>5 DEF bs2

LEMMA SameSorted ==
  ASSUME NEW bs \in Seq(Block)
  PROVE  Sorted(bs, bs, {})
BY DEF Sorted

\* The calls of a step that begins, ends or replaces one that holds no block.
Loose(g) == g \in Frames /\ g.k \notin {"tsecond", "instanceof", "call"}
Nearby(fs2) ==
  \/ fs2 = frames
  \/ \E g : Loose(g) /\ fs2 = Append(frames, g)
  \/ frames # <<>> /\ fs2 = Below
  \/ frames # <<>> /\ \E g : Loose(g) /\ fs2 = Append(Below, g)

LEMMA NearOrder ==
  ASSUME NEW h, Before(h), Ordered(blocks, cur, frames, at),
         NEW bs2, NEW S, Sorted(blocks, bs2, S), S \subseteq Only(cur),
         NEW fs2, Nearby(fs2), NEW c2, NEW a2, a2 = "value" => Fine(bs2[c2], 1)
  PROVE  Ordered(bs2, c2, fs2, a2)
<1>1. CASE fs2 = frames
  BY <1>1, OrderStay
<1>2. CASE \E g : Loose(g) /\ fs2 = Append(frames, g)
  <2>1. PICK g : Loose(g) /\ fs2 = Append(frames, g)
    BY <1>2
  <2>2. g \in Frames /\ Holding(bs2, g)
    BY <2>1 DEF Loose, Holding
  <2> QED
    BY <2>1, <2>2, OrderEnter
<1>3. S \subseteq Top(cur, top)
  BY DEF Top
<1>4. CASE frames # <<>> /\ fs2 = Below
  BY <1>3, <1>4, OrderLeave
<1>5. CASE frames # <<>> /\ \E g : Loose(g) /\ fs2 = Append(Below, g)
  <2>1. PICK g : Loose(g) /\ fs2 = Append(Below, g)
    BY <1>5
  <2>2. g \in Frames /\ Holding(bs2, g)
    BY <2>1 DEF Loose, Holding
  <2> QED
    BY <1>3, <1>5, <2>1, <2>2, OrderSwap
<1> QED
  BY <1>1, <1>2, <1>4, <1>5 DEF Nearby

LEMMA FillOrder ==
  ASSUME NEW h, Before(h), Ordered(blocks, cur, frames, at), cur # NoBlock,
         NEW x \in Block, x.tail = blocks[cur].tail, NEW n \in Nat, Fine(x, n),
         NEW fs2, Nearby(fs2), NEW a2, a2 = "value" => n >= 1
  PROVE  Ordered([blocks EXCEPT ![cur] = x], cur, fs2, a2)
<1> DEFINE bs2 == [blocks EXCEPT ![cur] = x]
<1>1. /\ cur \in DOMAIN blocks /\ blocks \in Seq(Block)
      /\ x.tail.type = "open" /\ {cur} \subseteq Only(cur)
  BY CurFine
<1>2. Fine(x, 0) /\ (a2 = "value" => Fine(x, 1))
  BY FineLess
<1>3. Sorted(blocks, bs2, {cur}) /\ bs2[cur] = x
  BY <1>1, <1>2, FillSorted
<1> HIDE DEF bs2
<1>4. a2 = "value" => Fine(bs2[cur], 1)
  BY <1>2, <1>3
<1>5. Ordered(bs2, cur, fs2, a2)
  BY <1>1, <1>3, <1>4, NearOrder
<1> QED
  BY <1>5 DEF bs2

\* The same for the next state.
LEMMA Filling0 ==
  ASSUME NEW h, Before(h), Ordered(blocks, cur, frames, at), cur # NoBlock,
         NEW x \in Block, x.tail = blocks[cur].tail, NEW n \in Nat, Fine(x, n),
         blocks' = [blocks EXCEPT ![cur] = x], cur' = cur, Nearby(frames'),
         at' = "value" => n >= 1
  PROVE  Orders
BY FillOrder, Zenon DEF Orders

LEMMA ValueOrder ==
  ASSUME NEW h, Before(h), Ordered(blocks, cur, frames, at), cur # NoBlock,
         NEW x \in Block, x.tail = blocks[cur].tail, Fine(x, 1),
         Value(cur, [blocks EXCEPT ![cur] = x]), Nearby(frames')
  PROVE  Orders
<1>1. blocks' = [blocks EXCEPT ![cur] = x] /\ cur' = cur
  BY DEF Value, Produce
<1>2. 1 \in Nat /\ 1 >= 1
  OBVIOUS
<1> QED
  BY <1>1, <1>2, Filling0, Zenon

\* The calls change, the blocks do not.
LEMMA SameOrder ==
  ASSUME NEW h, Before(h), Ordered(blocks, cur, frames, at), Nearby(frames'),
         blocks' = blocks, at' # "value"
  PROVE  Orders
<1>1. blocks \in Seq(Block) /\ {} \subseteq Only(cur)
  BY BeforeFacts
<1>2. Sorted(blocks, blocks, {})
  BY <1>1, SameSorted
<1>3. Ordered(blocks, cur', frames', at')
  BY <1>1, <1>2, NearOrder
<1> QED
  BY <1>3 DEF Orders

\* A compilation that stops.
LEMMA StopOrder ==
  ASSUME Ordered(blocks, cur, frames, at), UNCHANGED <<blocks, cur, frames, at>>
  PROVE  Orders
BY DEF Orders

-----------------------------------------------------------------------------
(* Expressions that end where they begin, and those that wait.             *)

LEMMA ExprFine ==
  ASSUME NEW h, Before(h), Ordered(blocks, cur, frames, at), at \in {"expr", "value"}
  PROVE  LET b == blocks[cur]
         IN /\ cur # NoBlock /\ b \in Block /\ Len(b.stack) \in Nat
            /\ Fine(b, 0) /\ (at = "value" => Fine(b, 1))
BY ExprFacts, CurFine

LEMMA LiteralFine ==
  ASSUME NEW b \in Block, NEW n \in Nat, Fine(b, n)
  PROVE  Fine(Emit(b, "lit", <<>>), n + 1) /\ Longer(Emit(b, "lit", <<>>), b)
<1> DEFINE none == <<>>
           op == "lit"
<1>1. op \in Ops /\ none \in Seq(Int) /\ DOMAIN none = {}
  BY DEF Ops
<1> HIDE DEF none, op
<1>2. \A k \in DOMAIN none : none[k] \in Numbers(b)
  BY <1>1
<1>3. Fine(Emit(b, op, none), n + 1) /\ Longer(Emit(b, op, none), b)
  BY <1>1, <1>2, EmitFine, Zenon
<1> QED
  BY <1>3 DEF none, op

LEMMA LiteralOrder ==
  ASSUME NEW h, Before(h), Ordered(blocks, cur, frames, at), Literal
  PROVE  Orders
<1> DEFINE b == blocks[cur]
           x == Emit(b, "lit", <<>>)
<1>1. at = "expr" /\ Value(cur, [blocks EXCEPT ![cur] = x]) /\ frames' = frames
  BY DEF Literal
<1>2. cur # NoBlock /\ b \in Block /\ Fine(b, 0)
  BY <1>1, ExprFine
<1>3. 0 \in Nat /\ 0 + 1 = 1
  OBVIOUS
<1>4. Fine(x, 1) /\ Longer(x, b)
  <2>1. Fine(x, 0 + 1) /\ Longer(x, b)
    <3> HIDE DEF b
    <3> QED
      BY <1>2, <1>3, LiteralFine
  <2> QED
    BY <1>3, <2>1
<1> HIDE DEF x
<1> QED
  BY <1>1, <1>2, <1>4, ValueOrder DEF Longer, Nearby

\* A symbol with a value names an instruction of its block.
LEMMA SymbolFine ==
  ASSUME NEW b \in Block, NEW n, Fine(b, n), NEW s, Holds(b, s)
  PROVE  b.syms[Find(b, s)].ins \in Numbers(b)
<1>1. Find(b, s) \in DOMAIN b.syms
  BY DEF Find, Holds
<1> QED
  BY <1>1 DEF Fine, Located

LEMMA MirrorFine1 ==
  ASSUME NEW b \in Block, Fine(b, 0), NEW src \in Numbers(b)
  PROVE  Fine(Mirror(b, src), 1) /\ Longer(Mirror(b, src), b)
<1>1. 0 \in Nat /\ 0 + 1 = 1
  OBVIOUS
<1>2. Fine(Mirror(b, src), 0 + 1) /\ Longer(Mirror(b, src), b)
  BY <1>1, MirrorFine
<1> QED
  BY <1>1, <1>2

LEMMA GetOrder ==
  ASSUME NEW h, Before(h), Ordered(blocks, cur, frames, at), NEW s, Get(s)
  PROVE  Orders
<1> DEFINE b == blocks[cur]
           x == Mirror(b, b.syms[Find(b, s)].ins)
<1>1. at = "expr" /\ frames' = frames
  BY DEF Get, Expression
<1>2. cur # NoBlock /\ b \in Block /\ Fine(b, 0)
  BY <1>1, ExprFine
<1>3. CASE Holds(b, s) /\ b.syms[Find(b, s)].ex
  <2>1. Value(cur, [blocks EXCEPT ![cur] = x])
    BY <1>3 DEF Get
  <2>2. Fine(x, 1) /\ Longer(x, b)
    <3> HIDE DEF b
    <3> QED
      BY <1>2, <1>3, SymbolFine, MirrorFine1
  <2> HIDE DEF x
  <2> QED
    BY <1>1, <1>2, <2>1, <2>2, ValueOrder DEF Longer, Nearby
<1>4. CASE ~(Holds(b, s) /\ b.syms[Find(b, s)].ex)
  BY <1>1, <1>4, StopOrder DEF Get
<1> QED
  BY <1>3, <1>4

\* A step after which the block has the tail it had.
LEMMA SpareLess ==
  ASSUME NEW b \in Block, NEW x, NEW n \in Nat, NEW m, Spare(x, b, n, m), NEW k \in Nat, k <= n
  PROVE  x \in Block /\ x.tail = b.tail /\ Fine(x, k)
BY FineLess DEF Spare

LEMMA PostfixOrder ==
  ASSUME NEW h, Before(h), Ordered(blocks, cur, frames, at), NEW s \in Nat, Postfix(s)
  PROVE  Orders
<1> DEFINE b == blocks[cur]
           ins == b.syms[Find(b, s)].ins
           old == Mirror(b, ins)
           p == PushStack(old)
           e == Emit(p, "lit", <<>>)
           new == Compute(e)
           y == SetSymbol(new, s, LastInstruction(new))
           x == Mirror(y, LastInstruction(old))
           n == Len(b.stack)
           zero == 0
           one == 1
<1>1. at = "expr" /\ frames' = frames
  BY DEF Postfix, Expression
<1>2. cur # NoBlock /\ b \in Block /\ Fine(b, zero) /\ n \in Nat
  BY <1>1, ExprFine
<1>0. /\ zero \in Nat /\ one \in Nat /\ zero + 1 = one /\ zero + 2 = 2 /\ one + 2 = 3
      /\ one = 1 /\ zero <= one /\ one <= 3 /\ one <= 4 /\ 3 + 1 = 4 /\ one >= one
  OBVIOUS
<1> HIDE DEF zero, one
<1>3. CASE Holds(b, s) /\ b.syms[Find(b, s)].ex
  <2>1. Value(cur, [blocks EXCEPT ![cur] = x])
    BY <1>3 DEF Postfix
  <2>2. x \in Block /\ x.tail = b.tail /\ Fine(x, 1)
    <3>1. ins \in Numbers(b)
      BY <1>2, <1>3, SymbolFine
    <3> HIDE DEF b, ins
    <3>2. Fine(old, zero + 1) /\ Longer(old, b)
      BY <1>0, <1>2, <3>1, MirrorFine
    <3>3. old \in Block /\ old.tail = b.tail /\ Len(old.stack) = n /\ old.syms = b.syms
          /\ LastInstruction(old) \in Numbers(old)
      BY <3>2 DEF Longer
    <3> HIDE DEF old
    <3>4. Fine(p, zero) /\ Equal(p, old) /\ p.syms = old.syms /\ Len(p.stack) = n + 1
      BY <1>0, <3>2, <3>3, PushFine
    <3>5. p \in Block /\ p.tail = old.tail /\ Numbers(p) = Numbers(old)
      BY <3>4 DEF Equal
    <3> HIDE DEF p
    <3>6. Fine(e, one) /\ Longer(e, p)
      <4>1. Fine(e, zero + 1) /\ Longer(e, p)
        BY <1>0, <3>4, <3>5, LiteralFine
      <4> QED
        BY <1>0, <4>1
    <3>7. e \in Block /\ e.tail = p.tail /\ 1 <= Len(e.stack) /\ e.syms = p.syms
          /\ Numbers(p) \subseteq Numbers(e)
      <4>1. e \in Block /\ e.tail = p.tail /\ e.syms = p.syms /\ e.stack = p.stack
            /\ Numbers(p) \subseteq Numbers(e)
        BY <3>6 DEF Longer
      <4>2. Len(e.stack) = n + 1
        BY <3>4, <4>1
      <4> HIDE DEF e, n
      <4> QED
        BY <1>2, <4>1, <4>2
    <3> HIDE DEF e
    <3>8. Spare(new, e, one + 2, 1) /\ new.syms = e.syms /\ LastInstruction(new) = NextInstruction(e)
      BY <1>0, <3>6, <3>7, ComputeFine
    <3>9. Spare(new, e, 3, one)
      BY <1>0, <3>8
    <3>10. /\ \A i \in Numbers(e) : i \in Numbers(new)
           /\ NextInstruction(e) \in Numbers(new)
      <4>1. one >= 1
        BY <1>0
      <4> QED
        BY <1>0, <3>7, <3>9, <4>1, SpareNumbers
    <3>11. new \in Block /\ new.tail = e.tail /\ Fine(new, zero)
      <4>1. new \in Block /\ new.tail = e.tail /\ Fine(new, 3)
        BY <3>9 DEF Spare
      <4>2. 3 \in Nat /\ zero <= 3
        BY <1>0
      <4> QED
        BY <1>0, <4>1, <4>2, FineLess
    <3>12. LastInstruction(new) \in Numbers(new) /\ LastInstruction(old) \in Numbers(new)
      BY <3>3, <3>5, <3>7, <3>8, <3>10
    <3>13. Holds(new, s)
      BY <1>3, <3>3, <3>4, <3>7, <3>8 DEF Holds, b
    <3> HIDE DEF new
    <3>14. Fine(y, zero) /\ Equal(y, new)
      BY <1>0, <3>11, <3>12, <3>13, SetFine
    <3>15. y \in Block /\ y.tail = new.tail /\ LastInstruction(old) \in Numbers(y)
      BY <3>12, <3>14 DEF Equal
    <3> HIDE DEF y
    <3>16. Fine(x, zero + 1) /\ Longer(x, y)
      BY <1>0, <3>14, <3>15, MirrorFine
    <3> QED
      BY <1>0, <3>3, <3>5, <3>7, <3>11, <3>15, <3>16 DEF Longer
  <2> HIDE DEF x
  <2> QED
    BY <1>1, <1>2, <2>1, <2>2, ValueOrder DEF Nearby
<1>4. CASE ~(Holds(b, s) /\ b.syms[Find(b, s)].ex)
  BY <1>1, <1>4, StopOrder DEF Postfix
<1> QED
  BY <1>3, <1>4

LEMMA CompoundOrder ==
  ASSUME NEW h, Before(h), Ordered(blocks, cur, frames, at), NEW s \in Nat, Compound(s)
  PROVE  Orders
<1> DEFINE b == blocks[cur]
           ins == b.syms[Find(b, s)].ins
           old == Mirror(b, ins)
           x == PushStack(old)
           f == [Frame("compound") EXCEPT !.sym = s]
           zero == 0
<1>1. at = "expr" /\ cur' = cur /\ at' = "expr"
  BY DEF Compound, Expression
<1>2. cur # NoBlock /\ b \in Block /\ Fine(b, zero)
  BY <1>1, ExprFine
<1>0. zero \in Nat
  OBVIOUS
<1> HIDE DEF zero
<1>3. CASE Holds(b, s) /\ b.syms[Find(b, s)].ex
  <2>1. blocks' = [blocks EXCEPT ![cur] = x] /\ Enter(f)
    BY <1>3 DEF Compound, Produce
  <2>2. x \in Block /\ x.tail = b.tail /\ Fine(x, zero)
    <3>1. ins \in Numbers(b)
      BY <1>2, <1>3, SymbolFine
    <3> HIDE DEF b, ins
    <3>2. Fine(old, zero + 1) /\ Longer(old, b)
      BY <1>0, <1>2, <3>1, MirrorFine
    <3>3. old \in Block /\ old.tail = b.tail
      BY <3>2 DEF Longer
    <3> HIDE DEF old
    <3>4. Fine(x, zero) /\ Equal(x, old)
      BY <1>0, <3>2, <3>3, PushFine
    <3> QED
      BY <3>3, <3>4 DEF Equal
  <2> HIDE DEF x
  <2>3. "compound" \in FrameKinds /\ scope \in Seq(Nat)
    BY BeforeFacts DEF FrameKinds
  <2>4. f \in Frames /\ f.k = "compound"
    BY <2>3, FrameSym
  <2> HIDE DEF f
  <2>5. Nearby(frames')
    BY <2>1, <2>4 DEF Nearby, Loose, Enter
  <2> QED
    BY <1>0, <1>1, <1>2, <2>1, <2>2, <2>5, Filling0, Zenon
<1>4. CASE ~(Holds(b, s) /\ b.syms[Find(b, s)].ex)
  <2>1. UNCHANGED <<blocks, cur, frames>> /\ at' = at
    BY <1>1, <1>4 DEF Compound
  <2> QED
    BY <2>1, StopOrder
<1> QED
  BY <1>3, <1>4

\* The entry of an expression or a statement that waits for one.
LEMMA WaitOrder ==
  ASSUME NEW h, Before(h), Ordered(blocks, cur, frames, at), NEW g, Loose(g), Enter(g),
         blocks' = blocks, at' # "value"
  PROVE  Orders
BY SameOrder DEF Nearby, Enter

LEMMA OperandOrder ==
  ASSUME NEW h, Before(h), Ordered(blocks, cur, frames, at), NEW k, NEW g, Loose(g), Operand(k, g)
  PROVE  Orders
<1>1. Enter(g) /\ blocks' = blocks /\ at' = "expr"
  BY DEF Operand, Expression
<1> QED
  BY <1>1, WaitOrder

LEMMA OperandsOrder ==
  ASSUME NEW h, Before(h), Ordered(blocks, cur, frames, at),
         \/ \E s \in Visible : Set(s)
         \/ \E n \in 1 .. 2 : Linear(n)
         \/ Ternary
         \/ \E n \in 2 .. 3 : SetElement(n)
         \/ \E n \in 1 .. 2, postfix \in BOOLEAN : UpdateElement(n, postfix)
  PROVE  Orders
<1>0. /\ "set" \in FrameKinds /\ "linear" \in FrameKinds /\ "element" \in FrameKinds
      /\ "target" \in FrameKinds /\ "tcond" \in FrameKinds
  BY DEF FrameKinds
<1>1. CASE \E s \in Visible : Set(s)
  <2>1. PICK s \in Visible : Set(s)
    BY <1>1
  <2> DEFINE g == [Frame("set") EXCEPT !.sym = s]
  <2>2. Frame("set") \in Frames /\ Frame("set").k = "set"
    BY <1>0, FrameScope
  <2>3. s \in Nat
    BY VisibleNat DEF Before
  <2>4. g \in Frames /\ g.k = "set" /\ Operand("set", g)
    BY <2>1, <2>2, <2>3, WithSym DEF Set
  <2> HIDE DEF g
  <2> QED
    BY <2>4, OperandOrder DEF Loose
<1>2. CASE \E n \in 1 .. 2 : Linear(n)
  <2>1. PICK n \in 1 .. 2 : Linear(n)
    BY <1>2
  <2> DEFINE g == [Frame("linear") EXCEPT !.n = n, !.oth = n]
  <2>2. Frame("linear") \in Frames /\ Frame("linear").k = "linear"
    BY <1>0, FrameScope
  <2>3. n \in Nat
    BY <2>1
  <2>4. g \in Frames /\ g.k = "linear" /\ Operand("linear", g)
    BY <2>1, <2>2, <2>3, WithCount, Zenon DEF Linear
  <2> HIDE DEF g
  <2> QED
    BY <2>4, OperandOrder DEF Loose
<1>3. CASE Ternary
  <2>1. Frame("tcond") \in Frames /\ Frame("tcond").k = "tcond"
    BY <1>0, FrameScope
  <2>2. Operand("ternary", Frame("tcond")) /\ Loose(Frame("tcond"))
    BY <1>3, <2>1 DEF Ternary, Loose
  <2> QED
    BY <2>2, OperandOrder
<1>4. CASE \E n \in 2 .. 3 : SetElement(n)
  <2>1. PICK n \in 2 .. 3 : SetElement(n)
    BY <1>4
  <2> DEFINE g == [Frame("element") EXCEPT !.n = n, !.oth = n]
  <2>2. Frame("element") \in Frames /\ Frame("element").k = "element"
    BY <1>0, FrameScope
  <2>3. n \in Nat
    BY <2>1
  <2>4. g \in Frames /\ g.k = "element" /\ Operand("element", g)
    BY <2>1, <2>2, <2>3, WithCount, Zenon DEF SetElement
  <2> HIDE DEF g
  <2> QED
    BY <2>4, OperandOrder DEF Loose
<1>5. CASE \E n \in 1 .. 2, postfix \in BOOLEAN : UpdateElement(n, postfix)
  <2>1. PICK n \in 1 .. 2, postfix \in BOOLEAN : UpdateElement(n, postfix)
    BY <1>5
  <2> DEFINE g == [Frame("target") EXCEPT !.n = n, !.oth = n, !.done = postfix]
  <2>2. Frame("target") \in Frames /\ Frame("target").k = "target"
    BY <1>0, FrameScope
  <2>3. n \in Nat
    BY <2>1
  <2>4. g \in Frames /\ g.k = "target" /\ Operand("update", g)
    BY <2>1, <2>2, <2>3, WithDone, Zenon DEF UpdateElement
  <2> HIDE DEF g
  <2> QED
    BY <2>4, OperandOrder DEF Loose
<1> QED
  BY <1>1, <1>2, <1>3, <1>4, <1>5

LEMMA WaitsOrder ==
  ASSUME NEW h, Before(h), Ordered(blocks, cur, frames, at),
         DefineValue \/ Let \/ ExpressionStatement \/ If \/ Return
  PROVE  Orders
<1>1. CASE DefineValue \/ Let
  <2>1. PICK k \in {"define", "let"} :
          /\ Enter([Frame(k) EXCEPT !.sym = symbols']) /\ symbols' = symbols + 1
          /\ blocks' = blocks /\ at' = "expr"
    BY <1>1 DEF DefineValue, Let
  <2> DEFINE g == [Frame(k) EXCEPT !.sym = symbols']
  <2>2. k \in FrameKinds /\ symbols' \in Nat
    BY <2>1 DEF FrameKinds, Before, Types
  <2>3. Frame(k) \in Frames /\ Frame(k).k = k
    BY <2>2, FrameScope
  <2>4. g \in Frames /\ g.k = k /\ Enter(g)
    BY <2>1, <2>2, <2>3, WithSym
  <2> HIDE DEF g
  <2> QED
    BY <2>1, <2>4, WaitOrder DEF Loose
<1>2. CASE ExpressionStatement \/ If \/ Return
  <2>1. PICK k \in {"discard", "if", "return"} :
          Enter(Frame(k)) /\ blocks' = blocks /\ at' = "expr"
    BY <1>2 DEF ExpressionStatement, If, Return, Waits
  <2>2. k \in FrameKinds
    BY DEF FrameKinds
  <2>3. Loose(Frame(k))
    BY <2>2, FrameScope DEF Loose
  <2> QED
    BY <2>1, <2>3, WaitOrder
<1> QED
  BY <1>1, <1>2

-----------------------------------------------------------------------------
(* The ends of expressions.                                                *)

LEMMA TopFine ==
  ASSUME NEW h, Before(h), Ordered(blocks, cur, frames, at), at = "value", frames # <<>>
  PROVE  LET b == blocks[cur]
             g == h[Len(frames) - 1]
         IN /\ cur # NoBlock /\ b \in Block /\ Fine(b, 1) /\ Fine(b, 0)
            /\ top \in Frames /\ FrameOK(Len(blocks), top) /\ top.sym \in Nat
            /\ Below \in Seq(Frames) /\ g \in Nat /\ Len(b.stack) \in Nat
            /\ Len(b.stack) = g + Pushed(top)
<1>1. Ready(blocks, cur, frames, at, h)
  BY DEF Before
<1>2. /\ top \in Frames /\ FrameOK(Len(blocks), top) /\ h[Len(frames) - 1] \in Nat
      /\ Len(blocks[cur].stack) = h[Len(frames) - 1] + Pushed(top)
  BY <1>1, TopFacts
<1>3. top.sym \in Nat
  BY <1>2 DEF Frames
<1>4. Below \in Seq(Frames)
  <2>1. frames \in Seq(Frames)
    BY BeforeFacts
  <2> QED
    BY <2>1, BelowFacts DEF Below
<1> QED
  BY <1>2, <1>3, <1>4, ExprFine

LEMMA BelowNear ==
  ASSUME frames # <<>>
  PROVE  Nearby(Below)
BY DEF Nearby

LEMMA EndExpressionOrder ==
  ASSUME NEW h, Before(h), Ordered(blocks, cur, frames, at), EndExpression
  PROVE  Orders
<1>1. at = "value" /\ frames # <<>> /\ Done(Below, cur, blocks)
  BY DEF EndExpression, Returned, Waiting
<1>2. Below \in Seq(Frames)
  BY <1>1, TopFine
<1>3. blocks \in Seq(Block) /\ {} \subseteq Only(cur) /\ "stmt" # "value"
  BY BeforeFacts
<1>4. Sorted(blocks, blocks, {}) /\ Nearby(Below)
  BY <1>1, <1>3, SameSorted, BelowNear
<1>5. Ordered(blocks, cur, Below, "stmt")
  BY <1>3, <1>4, NearOrder
<1> QED
  BY <1>1, <1>2, <1>3, <1>5, DoneOrder

LEMMA ClauseOrder ==
  ASSUME NEW fs \in Seq(Frames), NEW bs, NEW kind, kind # "value", NEW more,
         AfterClause(fs, kind, more, cur, bs), Ordered(bs, cur, fs, "stmt")
  PROVE  Orders
<1>1. CASE more
  BY <1>1 DEF AfterClause, Produce, Orders, Ordered
<1>2. CASE ~more
  <2>1. Done(fs, cur, bs) /\ "stmt" # "value"
    BY <1>2 DEF AfterClause
  <2> QED
    BY <2>1, DoneOrder
<1> QED
  BY <1>1, <1>2

LEMMA EndClauseOrder ==
  ASSUME NEW h, Before(h), Ordered(blocks, cur, frames, at), NEW k \in {"define", "let"},
         NEW mode, mode # "value", NEW more, EndClause(k, mode, more)
  PROVE  Orders
<1> DEFINE b == blocks[cur]
           x == AddSymbol(b, top.sym, TRUE, LastInstruction(b))
           bs2 == [blocks EXCEPT ![cur] = x]
           zero == 0
           one == 1
<1>0. zero \in Nat /\ one \in Nat /\ zero + 1 = one /\ one = 1 /\ one + 0 >= 1 /\ "stmt" # "value"
  OBVIOUS
<1>1. at = "value" /\ frames # <<>> /\ AfterClause(Below, mode, more, cur, bs2)
  BY DEF EndClause, Returned, Waiting
<1>2. /\ cur # NoBlock /\ b \in Block /\ Fine(b, one) /\ top.sym \in Nat /\ Below \in Seq(Frames)
      /\ Len(b.stack) \in Nat
  BY <1>1, TopFine
<1>3. one + Len(b.stack) >= 1
  BY <1>2
<1> HIDE DEF zero, one
<1>4. x \in Block /\ x.tail = b.tail /\ Fine(x, zero)
  <2>1. LastInstruction(b) \in Numbers(b)
    BY <1>0, <1>2, <1>3, FineLast
  <2>2. Fine(b, zero + 1)
    BY <1>0, <1>2
  <2> HIDE DEF b
  <2>3. Fine(x, zero) /\ Equal(x, b)
    BY <1>0, <1>2, <2>1, <2>2, AddFine, Zenon
  <2> QED
    BY <2>3, Zenon DEF Equal
<1> HIDE DEF x
<1>5. Ordered(bs2, cur, Below, "stmt")
  BY <1>0, <1>1, <1>2, <1>4, FillOrder, BelowNear
<1> HIDE DEF bs2
<1> QED
  BY <1>1, <1>2, <1>5, ClauseOrder

LEMMA EndSetOrder ==
  ASSUME NEW h, Before(h), Ordered(blocks, cur, frames, at), EndSet
  PROVE  Orders
<1> DEFINE b == blocks[cur]
           x == SetSymbol(b, top.sym, LastInstruction(b))
           one == 1
<1>0. one \in Nat /\ one = 1
  OBVIOUS
<1>1. at = "value" /\ frames # <<>>
  BY DEF EndSet, Returned, Waiting
<1>2. cur # NoBlock /\ b \in Block /\ Fine(b, one) /\ top.sym \in Nat /\ Len(b.stack) \in Nat
  BY <1>1, TopFine
<1>3. one + Len(b.stack) >= 1
  BY <1>2
<1> HIDE DEF one
<1>4. CASE Holds(b, top.sym)
  <2>1. Value(cur, [blocks EXCEPT ![cur] = x]) /\ frames' = Below
    BY <1>4 DEF EndSet, Assign
  <2>2. LastInstruction(b) \in Numbers(b)
    BY <1>0, <1>2, <1>3, FineLast
  <2>3. Fine(x, one) /\ Equal(x, b)
    <3> HIDE DEF b
    <3> QED
      BY <1>0, <1>2, <1>4, <2>2, SetFine
  <2>4. x \in Block /\ x.tail = b.tail /\ Fine(x, 1)
    BY <1>0, <2>3 DEF Equal
  <2> HIDE DEF x
  <2> QED
    BY <1>1, <1>2, <2>1, <2>4, ValueOrder, BelowNear
<1>5. CASE ~Holds(b, top.sym)
  BY <1>5, StopOrder DEF EndSet
<1> QED
  BY <1>4, <1>5

LEMMA EndCompoundOrder ==
  ASSUME NEW h, Before(h), Ordered(blocks, cur, frames, at), EndCompound
  PROVE  Orders
<1> DEFINE b == blocks[cur]
           new == Compute(b)
           x == SetSymbol(new, top.sym, LastInstruction(new))
           one == 1
           three == 3
<1>0. /\ one \in Nat /\ three \in Nat /\ one + 2 = three /\ one = 1 /\ one <= three /\ one >= 1
      /\ one + 0 >= 1 /\ three >= 1
  OBVIOUS
<1>1. at = "value" /\ frames # <<>> /\ top.k = "compound" /\ frames' = Below
      /\ Value(cur, [blocks EXCEPT ![cur] = x])
  BY DEF EndCompound, Returned, Waiting
<1>2. /\ cur # NoBlock /\ b \in Block /\ Fine(b, one) /\ top.sym \in Nat /\ Len(b.stack) \in Nat
      /\ h[Len(frames) - 1] \in Nat /\ Len(b.stack) = h[Len(frames) - 1] + Pushed(top)
  BY <1>1, TopFine
<1>3. 1 <= Len(b.stack)
  <2>1. Pushed(top) = 1
    BY <1>1 DEF Pushed
  <2> QED
    BY <1>2, <2>1
<1>4. Holds(b, top.sym)
  <2>1. Targets(Lists(blocks), cur, frames) /\ Len(frames) \in DOMAIN frames
        /\ top = frames[Len(frames)]
    BY <1>1, BeforeFacts
  <2>2. \E q \in DOMAIN Lists(blocks)[cur] : Lists(blocks)[cur][q] = top.sym
    BY <1>1, <2>1 DEF Targets
  <2>3. cur \in DOMAIN blocks
    BY <1>1, ExprFacts
  <2> QED
    BY <2>2, <2>3, HoldsNames DEF Lists
<1> HIDE DEF one, three
<1>5. x \in Block /\ x.tail = b.tail /\ Fine(x, 1)
  <2> HIDE DEF b
  <2>1. Spare(new, b, one + 2, 1) /\ new.syms = b.syms /\ LastInstruction(new) = NextInstruction(b)
    BY <1>0, <1>2, <1>3, ComputeFine
  <2>2. Spare(new, b, three, one)
    BY <1>0, <2>1
  <2>3. NextInstruction(b) \in Numbers(new)
    BY <1>0, <1>2, <2>2, SpareNumbers
  <2>4. new \in Block /\ new.tail = b.tail /\ Fine(new, one)
    BY <1>0, <1>2, <2>2, SpareLess
  <2>5. Holds(new, top.sym) /\ LastInstruction(new) \in Numbers(new)
    BY <1>4, <2>1, <2>3 DEF Holds
  <2> HIDE DEF new
  <2>6. Fine(x, one) /\ Equal(x, new)
    BY <1>0, <1>2, <2>4, <2>5, SetFine
  <2> QED
    BY <1>0, <2>4, <2>6 DEF Equal
<1> HIDE DEF x
<1> QED
  BY <1>1, <1>2, <1>5, ValueOrder, BelowNear

\* One operand more on the stack.
LEMMA MoreOrder ==
  ASSUME NEW h, Before(h), Ordered(blocks, cur, frames, at), at = "value", frames # <<>>,
         top.k \in {"linear", "element", "target"}, top.n > 1,
         Replace([top EXCEPT !.n = top.n - 1]), at' = "expr", cur' = cur,
         blocks' = [blocks EXCEPT ![cur] = PushStack(blocks[cur])]
  PROVE  Orders
<1> DEFINE g == [top EXCEPT !.n = top.n - 1]
           b == blocks[cur]
           x == PushStack(b)
           zero == 0
<1>0. zero \in Nat /\ zero + 1 = 1
  OBVIOUS
<1>1. cur # NoBlock /\ b \in Block /\ Fine(b, 1) /\ top \in Frames
  BY TopFine
<1>2. g \in Frames /\ g.k = top.k
  BY <1>1, FrameLess
<1>3. Replace(g) /\ blocks' = [blocks EXCEPT ![cur] = x]
  OBVIOUS
<1> HIDE DEF g, zero
<1>4. x \in Block /\ x.tail = b.tail /\ Fine(x, zero)
  <2>1. Fine(b, zero + 1)
    BY <1>0, <1>1
  <2> HIDE DEF b
  <2>2. Fine(x, zero) /\ Equal(x, b)
    BY <1>0, <1>1, <2>1, PushFine
  <2> QED
    BY <2>2 DEF Equal
<1> HIDE DEF x
<1>5. Nearby(frames')
  BY <1>2, <1>3 DEF Nearby, Loose, Replace
<1> QED
  BY <1>0, <1>1, <1>3, <1>4, <1>5, Filling0, Zenon

LEMMA EndOperandOrder ==
  ASSUME NEW h, Before(h), Ordered(blocks, cur, frames, at), EndOperand
  PROVE  Orders
<1> DEFINE c == blocks[cur]
           b == PushStack(c)
           n == top.oth
           args == Operands(b, n)
           p == PopStack(b, n)
           x == Emit(p, "calc", args)
           g == h[Len(frames) - 1]
           zero == 0
<1>0. zero \in Nat /\ zero + 1 = 1
  OBVIOUS
<1>1. at = "value" /\ frames # <<>> /\ top.k = "linear"
  BY DEF EndOperand, Returned, Waiting
<1>2. /\ cur # NoBlock /\ c \in Block /\ Fine(c, 1) /\ FrameOK(Len(blocks), top)
      /\ g \in Nat /\ Len(c.stack) = g + Pushed(top)
  BY <1>1, TopFine
<1>3. CASE top.n > 1
  <2>1. /\ Replace([top EXCEPT !.n = top.n - 1]) /\ at' = "expr" /\ cur' = cur
        /\ blocks' = [blocks EXCEPT ![cur] = b]
    BY <1>3 DEF EndOperand, Produce
  <2> QED
    BY <1>1, <1>3, <2>1, MoreOrder
<1>4. CASE ~(top.n > 1)
  <2>1. frames' = Below /\ Value(cur, [blocks EXCEPT ![cur] = x])
    BY <1>4 DEF EndOperand, Operands
  <2>2. top.n = 1 /\ n \in 1 .. 2
    BY <1>1, <1>2, <1>4 DEF FrameOK
  <2>3. Pushed(top) = n - 1
    BY <1>1, <2>2 DEF Pushed
  <2>4. x \in Block /\ x.tail = c.tail /\ Fine(x, 1)
    <3>1. Len(c.stack) + 1 = g + n
      BY <1>2, <2>2, <2>3
    <3>2. Fine(c, zero + 1)
      BY <1>0, <1>2
    <3> HIDE DEF c, zero, g, n
    <3>3. Fine(b, zero) /\ Equal(b, c) /\ Len(b.stack) = Len(c.stack) + 1
      BY <1>0, <1>2, <3>2, PushFine
    <3>4. b \in Block /\ b.tail = c.tail /\ n \in Nat /\ n <= Len(b.stack)
      BY <1>2, <2>2, <3>1, <3>3 DEF Equal
    <3> HIDE DEF b
    <3>5. args \in Seq(Int) /\ \A k \in DOMAIN args : args[k] \in Numbers(b)
      BY <1>0, <3>3, <3>4, OperandsFine
    <3>6. Fine(p, zero + n) /\ Equal(p, b)
      BY <1>0, <3>3, <3>4, PopFine
    <3>7. p \in Block /\ p.tail = b.tail /\ Numbers(p) = Numbers(b) /\ zero + n \in Nat
      BY <1>0, <3>4, <3>6 DEF Equal
    <3> HIDE DEF args, p
    <3>8. "calc" \in Ops
      BY DEF Ops
    <3>9. Fine(x, zero + n + 1) /\ Longer(x, p)
      BY <3>5, <3>6, <3>7, <3>8, EmitFine
    <3>10. x \in Block /\ x.tail = c.tail /\ zero + n + 1 \in Nat /\ 1 \in Nat /\ 1 <= zero + n + 1
      BY <1>0, <3>4, <3>7, <3>9 DEF Longer
    <3> HIDE DEF x
    <3> QED
      BY <3>9, <3>10, FineLess
  <2> HIDE DEF x
  <2> QED
    BY <1>1, <1>2, <2>1, <2>4, ValueOrder, BelowNear
<1> QED
  BY <1>3, <1>4

LEMMA EndElementOrder ==
  ASSUME NEW h, Before(h), Ordered(blocks, cur, frames, at), EndElement
  PROVE  Orders
<1> DEFINE b == blocks[cur]
           x == Store(b, top.oth)
           g == h[Len(frames) - 1]
<1>1. at = "value" /\ frames # <<>> /\ top.k = "element"
  BY DEF EndElement, Returned, Waiting
<1>2. /\ cur # NoBlock /\ b \in Block /\ Fine(b, 0) /\ FrameOK(Len(blocks), top)
      /\ g \in Nat /\ Len(b.stack) = g + Pushed(top) /\ Len(b.stack) \in Nat
  BY <1>1, TopFine
<1>3. CASE top.n > 1
  <2>1. /\ Replace([top EXCEPT !.n = top.n - 1]) /\ at' = "expr" /\ cur' = cur
        /\ blocks' = [blocks EXCEPT ![cur] = PushStack(b)]
    BY <1>3 DEF EndElement, Produce
  <2> QED
    BY <1>1, <1>3, <2>1, MoreOrder
<1>4. CASE ~(top.n > 1)
  <2>1. frames' = Below /\ Value(cur, [blocks EXCEPT ![cur] = x])
    BY <1>4 DEF EndElement
  <2>2. top.n = 1 /\ top.oth \in 2 .. 3
    BY <1>1, <1>2, <1>4 DEF FrameOK
  <2>3. Pushed(top) = top.oth - 1
    BY <1>1, <2>2 DEF Pushed
  <2>4. top.oth - 1 <= Len(b.stack)
    BY <1>2, <2>2, <2>3
  <2>5. Fills(x, b, Len(b.stack) - (top.oth - 1)) /\ Fine(x, 1)
    BY <1>2, <2>2, <2>4, StoreFills, StoreFine, Zenon
  <2> HIDE DEF x
  <2> QED
    BY <1>1, <1>2, <2>1, <2>5, ValueOrder, BelowNear DEF Fills
<1> QED
  BY <1>3, <1>4

\* The value of an update: the instruction before the store.
LEMMA UpdateFine ==
  ASSUME NEW b \in Block, Fine(b, 0), NEW n \in 1 .. 2, n + 1 <= Len(b.stack), NEW x,
         \/ x = Mirror(Restore(b, n), LastInstruction(Restore(b, n)) - 1)
         \/ \E i \in Numbers(b) : x = Mirror(Restore(b, n), i)
  PROVE  x \in Block /\ x.tail = b.tail /\ Fine(x, 1)
<1> DEFINE r == Restore(b, n)
           zero == 0
           two == 2
           three == 3
<1>0. /\ zero \in Nat /\ two \in Nat /\ three \in Nat /\ zero + 3 = three /\ two = 2 /\ zero = 0
      /\ zero <= three /\ two >= 1
  OBVIOUS
<1> HIDE DEF zero, two, three
<1>1. Spare(r, b, zero + 3, 2)
  BY <1>0, RestoreFine
<1>2. Spare(r, b, three, two)
  BY <1>0, <1>1
<1> HIDE DEF r
<1>3. r \in Block /\ r.tail = b.tail /\ Fine(r, zero)
  BY <1>0, <1>2, SpareLess, Zenon
<1>4. (\A i \in Numbers(b) : i \in Numbers(r)) /\ NextInstruction(b) \in Nat
  BY <1>0, <1>2, SpareNumbers
<1>5. LastInstruction(r) - 1 \in Numbers(r)
  <2>1. NextInstruction(b) + 2 <= NextInstruction(r)
    BY <1>1 DEF Spare
  <2>2. /\ LastInstruction(r) = NextInstruction(r) - 1 /\ NextInstruction(r) \in Nat
        /\ Numbers(r) = 0 .. NextInstruction(r) - 1
    BY <1>3, BlockParts
  <2> QED
    BY <1>4, <2>1, <2>2
<1>6. \E i \in Numbers(r) : x = Mirror(r, i)
  BY <1>4, <1>5 DEF r
<1>7. PICK i \in Numbers(r) : x = Mirror(r, i)
  BY <1>6
<1>8. Fine(x, 1) /\ Longer(x, r)
  BY <1>0, <1>3, <1>7, MirrorFine1
<1> QED
  BY <1>3, <1>8 DEF Longer

LEMMA EndUpdateOrder ==
  ASSUME NEW h, Before(h), Ordered(blocks, cur, frames, at), EndUpdate
  PROVE  Orders
<1> DEFINE b == blocks[cur]
           r == Restore(b, top.oth)
           x == Mirror(r, LastInstruction(r) - 1)
           g == h[Len(frames) - 1]
<1>1. at = "value" /\ frames # <<>> /\ top.k = "update" /\ frames' = Below
      /\ Value(cur, [blocks EXCEPT ![cur] = x])
  BY DEF EndUpdate, Returned, Waiting
<1>2. /\ cur # NoBlock /\ b \in Block /\ Fine(b, 0) /\ FrameOK(Len(blocks), top)
      /\ g \in Nat /\ Len(b.stack) = g + Pushed(top) /\ Len(b.stack) \in Nat
  BY <1>1, TopFine
<1>3. top.oth \in 1 .. 2 /\ Pushed(top) = top.oth + 1
  BY <1>1, <1>2 DEF FrameOK, Pushed
<1>4. top.oth + 1 <= Len(b.stack)
  BY <1>2, <1>3
<1>5. x \in Block /\ x.tail = b.tail /\ Fine(x, 1)
  BY <1>2, <1>3, <1>4, UpdateFine
<1> HIDE DEF x
<1> QED
  BY <1>1, <1>2, <1>5, ValueOrder, BelowNear

LEMMA EndTargetOrder ==
  ASSUME NEW h, Before(h), Ordered(blocks, cur, frames, at), EndTarget
  PROVE  Orders
<1> DEFINE b == blocks[cur]
           n == top.oth
           old == Load(b, n)
           g == h[Len(frames) - 1]
           zero == 0
<1>0. zero \in Nat /\ zero = 0 /\ 1 \in Nat /\ zero + 1 = 1 /\ zero <= 1
  OBVIOUS
<1>1. at = "value" /\ frames # <<>> /\ top.k = "target"
  BY DEF EndTarget, Returned, Waiting
<1>2. /\ cur # NoBlock /\ b \in Block /\ Fine(b, 1) /\ top \in Frames /\ FrameOK(Len(blocks), top)
      /\ g \in Nat /\ Len(b.stack) = g + Pushed(top) /\ Len(b.stack) \in Nat
  BY <1>1, TopFine
<1>3. CASE top.n > 1
  <2>1. /\ Replace([top EXCEPT !.n = top.n - 1]) /\ at' = "expr" /\ cur' = cur
        /\ blocks' = [blocks EXCEPT ![cur] = PushStack(b)]
    BY <1>3 DEF EndTarget, Produce
  <2> QED
    BY <1>1, <1>3, <2>1, MoreOrder
<1>4. CASE ~(top.n > 1)
  <2>1. top.n = 1 /\ n \in 1 .. 2
    BY <1>1, <1>2, <1>4 DEF FrameOK
  <2>2. Pushed(top) = n - 1
    BY <1>1, <2>1 DEF Pushed
  <2>3. n - 1 <= Len(b.stack)
    BY <1>2, <2>1, <2>2
  <2>4. /\ Fine(old, zero) /\ old \in Block /\ Len(old.stack) = Len(b.stack) + 2
        /\ old.stack[1] \in Numbers(old)
    BY <1>0, <1>2, <2>1, <2>3, LoadFine, Zenon
  <2>5. old.tail = b.tail
    BY <1>2, <2>1, <2>3, LoadFills, Zenon DEF Fills
  <2>6. n + 1 <= Len(old.stack)
    BY <1>2, <2>1, <2>3, <2>4
  <2> HIDE DEF zero
  <2>7. CASE top.done
    <3> DEFINE e == Emit(old, "lit", <<>>)
               r == Restore(e, n)
               i == old.stack[1]
               x == Mirror(r, i)
    <3>1. frames' = Below /\ Value(cur, [blocks EXCEPT ![cur] = x])
      BY <1>4, <2>7 DEF EndTarget
    <3> HIDE DEF old, b
    <3>2. Fine(e, zero + 1) /\ Longer(e, old)
      BY <1>0, <2>4, LiteralFine
    <3>3. e \in Block /\ e.tail = old.tail /\ e.stack = old.stack /\ i \in Numbers(e)
      BY <2>4, <3>2 DEF Longer
    <3>4. Fine(e, zero)
      BY <1>0, <3>2, <3>3, FineLess
    <3> HIDE DEF e, i
    <3>5. x \in Block /\ x.tail = e.tail /\ Fine(x, 1)
      BY <1>0, <2>1, <2>6, <3>3, <3>4, UpdateFine
    <3> HIDE DEF x
    <3> QED
      BY <1>1, <1>2, <2>5, <3>1, <3>3, <3>5, ValueOrder, BelowNear DEF b
  <2>8. CASE ~top.done
    <3> DEFINE f == [top EXCEPT !.k = "update"]
    <3>1. /\ Replace(f) /\ at' = "expr" /\ cur' = cur
          /\ blocks' = [blocks EXCEPT ![cur] = old]
      BY <1>4, <2>8 DEF EndTarget, Produce
    <3>2. f \in Frames /\ f.k = "update"
      BY <1>2, Zenon DEF Frames, FrameKinds
    <3> HIDE DEF f, old
    <3>3. Nearby(frames')
      BY <1>1, <3>1, <3>2 DEF Nearby, Loose, Replace
    <3> QED
      BY <1>0, <1>2, <2>4, <2>5, <3>1, <3>3, Filling0, Zenon
  <2> QED
    BY <2>7, <2>8
<1> QED
  BY <1>3, <1>4

-----------------------------------------------------------------------------
(* A child block.                                                          *)

\* The arguments injected for a block like y are instructions of x.
Fitted(x, y) ==
  InjectParams(x, y).inject = "ok" =>
    \A k \in DOMAIN InjectParams(x, y).args : InjectParams(x, y).args[k] \in Numbers(x)

\* No parent has less on its stack than the first.
Evenly(bs, ps) == \A b \in Blocks(ps) : Len(bs[ps[1]].stack) <= Len(bs[b].stack)

\* The values of a child are its parameters.
LEMMA ChildNumbers ==
  ASSUME NEW bs \in Seq(Block), NEW c \in DOMAIN bs, NEW ps,
         Blocks(ps) \subseteq DOMAIN bs, 1 \in DOMAIN ps, Fitting(bs, c, ps),
         \A b \in Blocks(ps) : Located(bs[b])
  PROVE  LET y == ChildBlock(bs, c, ps)
             r == One(bs[c].hasRet)
             n == Len(bs[c].syms)
             m == Len(bs[ps[1]].stack)
         IN /\ y \in Block /\ y.tail = OpenTail /\ r \in {0, 1} /\ n \in Nat /\ m \in Nat
            /\ y.code = <<>> /\ y.hasRet = bs[c].hasRet /\ y.retIns = 0
            /\ ParamCount(y) = r + n + m
            /\ Len(y.syms) = n /\ \A q \in 1 .. n : y.syms[q].ex /\ y.syms[q].ins = r + q - 1
            /\ Len(y.stack) = m /\ \A i \in 1 .. m : y.stack[i] = r + n + i - 1
<1> DEFINE y == ChildBlock(bs, c, ps)
           live == Common(bs, c, ps)
           ctx == bs[c]
           stk == bs[ps[1]].stack
           r == One(ctx.hasRet)
           n == Len(ctx.syms)
           m == Len(stk)
<1>1. y \in Block /\ y.tail = OpenTail
  BY ChildFacts
<1>2. ps[1] \in DOMAIN bs /\ bs[ps[1]] \in Block /\ ctx \in Block
  BY DEF Blocks
<1>3. /\ r \in {0, 1} /\ n \in Nat /\ m \in Nat /\ DOMAIN ctx.syms = 1 .. n
      /\ DOMAIN stk = 1 .. m
  <2>1. /\ One(ctx.hasRet) \in {0, 1} /\ Len(ctx.syms) \in Nat
        /\ DOMAIN ctx.syms = 1 .. Len(ctx.syms)
    <3> HIDE DEF ctx
    <3> QED
      BY <1>2, BlockParts
  <2>2. Len(bs[ps[1]].stack) \in Nat /\ DOMAIN bs[ps[1]].stack = 1 .. Len(bs[ps[1]].stack)
    BY <1>2, BlockParts
  <2> QED
    BY <2>1, <2>2
<1>4. live = 1 .. n
  <2>1. ASSUME NEW q \in 1 .. n, NEW i \in DOMAIN ps
        PROVE  q \in DOMAIN bs[ps[i]].syms /\ bs[ps[i]].syms[q].ex
    <3>1. ps[i] \in Blocks(ps) /\ ps[i] \in DOMAIN bs
      BY <2>1 DEF Blocks
    <3>2. Begins(Lists(bs)[c], Lists(bs)[ps[i]])
      BY <3>1 DEF Fitting
    <3>3. /\ Lists(bs)[c] = Names(ctx.syms) /\ Len(Names(ctx.syms)) = n
          /\ Lists(bs)[ps[i]] = Names(bs[ps[i]].syms)
          /\ Len(Names(bs[ps[i]].syms)) = Len(bs[ps[i]].syms)
      BY <3>1, ListsType
    <3>4. n <= Len(bs[ps[i]].syms)
      BY <3>2, <3>3 DEF Begins
    <3>5. DOMAIN bs[ps[i]].syms = 1 .. Len(bs[ps[i]].syms) /\ Len(bs[ps[i]].syms) \in Nat
      <4>1. bs[ps[i]] \in Block
        BY <3>1
      <4> QED
        BY <4>1, BlockParts, Zenon
    <3>6. q \in DOMAIN bs[ps[i]].syms
      BY <1>3, <2>1, <3>4, <3>5
    <3> QED
      BY <3>1, <3>6 DEF Located
  <2> QED
    BY <1>3, <2>1 DEF Common
<1>5. /\ y.par = [ret |-> ctx.hasRet, live |-> live, stk |-> m, extra |-> 0]
      /\ y.hasRet = ctx.hasRet /\ y.retIns = 0 /\ y.code = <<>>
      /\ y.syms = [q \in DOMAIN ctx.syms |->
                     [s |-> ctx.syms[q].s, ex |-> q \in live,
                      ins |-> IF q \in live THEN Slot(ctx.hasRet, live, q) ELSE Junk]]
      /\ y.stack = [i \in DOMAIN stk |-> (r + Cardinality(live)) + i - 1]
  BY DEF ChildBlock, EmptyBlock
<1> HIDE DEF y, live, ctx, stk, m, n
<1>6. IsFiniteSet(live) /\ Cardinality(live) = n
  BY <1>3, <1>4, FS_Interval
<1>7. ASSUME NEW q \in 1 .. n
      PROVE  y.syms[q].ex /\ y.syms[q].ins = r + q - 1
  <2>1. y.syms[q] = [s |-> ctx.syms[q].s, ex |-> q \in live,
                     ins |-> IF q \in live THEN Slot(ctx.hasRet, live, q) ELSE Junk]
    BY <1>3, <1>5, <1>7
  <2>2. y.syms[q].ex /\ y.syms[q].ins = Slot(ctx.hasRet, live, q)
    <3>1. q \in live
      BY <1>4, <1>7
    <3>2. /\ y.syms[q].ex = (q \in live)
          /\ y.syms[q].ins = IF q \in live THEN Slot(ctx.hasRet, live, q) ELSE Junk
      BY <2>1
    <3>3. y.syms[q].ex
      BY <3>1, <3>2, Zenon
    <3> QED
      BY <3>1, <3>2, <3>3
  <2>3. {p \in live : p < q} = 1 .. q - 1
    BY <1>3, <1>4, <1>7
  <2>4. Cardinality(1 .. q - 1) = q - 1
    <3>1. 1 \in Int /\ q - 1 \in Int /\ (1 > q - 1 => q = 1)
      BY <1>3, <1>7
    <3>2. Cardinality(1 .. q - 1) = IF 1 > q - 1 THEN 0 ELSE (q - 1) - 1 + 1
      BY <3>1, FS_Interval
    <3> QED
      BY <1>3, <1>7, <3>1, <3>2
  <2>5. Slot(ctx.hasRet, live, q) = r + (q - 1)
    BY <2>3, <2>4, Zenon DEF Slot
  <2> QED
    BY <1>3, <1>7, <2>2, <2>5
<1>8. Len(y.syms) = n /\ Len(y.stack) = m
  <2>1. DOMAIN y.syms = 1 .. n /\ DOMAIN y.stack = 1 .. m
    BY <1>3, <1>5
  <2>2. y.syms \in Seq(Entry) /\ y.stack \in Seq(Int)
    BY <1>1 DEF Block
  <2> QED
    BY <1>3, <2>1, <2>2
<1>9. \A i \in 1 .. m : y.stack[i] = r + n + i - 1
  BY <1>3, <1>5, <1>6
<1>10. ParamCount(y) = r + n + m
  <2>1. /\ One(y.par.ret) = r /\ Cardinality(y.par.live) = n
        /\ y.par.stk = m /\ y.par.extra = 0
    BY <1>5, <1>6
  <2>2. ParamCount(y) = r + n + m + 0
    BY <2>1 DEF ParamCount
  <2> QED
    BY <1>3, <2>2
<1>11. /\ y \in Block /\ y.tail = OpenTail /\ r \in {0, 1} /\ n \in Nat /\ m \in Nat
       /\ y.code = <<>> /\ y.hasRet = bs[c].hasRet /\ y.retIns = 0
       /\ ParamCount(y) = r + n + m
       /\ Len(y.syms) = n /\ (\A q \in 1 .. n : y.syms[q].ex /\ y.syms[q].ins = r + q - 1)
       /\ Len(y.stack) = m /\ \A i \in 1 .. m : y.stack[i] = r + n + i - 1
  BY <1>1, <1>3, <1>5, <1>7, <1>8, <1>9, <1>10 DEF ctx
<1> QED
  BY <1>11 DEF y, ctx, stk, m, n

LEMMA ChildFine ==
  ASSUME NEW bs \in Seq(Block), NEW c \in DOMAIN bs, NEW ps,
         Blocks(ps) \subseteq DOMAIN bs, 1 \in DOMAIN ps, Fitting(bs, c, ps),
         \A b \in Blocks(ps) : Located(bs[b])
  PROVE  LET y == ChildBlock(bs, c, ps)
         IN y \in Block /\ y.tail = OpenTail /\ Fine(y, 0) /\ Terminated(y)
<1> DEFINE y == ChildBlock(bs, c, ps)
           r == One(bs[c].hasRet)
           n == Len(bs[c].syms)
           m == Len(bs[ps[1]].stack)
<1>1. /\ y \in Block /\ y.tail = OpenTail /\ r \in {0, 1} /\ n \in Nat /\ m \in Nat
      /\ y.code = <<>> /\ y.hasRet = bs[c].hasRet /\ y.retIns = 0
      /\ ParamCount(y) = r + n + m
      /\ Len(y.syms) = n /\ (\A q \in 1 .. n : y.syms[q].ex /\ y.syms[q].ins = r + q - 1)
      /\ Len(y.stack) = m /\ \A i \in 1 .. m : y.stack[i] = r + n + i - 1
  BY ChildNumbers
<1>2. y.hasRet => r = 1
  BY <1>1 DEF One
<1>3. One(y.hasRet) = r
  BY <1>1
<1> HIDE DEF y, r, n, m
<1>4. /\ NextInstruction(y) = ParamCount(y) + Len(y.code)
      /\ Numbers(y) = 0 .. NextInstruction(y) - 1
      /\ DOMAIN y.syms = 1 .. Len(y.syms) /\ DOMAIN y.stack = 1 .. Len(y.stack)
      /\ DOMAIN y.code = 1 .. Len(y.code)
  BY <1>1, BlockParts, Zenon
<1>5. Len(y.code) = 0
  BY <1>1
<1>6. NextInstruction(y) = r + n + m /\ Numbers(y) = 0 .. r + n + m - 1
  BY <1>1, <1>4, <1>5
<1>7. Backward(y)
  BY <1>4, <1>5 DEF Backward
<1>8. Located(y)
  <2>1. \A i \in DOMAIN y.stack : y.stack[i] \in Numbers(y)
    BY <1>1, <1>4, <1>6
  <2>2. ASSUME NEW q \in DOMAIN y.syms
        PROVE  y.syms[q].ex /\ y.syms[q].ins \in Numbers(y)
    <3>1. q \in 1 .. n
      BY <1>1, <1>4, <2>2
    <3>2. y.syms[q].ex /\ y.syms[q].ins = r + q - 1
      BY <1>1, <3>1, Zenon
    <3>3. r + q - 1 \in 0 .. r + n + m - 1
      BY <1>1, <3>1
    <3> QED
      BY <1>6, <3>2, <3>3
  <2>3. y.hasRet => y.retIns \in Numbers(y)
    BY <1>1, <1>2, <1>6
  <2> QED
    BY <2>1, <2>2, <2>3 DEF Located
<1>9. Room(y, 0)
  <2>1. Used(y) = r + n + m
    BY <1>1, <1>3 DEF Used
  <2> QED
    BY <1>1, <1>6, <2>1 DEF Room
<1>10. y.tail.type = "open"
  BY <1>1 DEF OpenTail
<1>11. y \in Block /\ y.tail = OpenTail /\ Fine(y, 0) /\ Terminated(y)
  BY <1>1, <1>7, <1>8, <1>9, <1>10 DEF Fine, Terminated
<1> QED
  BY <1>11 DEF y

\* A parent has everything its child takes.
LEMMA ChildFitted ==
  ASSUME NEW bs \in Seq(Block), NEW c \in DOMAIN bs, NEW ps,
         Blocks(ps) \subseteq DOMAIN bs, 1 \in DOMAIN ps, Fitting(bs, c, ps),
         \A b \in Blocks(ps) : Located(bs[b]), Evenly(bs, ps),
         NEW b \in Blocks(ps), bs[c].hasRet => bs[b].hasRet, Room(bs[b], 0)
  PROVE  Fitted(bs[b], ChildBlock(bs, c, ps))
<1> DEFINE y == ChildBlock(bs, c, ps)
           x == bs[b]
           r == One(bs[c].hasRet)
           n == Len(bs[c].syms)
           m == Len(bs[ps[1]].stack)
           v == One(x.hasRet)
           w == Len(x.syms)
           z == Len(x.stack)
<1>1. /\ y \in Block /\ r \in {0, 1} /\ n \in Nat /\ m \in Nat
      /\ Len(y.stack) = m /\ \A i \in 1 .. m : y.stack[i] = r + n + i - 1
  BY ChildNumbers
<1>2. x \in Block /\ b \in DOMAIN bs
  OBVIOUS
<1>3. /\ NextInstruction(x) \in Nat /\ Numbers(x) = 0 .. NextInstruction(x) - 1
      /\ v \in {0, 1} /\ w \in Nat /\ z \in Nat /\ Used(x) = v + w + z
  <2>1. /\ NextInstruction(x) \in Nat /\ Numbers(x) = 0 .. NextInstruction(x) - 1
        /\ One(x.hasRet) \in {0, 1} /\ Len(x.syms) \in Nat /\ Len(x.stack) \in Nat
    <3> HIDE DEF x
    <3> QED
      BY <1>2, BlockParts
  <2> QED
    BY <2>1 DEF Used
<1>4. r <= v
  BY DEF One
<1>5. n <= w
  <2>1. Begins(Lists(bs)[c], Lists(bs)[b])
    BY DEF Fitting
  <2>2. /\ Len(Lists(bs)[c]) = n /\ Len(Lists(bs)[b]) = w
    BY <1>2, ListsType
  <2> QED
    BY <2>1, <2>2 DEF Begins
<1>6. m <= z
  BY DEF Evenly
<1>7. v + w + z + 0 <= NextInstruction(x)
  BY <1>3 DEF Room
<1>8. DOMAIN y.stack = 1 .. m
  <2>1. DOMAIN y.stack = 1 .. Len(y.stack)
    <3> HIDE DEF y
    <3> QED
      BY <1>1, BlockParts
  <2> QED
    BY <1>1, <2>1
<1>9. InjectParams(x, y).args \in {<<>>, y.stack}
  BY DEF InjectParams
<1> HIDE DEF x, y, r, n, m, v, w, z
<1>10. ASSUME NEW k \in DOMAIN y.stack
       PROVE  y.stack[k] \in Numbers(x)
  <2>1. k \in 1 .. m /\ y.stack[k] = r + n + k - 1
    BY <1>1, <1>8, <1>10
  <2>2. r + n + m <= NextInstruction(x)
    BY <1>1, <1>3, <1>4, <1>5, <1>6, <1>7
  <2>3. r + n + k - 1 \in 0 .. NextInstruction(x) - 1
    BY <1>1, <1>3, <2>1, <2>2
  <2> QED
    BY <1>3, <2>1, <2>3
<1>11. Fitted(x, y)
  BY <1>9, <1>10 DEF Fitted
<1> QED
  BY <1>11 DEF x, y

-----------------------------------------------------------------------------
(* The tails that lead to blocks.                                          *)

LEMMA JoinToFine ==
  ASSUME NEW b \in Block, Fine(b, 0), NEW d \in Nat, NEW y \in Block, Fitted(b, y)
  PROVE  Fine(JoinTo(b, d, y), 0) /\ Terminated(JoinTo(b, d, y))
<1> DEFINE r == AddBlockref(b, d)
           i == InjectParams(b, y)
           t == [type |-> "goto", cond |-> 0, first |-> LastInstruction(r),
                 second |-> 0, live |-> i.live, args |-> i.args, inject |-> i.inject]
           x == [r EXCEPT !.tail = t]
           zero == 0
<1>1. JoinTo(b, d, y) = x
  BY DEF JoinTo
<1>2. zero \in Nat /\ zero <= zero + 1
  OBVIOUS
<1>3. r \in Block
  BY AddBlockrefBlock
<1>4. Fine(r, zero + 1) /\ Longer(r, b)
  <2>1. Fine(b, zero)
    OBVIOUS
  <2> HIDE DEF zero
  <2> QED
    BY <1>2, <2>1, RefFine
<1> HIDE DEF r
<1>5. Fine(r, 0)
  <2>1. zero + 1 \in Nat
    OBVIOUS
  <2> HIDE DEF zero
  <2>2. Fine(r, zero)
    BY <1>2, <1>3, <1>4, <2>1, FineLess
  <2> QED
    BY <2>2 DEF zero
<1>6. /\ LastInstruction(r) \in Numbers(r) /\ Numbers(b) \subseteq Numbers(r) /\ 0 \in Numbers(r)
  <2>1. /\ Numbers(r) = 0 .. NextInstruction(r) - 1 /\ NextInstruction(r) \in Nat
        /\ NextInstruction(b) \in Nat /\ NextInstruction(r) = NextInstruction(b) + 1
    BY <1>3, <1>4, BlockParts DEF Longer
  <2>2. 0 \in Numbers(r)
    BY <2>1
  <2> QED
    BY <1>4, <2>2 DEF Longer
<1>7. /\ t.type = "goto" /\ t.first = LastInstruction(r) /\ t.second = 0 /\ t.cond = 0
      /\ t.args = i.args /\ t.inject = i.inject
  OBVIOUS
<1> HIDE DEF t
<1>8. x.tail = t /\ Numbers(x) = Numbers(r) /\ Fine(x, 0)
  BY <1>3, <1>5, TailFine, Zenon
<1>9. t.inject = "ok" => \A k \in DOMAIN t.args : t.args[k] \in Numbers(r)
  BY <1>6, <1>7 DEF Fitted
<1> HIDE DEF x
<1>10. Terminated(x)
  BY <1>6, <1>7, <1>8, <1>9 DEF Terminated
<1> QED
  BY <1>1, <1>8, <1>10

LEMMA JoinSorted ==
  ASSUME NEW bs \in Seq(Block), NEW S \in SUBSET DOMAIN bs, NEW d \in DOMAIN bs,
         \A b \in S : Fine(bs[b], 0) /\ Fitted(bs[b], bs[d])
  PROVE  Sorted(bs, JoinBlocks(bs, S, d), S)
<1> DEFINE bs2 == JoinBlocks(bs, S, d)
<1>1. bs2 \in Seq(Block) /\ Len(bs2) = Len(bs)
  BY JoinKeeps DEF Keeps
<1>2. DOMAIN bs2 = DOMAIN bs
  BY DEF JoinBlocks
<1>3. ASSUME NEW b \in S
      PROVE  Fine(bs2[b], 0) /\ Terminated(bs2[b])
  <2>1. bs2[b] = JoinTo(bs[b], d, bs[d]) /\ bs[b] \in Block /\ bs[d] \in Block /\ d \in Nat
    BY <1>3 DEF JoinBlocks
  <2>2. Fine(bs[b], 0) /\ Fitted(bs[b], bs[d])
    BY <1>3
  <2> HIDE DEF bs2
  <2> QED
    BY <2>1, <2>2, JoinToFine
<1>4. \A b \in DOMAIN bs \ S : bs2[b] = bs[b]
  BY DEF JoinBlocks
<1> HIDE DEF bs2
<1>5. Len(bs) <= Len(bs2)
  BY <1>1
<1>6. Sorted(bs, bs2, S)
  BY <1>1, <1>2, <1>3, <1>4, <1>5 DEF Sorted
<1> QED
  BY <1>6 DEF bs2

LEMMA BranchSorted ==
  ASSUME NEW bs \in Seq(Block), NEW p \in DOMAIN bs, NEW f \in DOMAIN bs, NEW s \in DOMAIN bs,
         Fine(bs[p], 1), Fitted(bs[p], bs[f])
  PROVE  Sorted(bs, BranchBlock(bs, p, f, s), {p})
<1> DEFINE bs2 == BranchBlock(bs, p, f, s)
           b == bs[p]
           q == AddBlockref(b, f)
           r == AddBlockref(q, s)
           i == InjectParams(b, bs[f])
           t == [type |-> "branch", cond |-> LastInstruction(b),
                 first |-> LastInstruction(r) - 1, second |-> LastInstruction(r),
                 live |-> i.live, args |-> i.args, inject |-> i.inject]
           x == [r EXCEPT !.tail = t]
           zero == 0
           one == 1
<1>0. zero \in Nat /\ one \in Nat /\ zero + 1 = one /\ one + 1 \in Nat /\ one + 1 + 1 \in Nat
      /\ zero <= one + 1 + 1
  OBVIOUS
<1>1. bs2 = [bs EXCEPT ![p] = x]
  BY DEF BranchBlock
<1>2. b \in Block /\ bs[f] \in Block /\ f \in Nat /\ s \in Nat /\ Fine(b, one)
  OBVIOUS
<1>3. bs2 \in Seq(Block) /\ Len(bs2) = Len(bs)
  BY BranchKeeps DEF Keeps
<1>4. bs2[p] = x /\ DOMAIN bs2 = DOMAIN bs /\ \A c \in DOMAIN bs \ {p} : bs2[c] = bs[c]
  BY <1>1
<1>5. Fitted(b, bs[f])
  OBVIOUS
<1> HIDE DEF b, bs2, zero, one
<1>6. q \in Block /\ Fine(q, one + 1) /\ Longer(q, b)
  BY <1>0, <1>2, AddBlockrefBlock, RefFine
<1> HIDE DEF q
<1>7. r \in Block /\ Fine(r, one + 1 + 1) /\ Longer(r, q)
  BY <1>0, <1>2, <1>6, AddBlockrefBlock, RefFine
<1> HIDE DEF r
<1>8. Fine(r, zero)
  BY <1>0, <1>7, FineLess
<1>9. /\ LastInstruction(b) \in Numbers(b)
      /\ Numbers(b) \subseteq Numbers(r) /\ LastInstruction(r) \in Numbers(r)
      /\ LastInstruction(r) - 1 \in Numbers(r)
  <2>1. Numbers(b) \subseteq Numbers(q) /\ Numbers(q) \subseteq Numbers(r)
    BY <1>6, <1>7, Zenon DEF Longer
  <2>2. LastInstruction(r) - 1 = LastInstruction(q)
    BY <1>6, <1>7 DEF Longer
  <2>3. LastInstruction(q) \in Numbers(q) /\ LastInstruction(r) \in Numbers(r)
    BY <1>6, <1>7 DEF Longer
  <2>4. LastInstruction(b) \in Numbers(b)
    <3>1. b \in Block /\ Len(b.stack) \in Nat
      BY <1>2, BlockParts
    <3>2. one + Len(b.stack) >= 1
      BY <3>1 DEF one
    <3> QED
      BY <1>0, <1>2, <3>1, <3>2, FineLast
  <2> QED
    BY <2>1, <2>2, <2>3, <2>4
<1>10. /\ t.type = "branch" /\ t.cond = LastInstruction(b) /\ t.first = LastInstruction(r) - 1
       /\ t.second = LastInstruction(r) /\ t.args = i.args /\ t.inject = i.inject
  OBVIOUS
<1> HIDE DEF t
<1>11. x.tail = t /\ Numbers(x) = Numbers(r) /\ Fine(x, zero)
  BY <1>0, <1>7, <1>8, TailFine, Zenon
<1>12. t.inject = "ok" => \A k \in DOMAIN t.args : t.args[k] \in Numbers(r)
  BY <1>5, <1>9, <1>10 DEF Fitted
<1> HIDE DEF x
<1>13. Terminated(x)
  BY <1>9, <1>10, <1>11, <1>12 DEF Terminated
<1>14. Fine(bs2[p], 0) /\ Terminated(bs2[p])
  BY <1>4, <1>11, <1>13 DEF zero
<1>15. Len(bs) <= Len(bs2)
  BY <1>3
<1>16. Sorted(bs, bs2, {p})
  BY <1>3, <1>4, <1>14, <1>15 DEF Sorted
<1> QED
  BY <1>16 DEF bs2

\* Nothing is passed to the start of a loop or to what follows it but variables
\* and the return struct.
LEMMA LoopFitted ==
  ASSUME NEW x, NEW y \in Block, NEW n, Steady(y, n), y.par.live \subseteq With(y.syms)
  PROVE  Fitted(x, y)
<1> DEFINE live == y.par.live
           all == With(y.syms)
           r == One(y.accRet)
           count == r + Cardinality(all) + Len(y.stack)
<1> SUFFICES ASSUME InjectParams(x, y).inject = "ok"
             PROVE  \A k \in DOMAIN InjectParams(x, y).args :
                      InjectParams(x, y).args[k] \in Numbers(x)
  BY DEF Fitted
<1>1. y.stack \in Seq(Int) /\ y.syms \in Seq(Entry) /\ Len(y.stack) \in Nat
  BY DEF Block
<1>2. IsFiniteSet(all)
  <2>1. all \in SUBSET DOMAIN y.syms
    BY DEF With
  <2> QED
    BY <1>1, <2>1, LiveIsFinite DEF Positions
<1>3. IsFiniteSet(live) /\ Cardinality(live) <= Cardinality(all)
  <2>1. live \in SUBSET all
    OBVIOUS
  <2> QED
    BY <1>2, <2>1, FS_Subset
<1>4. Cardinality(live) \in Nat /\ Cardinality(all) \in Nat /\ r \in Nat
  BY <1>2, <1>3, FS_CardinalityType DEF One
<1>5. ParamCount(y) = r + Cardinality(live)
  <2>1. ParamCount(y) = r + Cardinality(live) + 0 + 0
    BY DEF ParamCount, Steady
  <2> HIDE DEF r, live
  <2> QED
    BY <1>4, <2>1
<1>6. InjectParams(x, y).args = <<>>
  <2>1. CASE ParamCount(y) = 0
    BY <2>1 DEF InjectParams
  <2>2. CASE ParamCount(y) # 0
    <3>1. ~(count > ParamCount(y))
      BY <2>2 DEF InjectParams
    <3>2. InjectParams(x, y).args = y.stack
      BY <2>2 DEF InjectParams
    <3>3. Len(y.stack) = 0
      <4> HIDE DEF r, live, all
      <4> QED
        BY <1>1, <1>3, <1>4, <1>5, <3>1
    <3> QED
      BY <1>1, <3>2, <3>3
  <2> QED
    BY <2>1, <2>2
<1> QED
  BY <1>6

-----------------------------------------------------------------------------
(* The operations on several blocks.                                       *)

LEMMA AddSorted ==
  ASSUME NEW bs \in Seq(Block), NEW new \in Seq(Block),
         \A i \in DOMAIN new : Fine(new[i], 0) /\ Terminated(new[i])
  PROVE  Sorted(bs, bs \o new, {})
<1> DEFINE bs2 == bs \o new
<1>1. /\ bs2 \in Seq(Block) /\ Len(bs2) = Len(bs) + Len(new) /\ Len(bs) \in Nat
      /\ Len(new) \in Nat /\ DOMAIN new = 1 .. Len(new) /\ DOMAIN bs = 1 .. Len(bs)
      /\ DOMAIN bs2 = 1 .. Len(bs2)
  OBVIOUS
<1>2. \A b \in DOMAIN bs : bs2[b] = bs[b]
  BY <1>1
<1>3. \A b \in DOMAIN bs2 \ DOMAIN bs : b - Len(bs) \in DOMAIN new /\ bs2[b] = new[b - Len(bs)]
  BY <1>1
<1> HIDE DEF bs2
<1>4. Len(bs) <= Len(bs2)
  BY <1>1
<1>5. Sorted(bs, bs2, {})
  BY <1>1, <1>2, <1>3, <1>4 DEF Sorted
<1> QED
  BY <1>5 DEF bs2

LEMMA SortedTrans ==
  ASSUME NEW bs \in Seq(Block), NEW bs1, NEW bs2, NEW S1, NEW S2, NEW S,
         Sorted(bs, bs1, S1), Sorted(bs1, bs2, S2),
         \A b \in DOMAIN bs : b \in S <=> b \in S1 \/ b \in S2
  PROVE  Sorted(bs, bs2, S)
<1>1. bs1 \in Seq(Block) /\ bs2 \in Seq(Block) /\ Len(bs) <= Len(bs1) /\ Len(bs1) <= Len(bs2)
  BY DEF Sorted
<1>2. /\ DOMAIN bs \subseteq DOMAIN bs1 /\ DOMAIN bs1 \subseteq DOMAIN bs2
      /\ Len(bs) <= Len(bs2)
  BY <1>1
<1>3. \A b \in DOMAIN bs \ S : bs2[b] = bs[b]
  <2> SUFFICES ASSUME NEW b \in DOMAIN bs \ S
               PROVE  bs2[b] = bs[b]
    OBVIOUS
  <2>1. b \in DOMAIN bs \ S1 /\ b \in DOMAIN bs1 \ S2
    BY <1>2
  <2> QED
    BY <2>1 DEF Sorted
<1>4. ASSUME NEW b \in DOMAIN bs2, b \in S \/ b \notin DOMAIN bs
      PROVE  Fine(bs2[b], 0) /\ Terminated(bs2[b])
  <2>1. CASE b \in S2 \/ b \notin DOMAIN bs1
    BY <2>1 DEF Sorted
  <2>2. CASE b \in DOMAIN bs1 \ S2
    <3>1. bs2[b] = bs1[b]
      BY <2>2 DEF Sorted
    <3>2. b \in S1 \/ b \notin DOMAIN bs
      BY <1>4, <2>2
    <3> QED
      BY <2>2, <3>1, <3>2 DEF Sorted
  <2> QED
    BY <2>1, <2>2
<1> QED
  BY <1>1, <1>2, <1>3, <1>4 DEF Sorted

LEMMA TangleSorted ==
  ASSUME NEW bs \in Seq(Block), NEW c \in DOMAIN bs, NEW ps,
         Blocks(ps) \subseteq DOMAIN bs, 1 \in DOMAIN ps, Fitting(bs, c, ps), Backs(bs, c, ps),
         Evenly(bs, ps), \A b \in Blocks(ps) : Fine(bs[b], 0)
  PROVE  LET bs2 == TangleBlocks(bs, c, ps)
         IN /\ Sorted(bs, bs2, Blocks(ps)) /\ bs2[Len(bs) + 1] = ChildBlock(bs, c, ps)
            /\ Len(bs2) = Len(bs) + 1
<1> DEFINE y == ChildBlock(bs, c, ps)
           bs1 == Append(bs, y)
           S == Blocks(ps)
           d == Len(bs) + 1
           bs2 == TangleBlocks(bs, c, ps)
<1>1. \A b \in S : Located(bs[b]) /\ Room(bs[b], 0)
  BY DEF Fine
<1>2. y \in Block /\ y.tail = OpenTail /\ Fine(y, 0) /\ Terminated(y)
  BY <1>1, ChildFine
<1>3. \A b \in S : Fitted(bs[b], y)
  <2> SUFFICES ASSUME NEW b \in S
               PROVE  Fitted(bs[b], y)
    OBVIOUS
  <2>1. b \in Blocks(ps) /\ (bs[c].hasRet => bs[b].hasRet) /\ Room(bs[b], 0)
    BY <1>1 DEF Backs
  <2> QED
    BY <1>1, <2>1, ChildFitted
<1>4. bs2 = JoinBlocks(bs1, S, d)
  BY DEF TangleBlocks
<1> HIDE DEF y
<1>5. bs1 = bs \o <<y>> /\ <<y>> \in Seq(Block)
  BY <1>2
<1>6. \A i \in DOMAIN <<y>> : <<y>>[i] = y
  OBVIOUS
<1>7. Sorted(bs, bs1, {})
  BY <1>2, <1>5, <1>6, AddSorted, Zenon
<1>8. /\ bs1 \in Seq(Block) /\ bs1[d] = y /\ d \in DOMAIN bs1 /\ d \notin DOMAIN bs
      /\ DOMAIN bs \subseteq DOMAIN bs1 /\ Len(bs1) = d
      /\ \A b \in DOMAIN bs : bs1[b] = bs[b]
  BY <1>2
<1> HIDE DEF bs1, d, bs2
<1>9. S \in SUBSET DOMAIN bs1 /\ d \notin S
  BY <1>8
<1>10. \A b \in S : Fine(bs1[b], 0) /\ Fitted(bs1[b], bs1[d])
  BY <1>3, <1>8
<1>11. Sorted(bs1, bs2, S)
  BY <1>4, <1>8, <1>9, <1>10, JoinSorted
<1>12. Sorted(bs, bs2, S)
  BY <1>7, <1>11, SortedTrans
<1>13. bs2[d] = y
  BY <1>8, <1>9, <1>11 DEF Sorted
<1>14. Len(bs2) = d
  BY <1>4, <1>8, <1>9, JoinKeeps
<1> QED
  BY <1>12, <1>13, <1>14 DEF bs2, d, y

\* A branch takes the condition, which is in no symbol and on no stack.
LEMMA BranchIntoSorted ==
  ASSUME NEW bs \in Seq(Block), NEW p \in DOMAIN bs, Fine(bs[p], 1)
  PROVE  /\ Sorted(bs, BranchInto(bs, p), {p}) /\ Len(BranchInto(bs, p)) = Len(bs) + 2
         /\ \A d \in {Len(bs) + 1, Len(bs) + 2} : Fine(BranchInto(bs, p)[d], 0)
<1> DEFINE y == ChildBlock(bs, p, <<p>>)
           bs1 == Pair(bs, p, <<p>>)
           d == Len(bs) + 1
           e == Len(bs) + 2
           bs2 == BranchInto(bs, p)
           zero == 0
           one == 1
<1>1. Fitting(bs, p, <<p>>) /\ Blocks(<<p>>) = {p} /\ 1 \in DOMAIN <<p>>
  BY FittingSelf
<1>2. bs[p] \in Block /\ Fine(bs[p], 0)
  <2>1. zero \in Nat /\ one \in Nat /\ zero <= one /\ bs[p] \in Block /\ Fine(bs[p], one)
    OBVIOUS
  <2> HIDE DEF zero, one
  <2>2. Fine(bs[p], zero)
    BY <2>1, FineLess
  <2> QED
    BY <2>1, <2>2 DEF zero
<1>3. \A b \in Blocks(<<p>>) : Located(bs[b]) /\ Room(bs[b], 0)
  BY <1>1, <1>2 DEF Fine
<1>4. y \in Block /\ Fine(y, 0) /\ Terminated(y)
  BY <1>1, <1>3, ChildFine
<1>5. Fitted(bs[p], y)
  <2>1. Evenly(bs, <<p>>)
    <3>1. \A b \in Blocks(<<p>>) : b = p
      BY <1>1
    <3>2. <<p>>[1] = p /\ Len(bs[p].stack) \in Nat
      BY <1>2, BlockParts
    <3> QED
      BY <3>1, <3>2 DEF Evenly
  <2> QED
    BY <1>1, <1>3, <2>1, ChildFitted
<1>6. bs2 = BranchBlock(bs1, p, d, e) /\ bs1 = bs \o <<y, y>>
  BY DEF BranchInto, Pair
<1> HIDE DEF y, bs1, bs2
<1>7. /\ bs1 \in Seq(Block) /\ bs1[d] = y /\ bs1[e] = y /\ d \in DOMAIN bs1 /\ e \in DOMAIN bs1
      /\ \A b \in DOMAIN bs : bs1[b] = bs[b] /\ b \in DOMAIN bs1
      /\ Len(bs1) = e /\ d \notin DOMAIN bs /\ e \notin DOMAIN bs
  BY <1>4, <1>6
<1>8. Sorted(bs, bs1, {})
  <2>1. <<y, y>> \in Seq(Block) /\ \A i \in DOMAIN <<y, y>> : <<y, y>>[i] = y
    BY <1>4
  <2> QED
    BY <1>4, <1>6, <2>1, AddSorted, Zenon
<1> HIDE DEF d, e
<1>9. Sorted(bs1, bs2, {p})
  <2>1. p \in DOMAIN bs1 /\ Fine(bs1[p], 1) /\ Fitted(bs1[p], bs1[d])
    BY <1>5, <1>7
  <2> QED
    BY <1>6, <1>7, <2>1, BranchSorted, Zenon
<1>10. Sorted(bs, bs2, {p})
  BY <1>8, <1>9, SortedTrans
<1>11. Len(bs2) = e
  <2>1. p \in DOMAIN bs1 /\ d \in DOMAIN bs1 /\ e \in DOMAIN bs1 /\ bs1 \in Seq(Block)
    BY <1>7
  <2>2. Len(BranchBlock(bs1, p, d, e)) = Len(bs1)
    BY <2>1, BranchKeeps
  <2> QED
    BY <1>6, <1>7, <2>2, Zenon
<1>12. d \in DOMAIN bs2 /\ e \in DOMAIN bs2
  <2>1. Len(bs) \in Nat /\ DOMAIN bs2 = 1 .. Len(bs2)
    BY <1>10 DEF Sorted
  <2> QED
    BY <1>11, <2>1 DEF d, e
<1>13. Fine(bs2[d], 0) /\ Fine(bs2[e], 0)
  BY <1>7, <1>10, <1>12 DEF Sorted
<1> QED
  BY <1>10, <1>11, <1>13 DEF bs2, d, e

LEMMA WeaveSorted ==
  ASSUME NEW bs \in Seq(Block), NEW c \in DOMAIN bs, NEW p \in DOMAIN bs,
         NEW brk \in Seq(DOMAIN bs), p \notin Blocks(brk),
         Fitting(bs, c, <<p>> \o brk), Backs(bs, c, <<p>> \o brk), Evenly(bs, <<p>> \o brk),
         Fine(bs[p], 1), \A b \in Blocks(brk) : Fine(bs[b], 0)
  PROVE  LET bs2 == WeaveBlocks(bs, c, brk, p)
         IN Sorted(bs, bs2, {p} \cup Blocks(brk)) /\ Len(bs2) = Len(bs) + 2
<1> DEFINE ps == <<p>> \o brk
           y == ChildBlock(bs, c, ps)
           bs1 == bs \o <<y, y>>
           d == Len(bs) + 1
           e == Len(bs) + 2
           S == Blocks(brk)
           bs2 == JoinBlocks(bs1, S, e)
           bs3 == WeaveBlocks(bs, c, brk, p)
           zero == 0
           one == 1
<1>1. /\ Blocks(ps) = {p} \cup S /\ 1 \in DOMAIN ps /\ ps[1] = p
      /\ \A b \in S : b \in DOMAIN bs
  <2>1. /\ DOMAIN ps = 1 .. 1 + Len(brk) /\ ps[1] = p /\ Len(brk) \in Nat
        /\ DOMAIN brk = 1 .. Len(brk)
        /\ \A i \in 1 .. Len(brk) : ps[i + 1] = brk[i]
        /\ \A i \in 2 .. 1 + Len(brk) : ps[i] = brk[i - 1]
    OBVIOUS
  <2> HIDE DEF ps
  <2>2. \A b \in Blocks(ps) : b = p \/ b \in S
    <3> SUFFICES ASSUME NEW i \in DOMAIN ps
                 PROVE  ps[i] = p \/ ps[i] \in S
      BY DEF Blocks
    <3>1. CASE i = 1
      BY <2>1, <3>1
    <3>2. CASE i \in 2 .. 1 + Len(brk)
      <4>1. i - 1 \in DOMAIN brk /\ ps[i] = brk[i - 1]
        BY <2>1, <3>2
      <4> QED
        BY <4>1 DEF Blocks
    <3> QED
      BY <2>1, <3>1, <3>2
  <2>3. \A b \in S : b \in Blocks(ps)
    <3> SUFFICES ASSUME NEW i \in DOMAIN brk
                 PROVE  brk[i] \in Blocks(ps)
      BY DEF Blocks
    <3>1. i + 1 \in DOMAIN ps /\ ps[i + 1] = brk[i]
      BY <2>1
    <3> QED
      BY <3>1 DEF Blocks
  <2>4. 1 \in DOMAIN ps
    BY <2>1
  <2>5. p \in Blocks(ps)
    BY <2>1, <2>4 DEF Blocks
  <2>6. \A b \in S : b \in DOMAIN bs
    BY DEF Blocks
  <2> QED
    BY <2>1, <2>2, <2>3, <2>4, <2>5, <2>6
<1>2. bs[p] \in Block /\ Fine(bs[p], 0)
  <2>1. zero \in Nat /\ one \in Nat /\ zero <= one /\ bs[p] \in Block /\ Fine(bs[p], one)
    OBVIOUS
  <2> HIDE DEF zero, one
  <2>2. Fine(bs[p], zero)
    BY <2>1, FineLess
  <2> QED
    BY <2>1, <2>2 DEF zero
<1>3. \A b \in Blocks(ps) : b \in DOMAIN bs /\ Located(bs[b]) /\ Room(bs[b], 0)
  BY <1>1, <1>2 DEF Fine
<1>4. Fitting(bs, c, ps) /\ Backs(bs, c, ps) /\ Evenly(bs, ps)
  OBVIOUS
<1>5. y \in Block /\ Fine(y, 0) /\ Terminated(y)
  <2> HIDE DEF ps
  <2> QED
    BY <1>1, <1>3, <1>4, ChildFine, Zenon
<1>6. ASSUME NEW b \in Blocks(ps)
      PROVE  Fitted(bs[b], y)
  <2> HIDE DEF ps
  <2>1. Room(bs[b], 0) /\ (bs[c].hasRet => bs[b].hasRet)
    BY <1>3, <1>4, <1>6 DEF Backs
  <2> QED
    BY <1>1, <1>3, <1>4, <1>6, <2>1, ChildFitted, Zenon
<1>7. bs3 = BranchBlock(bs2, p, d, e)
  BY DEF WeaveBlocks
<1> HIDE DEF y, bs3, ps
<1>8. /\ bs1 \in Seq(Block) /\ bs1[d] = y /\ bs1[e] = y /\ d \in DOMAIN bs1 /\ e \in DOMAIN bs1
      /\ \A b \in DOMAIN bs : bs1[b] = bs[b] /\ b \in DOMAIN bs1
      /\ Len(bs1) = e /\ d \notin DOMAIN bs /\ e \notin DOMAIN bs
  BY <1>5
<1>9. Sorted(bs, bs1, {})
  <2>1. <<y, y>> \in Seq(Block) /\ \A i \in DOMAIN <<y, y>> : <<y, y>>[i] = y
    BY <1>5
  <2> QED
    BY <1>5, <2>1, AddSorted, Zenon
<1> HIDE DEF bs1, d, e
<1>10. S \in SUBSET DOMAIN bs1 /\ d \notin S /\ e \notin S
  BY <1>1, <1>8
<1>11. Sorted(bs1, bs2, S) /\ Len(bs2) = e /\ bs2 \in Seq(Block) /\ DOMAIN bs2 = DOMAIN bs1
  <2>1. \A b \in S : Fine(bs1[b], 0) /\ Fitted(bs1[b], bs1[e])
    BY <1>1, <1>6, <1>8
  <2>2. Sorted(bs1, bs2, S) /\ Len(bs2) = e
    BY <1>8, <1>10, <2>1, JoinSorted, JoinKeeps, Zenon
  <2>3. DOMAIN bs2 = DOMAIN bs1
    BY DEF JoinBlocks
  <2> QED
    BY <2>2, <2>3 DEF Sorted
<1> HIDE DEF bs2
<1>12. bs2[p] = bs[p] /\ bs2[d] = y /\ p \in DOMAIN bs2
  <2>1. p \in DOMAIN bs1 \ S /\ d \in DOMAIN bs1 \ S
    BY <1>8, <1>10
  <2> QED
    BY <1>8, <1>11, <2>1 DEF Sorted
<1>13. Sorted(bs2, bs3, {p}) /\ Len(bs3) = e
  <2>1. Fine(bs2[p], 1) /\ Fitted(bs2[p], bs2[d])
    BY <1>1, <1>6, <1>12
  <2>2. d \in DOMAIN bs2 /\ e \in DOMAIN bs2
    BY <1>8, <1>11
  <2>3. Sorted(bs2, bs3, {p})
    BY <1>7, <1>11, <1>12, <2>1, <2>2, BranchSorted
  <2>4. Len(bs3) = Len(bs2)
    BY <1>7, <1>11, <1>12, <2>2, BranchKeeps
  <2> QED
    BY <1>11, <2>3, <2>4
<1>14. Sorted(bs, bs2, S)
  BY <1>9, <1>11, SortedTrans
<1>15. Sorted(bs, bs3, {p} \cup S)
  BY <1>13, <1>14, SortedTrans
<1> QED
  BY <1>13, <1>15 DEF bs3, e

-----------------------------------------------------------------------------
(* Statements and conditions that branch.                                  *)

LEMMA ForkSorted ==
  ASSUME NEW bs \in Seq(Block), NEW p \in DOMAIN bs, Fine(bs[p], 0)
  PROVE  Sorted(bs, ForkBlock(bs, p), {p})
<1> DEFINE ps == <<p>>
<1>1. Fitting(bs, p, ps) /\ Blocks(ps) = {p} /\ 1 \in DOMAIN ps
  BY FittingSelf
<1>2. Evenly(bs, ps) /\ Backs(bs, p, ps)
  <2>1. \A b \in Blocks(ps) : b = p
    BY <1>1
  <2>2. ps[1] = p /\ Len(bs[p].stack) \in Nat
    <3>1. bs[p] \in Block
      OBVIOUS
    <3> QED
      BY <3>1, BlockParts
  <2> HIDE DEF ps
  <2> QED
    BY <2>1, <2>2 DEF Evenly, Backs
<1>3. \A b \in Blocks(ps) : Fine(bs[b], 0) /\ b \in DOMAIN bs
  BY <1>1
<1>4. ForkBlock(bs, p) = TangleBlocks(bs, p, ps)
  BY DEF ForkBlock
<1> HIDE DEF ps
<1>5. Sorted(bs, TangleBlocks(bs, p, ps), Blocks(ps))
  BY <1>1, <1>2, <1>3, TangleSorted, Zenon
<1> QED
  BY <1>1, <1>4, <1>5

LEMMA ForksOrder ==
  ASSUME NEW h, Before(h), Ordered(blocks, cur, frames, at), Nested \/ While \/ DoWhile
  PROVE  Orders
<1> DEFINE d == Len(blocks) + 1
<1>1. cur # NoBlock
  BY DEF Nested, While, DoWhile, Statement
<1>2. /\ cur \in DOMAIN blocks /\ blocks \in Seq(Block) /\ Only(cur) = {cur}
      /\ Fine(blocks[cur], 0) /\ cur \in Nat /\ d \in Nat
  BY <1>1, CurFine, BeforeFacts
<1>3. Sorted(blocks, ForkBlock(blocks, cur), Only(cur))
  BY <1>2, ForkSorted
<1>4. \A k \in FrameKinds : Frame(k) \in Frames /\ Frame(k).k = k
  BY FrameScope
<1>5. blocks' = ForkBlock(blocks, cur) /\ at' # "value"
  BY DEF Nested, While, DoWhile, Produce
<1>6. \E g : Loose(g) /\ frames' = Append(frames, g)
  <2>1. CASE Nested
    <3> DEFINE F == Frame("block")
               g == [F EXCEPT !.ctx = cur]
    <3>1. F \in Frames /\ F.k = "block"
      BY <1>4 DEF FrameKinds
    <3>2. frames' = Append(frames, g)
      BY <2>1 DEF Nested, Enter
    <3> HIDE DEF F
    <3>3. g \in Frames /\ g.k = "block"
      BY <1>2, <3>1, Zenon DEF Frames
    <3> HIDE DEF g
    <3> QED
      BY <3>2, <3>3 DEF Loose
  <2>2. CASE While
    <3> DEFINE F == Frame("while")
               g == [F EXCEPT !.oth = d]
    <3>1. F \in Frames /\ F.k = "while"
      BY <1>4 DEF FrameKinds
    <3>2. frames' = Append(frames, g)
      BY <2>2 DEF While, Enter
    <3> HIDE DEF F, d
    <3>3. g \in Frames /\ g.k = "while"
      BY <1>2, <3>1, Zenon DEF Frames
    <3> HIDE DEF g
    <3> QED
      BY <3>2, <3>3 DEF Loose
  <2>3. CASE DoWhile
    <3> DEFINE F == Frame("do")
               g == [F EXCEPT !.par = cur, !.oth = d, !.ctx = d, !.prev = d]
    <3>1. F \in Frames /\ F.k = "do"
      BY <1>4 DEF FrameKinds
    <3>2. frames' = Append(frames, g)
      BY <2>3 DEF DoWhile, Enter
    <3> HIDE DEF F, d
    <3>3. g \in Frames /\ g.k = "do"
      BY <1>2, <3>1, Zenon DEF Frames
    <3> HIDE DEF g
    <3> QED
      BY <3>2, <3>3 DEF Loose
  <2> QED
    BY <2>1, <2>2, <2>3
<1>7. Nearby(frames')
  BY <1>6 DEF Nearby
<1> QED
  BY <1>3, <1>5, <1>7, NearOrder DEF Orders

LEMMA ConditionsOrder ==
  ASSUME NEW h, Before(h), Ordered(blocks, cur, frames, at),
         EndIfCondition \/ EndTernaryCondition \/ EndWhileCondition
  PROVE  Orders
<1> DEFINE d == Len(blocks) + 1
           e == Len(blocks) + 2
<1>1. at = "value" /\ frames # <<>>
  BY DEF EndIfCondition, EndTernaryCondition, EndWhileCondition, Returned, Waiting
<1>2. cur # NoBlock /\ Fine(blocks[cur], 1) /\ top \in Frames
  BY <1>1, TopFine
<1>3. /\ cur \in DOMAIN blocks /\ blocks \in Seq(Block) /\ Only(cur) = {cur}
      /\ cur \in Nat /\ e \in Nat
  BY <1>2, CurFine, BeforeFacts
<1>4. Sorted(blocks, BranchInto(blocks, cur), Only(cur))
  BY <1>2, <1>3, BranchIntoSorted
<1>5. \A k \in FrameKinds : Frame(k) \in Frames /\ Frame(k).k = k
  BY FrameScope
<1>6. blocks' = BranchInto(blocks, cur) /\ at' # "value"
  BY DEF EndIfCondition, EndTernaryCondition, EndWhileCondition, Produce
<1>7. \E g : Loose(g) /\ frames' = Append(Below, g)
  <2>1. CASE EndIfCondition
    <3> DEFINE F == Frame("then")
               g == [F EXCEPT !.ctx = cur, !.oth = e]
    <3>1. F \in Frames /\ F.k = "then"
      BY <1>5 DEF FrameKinds
    <3>2. frames' = Append(Below, g)
      BY <2>1 DEF EndIfCondition, Replace
    <3> HIDE DEF F, e
    <3>3. g \in Frames /\ g.k = "then"
      BY <1>3, <3>1, Zenon DEF Frames
    <3> HIDE DEF g
    <3> QED
      BY <3>2, <3>3 DEF Loose
  <2>2. CASE EndTernaryCondition
    <3> DEFINE g == [top EXCEPT !.k = "tfirst", !.ctx = cur, !.oth = e]
    <3>1. frames' = Append(Below, g)
      BY <2>2 DEF EndTernaryCondition, Replace
    <3> HIDE DEF e
    <3>2. g \in Frames /\ g.k = "tfirst"
      BY <1>2, <1>3, Zenon DEF Frames, FrameKinds
    <3> HIDE DEF g
    <3> QED
      BY <3>1, <3>2 DEF Loose
  <2>3. CASE EndWhileCondition
    <3> DEFINE g == [top EXCEPT !.k = "wbody", !.post = e]
    <3>1. frames' = Append(Below, g)
      BY <2>3 DEF EndWhileCondition, Replace
    <3> HIDE DEF e
    <3>2. g \in Frames /\ g.k = "wbody"
      BY <1>2, <1>3, Zenon DEF Frames, FrameKinds
    <3> HIDE DEF g
    <3> QED
      BY <3>1, <3>2 DEF Loose
  <2> QED
    BY <2>1, <2>2, <2>3
<1>8. Nearby(frames')
  BY <1>1, <1>7 DEF Nearby
<1> QED
  BY <1>4, <1>6, <1>8, NearOrder DEF Orders

\* The other branch: a conditional expression keeps the first one's value.
LEMMA EndThenOrder ==
  ASSUME NEW h, Before(h), Ordered(blocks, cur, frames, at), EndThen
  PROVE  Orders
<1> DEFINE g == [top EXCEPT !.k = "else", !.oth = cur]
<1>1. frames # <<>> /\ frames' = Append(Below, g) /\ blocks' = blocks /\ at' = "stmt"
  BY DEF EndThen, EndsBody, Replace
<1>2. top \in Frames /\ cur \in Nat
  BY <1>1, BeforeFacts
<1>3. g \in Frames /\ g.k = "else"
  BY <1>2, Zenon DEF Frames, FrameKinds
<1> HIDE DEF g
<1>4. Nearby(frames') /\ at' # "value"
  BY <1>1, <1>3 DEF Nearby, Loose
<1> QED
  BY <1>1, <1>4, SameOrder

LEMMA EndTernaryFirstOrder ==
  ASSUME NEW h, Before(h), Ordered(blocks, cur, frames, at), EndTernaryFirst
  PROVE  Orders
<1> DEFINE g == [top EXCEPT !.k = "tsecond", !.oth = cur]
<1>1. /\ at = "value" /\ frames # <<>> /\ frames' = Append(Below, g) /\ blocks' = blocks
      /\ at' = "expr"
  BY DEF EndTernaryFirst, Returned, Waiting, Replace
<1>2. top \in Frames /\ cur \in Nat /\ cur # NoBlock /\ Fine(blocks[cur], 1)
  BY <1>1, TopFine, BeforeFacts
<1>3. g \in Frames /\ g.k = "tsecond" /\ g.oth = cur
  BY <1>2, Zenon DEF Frames, FrameKinds
<1> HIDE DEF g
<1>4. Holding(blocks, g)
  BY <1>2, <1>3 DEF Holding
<1>5. blocks \in Seq(Block) /\ {} \subseteq Top(cur, top) /\ "expr" # "value"
  BY BeforeFacts
<1>6. Sorted(blocks, blocks, {})
  BY <1>5, SameSorted
<1>7. Ordered(blocks, cur', Append(Below, g), "expr")
  BY <1>1, <1>3, <1>4, <1>5, <1>6, OrderSwap
<1> QED
  BY <1>1, <1>7 DEF Orders

-----------------------------------------------------------------------------
(* Statements that end in a join.                                          *)

\* Nothing is on the stack of a block that a statement goes on with or joins.
LEMMA RootLevel ==
  ASSUME NEW h, Before(h), frames # <<>>, top.k \in Roots
  PROVE  \A b \in Top(cur, top) : b \in DOMAIN blocks /\ Len(blocks[b].stack) = 0
<1>1. Ready(blocks, cur, frames, at, h)
  BY DEF Before
<1> DEFINE g == h[Len(frames) - 1]
<1>2. /\ g \in Nat /\ g = 0
      /\ \A b \in Pending(top) :
           Len(blocks[b].stack) = IF top.k \in {"tfirst", "tsecond"} THEN g ELSE 0
      /\ Top(cur, top) \subseteq DOMAIN blocks
      /\ cur # NoBlock => Len(blocks[cur].stack) = g + Pushed(top)
  BY <1>1, TopReady DEF top
<1>3. Pushed(top) = 0 /\ top.k \notin {"tfirst", "tsecond"}
  BY DEF Pushed, Roots
<1> HIDE DEF g
<1>4. cur # NoBlock => Len(blocks[cur].stack) = 0
  BY <1>2, <1>3
<1> QED
  BY <1>2, <1>3, <1>4 DEF Top, Only

LEMMA TangleOrder ==
  ASSUME NEW h, Before(h), NEW u, Fed(blocks, cur, frames, u), Ordered(blocks, cur, frames, at),
         frames # <<>>, top.k \in Roots,
         NEW c \in Refers(top), NEW ps, Blocks(ps) \subseteq Only(cur) \cup Rests(top),
         1 \in DOMAIN ps, Fitting(blocks, c, ps)
  PROVE  Sorted(blocks, TangleBlocks(blocks, c, ps), Blocks(ps)) /\ Blocks(ps) \subseteq Top(cur, top)
<1>1. c \in DOMAIN blocks /\ Backs(blocks, c, ps) /\ blocks \in Seq(Block)
  BY TopBacks, BeforeFacts, Zenon
<1>2. Blocks(ps) \subseteq Top(cur, top)
  <2>1. Rests(top) \subseteq Pending(top)
    BY TopOpen
  <2> QED
    BY <2>1 DEF Top
<1>3. \A b \in Blocks(ps) : b \in DOMAIN blocks /\ Len(blocks[b].stack) = 0
  BY <1>2, RootLevel
<1>4. \A b \in Blocks(ps) : Fine(blocks[b], 0)
  BY <1>3 DEF Ordered, Orderly
<1>5. Evenly(blocks, ps)
  <2>1. ps[1] \in Blocks(ps)
    BY DEF Blocks
  <2>2. \A b \in Blocks(ps) : Len(blocks[ps[1]].stack) <= Len(blocks[b].stack)
    BY <1>3, <2>1
  <2> QED
    BY <2>2 DEF Evenly
<1>6. Blocks(ps) \subseteq DOMAIN blocks
  BY <1>3
<1> QED
  BY <1>1, <1>2, <1>4, <1>5, <1>6, TangleSorted

LEMMA LeaveOrder ==
  ASSUME NEW h, Before(h), Ordered(blocks, cur, frames, at), frames # <<>>,
         NEW bs, NEW S, Sorted(blocks, bs, S), S \subseteq Top(cur, top),
         NEW c, Done(Below, c, bs)
  PROVE  Orders
<1>1. "stmt" # "value"
  OBVIOUS
<1>2. Below \in Seq(Frames)
  BY BeforeFacts, BelowFacts DEF Below
<1>3. Ordered(bs, c, Below, "stmt")
  BY <1>1, OrderLeave
<1> QED
  BY <1>1, <1>2, <1>3, DoneOrder

LEMMA EndlessOrder ==
  ASSUME NEW h, Before(h), Ordered(blocks, cur, frames, at), frames # <<>>,
         NEW c, Done(Below, c, blocks)
  PROVE  Orders
<1>1. blocks \in Seq(Block)
  BY BeforeFacts
<1>2. Sorted(blocks, blocks, {}) /\ {} \subseteq Top(cur, top)
  BY <1>1, SameSorted
<1> QED
  BY <1>2, LeaveOrder

LEMMA EndElseOrder ==
  ASSUME NEW h, Before(h), Fed(blocks, cur, frames, unit), Ordered(blocks, cur, frames, at),
         EndElse
  PROVE  Orders
<1> DEFINE ps == Ends(top.oth, cur)
           nm == Lists(blocks)
           c == NoBlock
<1>1. /\ EndsBody("else")
      /\ IF ps = <<>> THEN Done(Below, c, blocks)
         ELSE Done(Below, Len(blocks) + 1, TangleBlocks(blocks, top.ctx, ps))
  BY DEF EndElse
<1>2. /\ frames # <<>> /\ top.k = "else"
      /\ Knows(nm, top, scope) /\ Begins(top.scope, scope)
      /\ cur # NoBlock => nm[cur] = scope
  BY <1>1, BodyFacts
<1>3. CASE ps = <<>>
  <2>1. Done(Below, c, blocks)
    BY <1>1, <1>3
  <2> HIDE DEF c
  <2> QED
    BY <1>2, <2>1, EndlessOrder
<1>4. CASE ps # <<>>
  <2>1. /\ 1 \in DOMAIN ps
        /\ \A x \in Blocks(ps) : x # NoBlock /\ (x = top.oth \/ x = cur)
    BY <1>4, EndsBlocks
  <2> HIDE DEF ps
  <2>2. top.ctx \in Refers(top) /\ (top.oth # NoBlock => top.oth \in Rests(top))
    BY <1>2, PendingIs DEF Refers, Fixed, Rests
  <2>3. nm[top.ctx] = top.scope /\ (top.oth # NoBlock => Begins(top.scope, nm[top.oth]))
    BY <1>2 DEF Knows, Fixed
  <2> HIDE DEF nm
  <2>4. /\ Blocks(ps) \subseteq Only(cur) \cup Rests(top)
        /\ \A b \in Blocks(ps) : Begins(nm[top.ctx], nm[b])
    BY <1>2, <2>1, <2>2, <2>3 DEF Only
  <2>5. Done(Below, Len(blocks) + 1, TangleBlocks(blocks, top.ctx, ps))
    BY <1>1, <1>4
  <2>6. Fitting(blocks, top.ctx, ps) /\ top.k \in Roots
    BY <1>2, <2>4 DEF Fitting, nm, Roots
  <2>7. /\ Sorted(blocks, TangleBlocks(blocks, top.ctx, ps), Blocks(ps))
        /\ Blocks(ps) \subseteq Top(cur, top)
    BY <1>2, <2>1, <2>2, <2>4, <2>6, TangleOrder
  <2> QED
    BY <1>2, <2>5, <2>7, LeaveOrder
<1> QED
  BY <1>3, <1>4

LEMMA EndNestedOrder ==
  ASSUME NEW h, Before(h), Fed(blocks, cur, frames, unit), Ordered(blocks, cur, frames, at),
         EndNested
  PROVE  Orders
<1> DEFINE nm == Lists(blocks)
           ps == <<cur>>
<1>1. /\ EndsBody("block")
      /\ cur # NoBlock => Done(Below, Len(blocks) + 1, TangleBlocks(blocks, top.ctx, ps))
      /\ cur = NoBlock => blocks' = blocks /\ cur' = cur /\ frames' = frames /\ at' = at
  BY DEF EndNested, RejoinBlock
<1>2. /\ frames # <<>> /\ top.k = "block"
      /\ blocks \in Seq(Block)
      /\ Knows(nm, top, scope) /\ Begins(top.scope, scope)
      /\ cur # NoBlock => cur \in DOMAIN blocks /\ nm[cur] = scope
  BY <1>1, BodyFacts
<1>3. CASE cur = NoBlock
  BY <1>1, <1>3 DEF Orders
<1>4. CASE cur # NoBlock
  <2>1. Blocks(ps) = {cur} /\ 1 \in DOMAIN ps
    BY <1>2, <1>4, FittingSelf
  <2> HIDE DEF ps
  <2>2. top.ctx \in Refers(top)
    BY <1>2 DEF Refers, Fixed
  <2>3. nm[top.ctx] = top.scope
    BY <1>2 DEF Knows, Fixed
  <2> HIDE DEF nm
  <2>4. /\ Blocks(ps) \subseteq Only(cur) \cup Rests(top)
        /\ \A b \in Blocks(ps) : Begins(nm[top.ctx], nm[b])
    BY <1>2, <1>4, <2>1, <2>3 DEF Only
  <2>5. Done(Below, Len(blocks) + 1, TangleBlocks(blocks, top.ctx, ps))
    BY <1>1, <1>4
  <2>6. Fitting(blocks, top.ctx, ps) /\ top.k \in Roots
    BY <1>2, <2>4 DEF Fitting, nm, Roots
  <2>7. /\ Sorted(blocks, TangleBlocks(blocks, top.ctx, ps), Blocks(ps))
        /\ Blocks(ps) \subseteq Top(cur, top)
    BY <1>2, <2>1, <2>2, <2>4, <2>6, TangleOrder, Zenon
  <2> QED
    BY <1>2, <2>5, <2>7, LeaveOrder
<1> QED
  BY <1>3, <1>4

LEMMA BrokenOrder ==
  ASSUME NEW h, Before(h), Fed(blocks, cur, frames, unit), Ordered(blocks, cur, frames, at),
         EndDoBody, IF cur = NoBlock THEN top.cont = <<>> ELSE <<cur>> \o top.cont = <<>>
  PROVE  Orders
<1>1. EndsBody("do")
  BY DEF EndDoBody
<1>2. /\ frames # <<>> /\ top.k = "do" /\ blocks \in Seq(Block)
      /\ Knows(Lists(blocks), top, scope)
  BY <1>1, BodyFacts
<1>3. Ready(blocks, cur, frames, at, h)
  BY DEF Before
<1>4. CASE top.brk # <<>>
  <2> DEFINE ps == top.brk
             c == top.par
  <2>1. Done(Below, Len(blocks) + 1, TangleBlocks(blocks, c, ps))
    BY <1>4 DEF EndDoBody
  <2>2. ps \in Seq(DOMAIN blocks) /\ ps # <<>> /\ \A b \in Blocks(ps) : b # NoBlock
    BY <1>2, <1>3, <1>4, DoFacts
  <2>3. 1 \in DOMAIN ps
    BY <2>2, ListFacts
  <2>4. Lists(blocks)[c] = top.scope /\ \A b \in Blocks(ps) : Begins(top.scope, Lists(blocks)[b])
    BY <1>2 DEF Knows, Fixed
  <2>5. Blocks(ps) \subseteq Only(cur) \cup Rests(top) /\ c \in Refers(top)
    BY <1>2, <2>2, PendingIs DEF Rests, Refers, Fixed
  <2> HIDE DEF ps, c
  <2>6. Fitting(blocks, c, ps) /\ top.k \in Roots
    BY <1>2, <2>4 DEF Fitting, Roots
  <2>7. Sorted(blocks, TangleBlocks(blocks, c, ps), Blocks(ps)) /\ Blocks(ps) \subseteq Top(cur, top)
    BY <1>2, <2>3, <2>5, <2>6, TangleOrder
  <2> QED
    BY <1>2, <2>1, <2>7, LeaveOrder
<1>5. CASE top.brk = <<>>
  <2> DEFINE none == NoBlock
  <2>1. Done(Below, none, blocks)
    BY <1>5 DEF EndDoBody
  <2> HIDE DEF none
  <2> QED
    BY <1>2, <2>1, EndlessOrder
<1> QED
  BY <1>4, <1>5

LEMMA ContinuedOrder ==
  ASSUME NEW h, Before(h), Fed(blocks, cur, frames, unit), Ordered(blocks, cur, frames, at),
         EndsBody("do"),
         NEW cont, cont = IF cur = NoBlock THEN top.cont ELSE <<cur>> \o top.cont,
         cont # <<>>, Replace([top EXCEPT !.k = "docond", !.cont = cont]),
         at' # "value", blocks' = TangleBlocks(blocks, top.ctx, cont)
  PROVE  Orders
<1> DEFINE g == [top EXCEPT !.k = "docond", !.cont = cont]
           nm == Lists(blocks)
           c == top.ctx
           D == DOMAIN blocks
<1>1. /\ frames # <<>> /\ top.k = "do" /\ top \in Frames /\ blocks \in Seq(Block)
      /\ Knows(nm, top, scope)
      /\ cur # NoBlock => cur \in DOMAIN blocks /\ nm[cur] = scope
  BY BodyFacts
<1>2. Ready(blocks, cur, frames, at, h)
  BY DEF Before
<1>3. /\ cont \in Seq(D) /\ cont \in Seq(Nat)
      /\ \A b : b \in Blocks(cont) <=> b \in Only(cur) \/ b \in Blocks(top.cont)
  BY <1>1, <1>2, ContinueList, ListNat, Zenon
<1>4. \A b \in Blocks(top.cont) : b # NoBlock
  BY <1>1, <1>2, DoFacts
<1>5. 1 \in DOMAIN cont
  <2> HIDE DEF D
  <2>1. cont # <<>>
    OBVIOUS
  <2> QED
    BY ONLY <1>3, <2>1, ListFacts
<1>6. Fitting(blocks, c, cont)
  <2>1. ASSUME NEW b \in Blocks(cont)
        PROVE  Begins(nm[c], nm[b])
    <3>1. CASE b \in Blocks(top.cont)
      BY <1>1, <3>1 DEF Knows
    <3>2. CASE b = cur /\ cur # NoBlock
      BY <1>1, <3>2 DEF Knows
    <3> QED
      BY <1>3, <2>1, <3>1, <3>2 DEF Only
  <2> QED
    BY <2>1 DEF Fitting
<1>7. /\ Blocks(cont) \subseteq Only(cur) \cup Rests(top)
      /\ c \in Refers(top) /\ top.k \in Roots
  <2>1. Pending(top) = (Blocks(top.brk) \cup Blocks(top.cont)) \ {NoBlock}
    BY <1>1, PendingIs
  <2>2. Rests(top) = Pending(top)
    BY <1>1 DEF Rests
  <2>3. c \in Refers(top) /\ top.k \in Roots
    BY <1>1 DEF Refers, Fixed, Own, Roots
  <2> QED
    BY <1>3, <1>4, <2>1, <2>2, <2>3
<1>8. g \in Frames /\ g.k = "docond" /\ frames' = Append(Below, g)
  BY <1>1, <1>3, Zenon DEF Frames, FrameKinds, Replace
<1> HIDE DEF g, c
<1>9. Sorted(blocks, TangleBlocks(blocks, c, cont), Blocks(cont)) /\ Blocks(cont) \subseteq Top(cur, top)
  BY <1>1, <1>5, <1>6, <1>7, TangleOrder, Zenon
<1>10. blocks' = TangleBlocks(blocks, c, cont)
  BY DEF c
<1>11. Holding(blocks', g)
  BY <1>8 DEF Holding
<1>12. Ordered(blocks', cur', Append(Below, g), at')
  BY <1>1, <1>8, <1>9, <1>10, <1>11, OrderSwap
<1> QED
  BY <1>8, <1>12 DEF Orders

LEMMA EndDoBodyOrder ==
  ASSUME NEW h, Before(h), Fed(blocks, cur, frames, unit), Ordered(blocks, cur, frames, at),
         EndDoBody
  PROVE  Orders
<1> DEFINE cont == IF cur = NoBlock THEN top.cont ELSE <<cur>> \o top.cont
<1>1. EndsBody("do")
  BY DEF EndDoBody
<1>2. CASE cont # <<>>
  <2>1. /\ Replace([top EXCEPT !.k = "docond", !.cont = cont])
        /\ at' = "expr"
        /\ blocks' = TangleBlocks(blocks, top.ctx, cont)
    BY <1>2 DEF EndDoBody, Produce
  <2>2. cont = IF cur = NoBlock THEN top.cont ELSE <<cur>> \o top.cont
    OBVIOUS
  <2>3. at' # "value"
    BY <2>1
  <2> HIDE DEF cont
  <2> QED
    BY <1>1, <1>2, <2>1, <2>2, <2>3, ContinuedOrder, Zenon
<1>3. CASE cont = <<>>
  BY <1>3, BrokenOrder
<1> QED
  BY <1>2, <1>3

-----------------------------------------------------------------------------
(* Steps that go back to a loop.                                           *)

LEMMA LoopTarget ==
  ASSUME NEW h, Before(h), NEW u, Fed(blocks, cur, frames, u),
         NEW i \in DOMAIN frames, NEW d \in Loops(frames[i])
  PROVE  /\ d \in DOMAIN blocks /\ Steady(blocks[d], Len(frames[i].scope))
         /\ blocks[d].par.live \subseteq With(blocks[d].syms)
         /\ \A x : Fitted(x, blocks[d])
<1>1. blocks \in Seq(Block) /\ FrameOK(Len(blocks), frames[i])
  BY BeforeFacts
<1>2. d \in DOMAIN blocks
  <2>1. Len(blocks) \in Nat /\ DOMAIN blocks = 1 .. Len(blocks)
    BY <1>1
  <2>2. Loops(frames[i]) \subseteq 1 .. Len(blocks)
    BY <1>1, <2>1, LoopsDomain
  <2> QED
    BY <2>1, <2>2
<1>3. /\ Steady(blocks[d], Len(frames[i].scope))
      /\ blocks[d].par.live \subseteq With(blocks[d].syms)
  BY <1>2 DEF Fed, Laden, Sound
<1>4. blocks[d] \in Block
  BY <1>1, <1>2
<1> QED
  BY <1>2, <1>3, <1>4, LoopFitted

LEMMA EndWhileOrder ==
  ASSUME NEW h, Before(h), Fed(blocks, cur, frames, unit), Ordered(blocks, cur, frames, at),
         EndWhile
  PROVE  Orders
<1> DEFINE S == Only(cur)
           d == top.oth
           c == top.post
           bs == JoinBlocks(blocks, S, d)
<1>1. EndsBody("wbody") /\ Done(Below, c, bs)
  BY DEF EndWhile, Only
<1>2. /\ frames # <<>> /\ top.k = "wbody" /\ blocks \in Seq(Block)
      /\ cur # NoBlock => cur \in DOMAIN blocks
  BY <1>1, BodyFacts
<1>3. top = frames[Len(frames)] /\ Len(frames) \in DOMAIN frames
  BY <1>2, BeforeFacts
<1>4. d \in DOMAIN blocks /\ \A x : Fitted(x, blocks[d])
  <2>1. d \in Loops(frames[Len(frames)])
    BY <1>2, <1>3 DEF Loops
  <2> HIDE DEF d
  <2> QED
    BY <1>3, <2>1, LoopTarget
<1>5. S \in SUBSET DOMAIN blocks /\ S \subseteq Top(cur, top)
  BY <1>2 DEF Only, Top
<1>6. \A b \in S : Fine(blocks[b], 0)
  BY <1>5 DEF Ordered, Orderly
<1> HIDE DEF S, d, c
<1>7. Sorted(blocks, bs, S)
  BY <1>2, <1>4, <1>5, <1>6, JoinSorted
<1> HIDE DEF bs
<1> QED
  BY <1>1, <1>2, <1>5, <1>7, LeaveOrder

LEMMA EndDoConditionOrder ==
  ASSUME NEW h, Before(h), Fed(blocks, cur, frames, unit), Ordered(blocks, cur, frames, at),
         EndDoCondition
  PROVE  Orders
<1> DEFINE r == Len(blocks) + 1
           p == top.par
           brk == top.brk
           o == top.oth
           ps == <<cur>> \o brk
           W == {cur} \cup Blocks(brk)
           bs == WeaveBlocks(blocks, p, brk, cur)
           bs2 == JoinBlocks(bs, {r}, o)
           nm == Lists(blocks)
           m == Len(top.scope)
<1>1. /\ at = "value" /\ frames # <<>> /\ top.k = "docond"
      /\ Done(Below, r + 1, bs2)
  BY DEF EndDoCondition, Returned, Waiting
<1>2. /\ cur # NoBlock /\ cur \in DOMAIN blocks /\ blocks \in Seq(Block)
      /\ Ready(blocks, cur, frames, at, h) /\ DOMAIN nm = DOMAIN blocks
      /\ Settled(nm, cur, frames, scope, at) /\ frames \in Seq(Frames)
      /\ nm \in Seq(Seq(Nat)) /\ scope \in Seq(Nat) /\ Fine(blocks[cur], 1)
      /\ top = frames[Len(frames)] /\ Len(frames) \in DOMAIN frames
  BY <1>1, ExprFacts, BeforeFacts, TopFine DEF Before
<1>3. /\ p \in DOMAIN blocks /\ o \in DOMAIN blocks /\ brk \in Seq(DOMAIN blocks)
      /\ \A b \in Blocks(brk) : b # NoBlock /\ b # cur
  BY <1>1, <1>2, DoFacts
<1>4. top.scope = scope /\ Knows(nm, top, scope)
  BY <1>1, TopScope DEF Body
<1>5. nm[p] = scope /\ \A b \in Blocks(brk) : Begins(scope, nm[b])
  BY <1>1, <1>4 DEF Knows, Fixed
<1>6. \A b : b \in Blocks(ps) <=> b = cur \/ b \in Blocks(brk)
  BY <1>2, <1>3, Prepend
<1>7. Fitting(blocks, p, ps)
  <2>1. Begins(scope, nm[cur])
    BY <1>2, CurrentList
  <2> HIDE DEF nm, brk, p, ps
  <2> QED
    BY <1>5, <1>6, <2>1 DEF Fitting, nm
<1>8. /\ Blocks(ps) \subseteq Only(cur) \cup Rests(top) /\ W \subseteq Top(cur, top)
      /\ p \in Refers(top) /\ top.k \in Roots
  <2>1. Pending(top) = Blocks(brk) \ {NoBlock}
    BY <1>1, PendingIs
  <2>2. Rests(top) = Pending(top) /\ Pending(top) = Blocks(brk)
    BY <1>1, <1>3, <2>1 DEF Rests
  <2>3. p \in Refers(top) /\ top.k \in Roots
    BY <1>1 DEF Refers, Fixed, Own, Roots
  <2> HIDE DEF brk, ps, p
  <2> QED
    BY <1>2, <1>6, <2>2, <2>3 DEF Top, Only
<1>9. Backs(blocks, p, ps)
  <2> HIDE DEF p, ps
  <2> QED
    BY <1>1, <1>8, TopBacks
<1>10. \A b \in W : b \in DOMAIN blocks /\ Len(blocks[b].stack) = 0 /\ Fine(blocks[b], 0)
  <2>1. \A b \in W : b \in DOMAIN blocks /\ Len(blocks[b].stack) = 0
    <3> HIDE DEF W
    <3> QED
      BY <1>1, <1>8, RootLevel
  <2> QED
    BY <2>1 DEF Ordered, Orderly
<1>11. Evenly(blocks, ps)
  <2>1. ps[1] = cur
    BY <1>3
  <2>2. \A b \in Blocks(ps) : Len(blocks[ps[1]].stack) <= Len(blocks[b].stack)
    BY <1>6, <1>10, <2>1
  <2> QED
    BY <2>2 DEF Evenly
<1>12. Sorted(blocks, bs, W) /\ Len(bs) = Len(blocks) + 2
  <2>1. cur \notin Blocks(brk) /\ \A b \in Blocks(brk) : Fine(blocks[b], 0)
    BY <1>3, <1>10
  <2> HIDE DEF p, brk
  <2> QED
    BY <1>2, <1>3, <1>7, <1>9, <1>11, <2>1, WeaveSorted, Zenon
<1>13. Joins(blocks, bs, W, 2, unit)
  <2>1. cur \notin Blocks(brk)
    BY <1>3
  <2>2. Sound(blocks, unit)
    BY DEF Fed
  <2> HIDE DEF p, brk
  <2>3. LET y == WeaveBlocks(blocks, p, brk, cur)
        IN Joins(blocks, y, {cur} \cup Blocks(brk), 2, unit)
    BY ONLY <1>2, <1>3, <1>7, <1>9, <2>1, <2>2, WeaveJoins
  <2> QED
    BY <2>3
<1>14. o \in Loops(frames[Len(frames)]) /\ top.scope = frames[Len(frames)].scope
  BY <1>1, <1>2 DEF Loops
<1> HIDE DEF bs, p, ps, brk, W, nm, o
<1>15. /\ bs \in Seq(Block) /\ r \in DOMAIN bs /\ r \notin DOMAIN blocks /\ o \in DOMAIN bs
       /\ Grown(blocks, bs, unit) /\ Kin(bs[o], blocks[o])
  <2>1. bs \in Seq(Block) /\ Grown(blocks, bs, unit) /\ Keeps(blocks, bs)
    BY <1>12, <1>13 DEF Sorted, Joins
  <2>2. Len(blocks) \in Nat /\ DOMAIN bs = 1 .. Len(bs) /\ DOMAIN blocks = 1 .. Len(blocks)
    BY <1>2, <2>1
  <2>3. r \in DOMAIN bs /\ r \notin DOMAIN blocks /\ o \in DOMAIN bs
    BY <1>3, <1>12, <2>2
  <2>4. Kin(bs[o], blocks[o])
    BY <1>3, <2>1 DEF Keeps
  <2> QED
    BY <2>1, <2>3, <2>4
<1>16. \A x : Fitted(x, bs[o])
  <2>1. Steady(blocks[o], m)
    BY <1>2, <1>14, LoopTarget
  <2>2. Steady(bs[o], m)
    BY <1>15, <2>1 DEF Kin, Steady
  <2>3. bs[o].par.live \subseteq With(bs[o].syms)
    <3>1. Sound(bs, unit)
      <4>1. Sound(blocks, unit)
        BY DEF Fed
      <4> QED
        BY <1>2, <1>15, <4>1, GrownSound
    <3> QED
      BY <1>15, <3>1 DEF Sound
  <2>4. bs[o] \in Block
    BY <1>15
  <2> HIDE DEF m
  <2> QED
    BY <2>2, <2>3, <2>4, LoopFitted
<1>17. Fine(bs[r], 0)
  BY <1>12, <1>15 DEF Sorted
<1> HIDE DEF r, bs2, m
<1>18. Sorted(bs, bs2, {r})
  <2>1. {r} \in SUBSET DOMAIN bs /\ \A b \in {r} : Fine(bs[b], 0) /\ Fitted(bs[b], bs[o])
    BY <1>15, <1>16, <1>17
  <2> QED
    BY <1>15, <2>1, JoinSorted DEF bs2
<1>19. Sorted(blocks, bs2, W)
  <2>1. \A b \in DOMAIN blocks : b \in W <=> b \in W \/ b \in {r}
    BY <1>15
  <2> QED
    BY <1>2, <1>12, <1>18, <2>1, SortedTrans, Zenon
<1> QED
  BY <1>1, <1>8, <1>19, LeaveOrder

LEMMA ControlOrder ==
  ASSUME NEW h, Before(h), Fed(blocks, cur, frames, unit), Ordered(blocks, cur, frames, at),
         NEW k, NEW i, Control(k, i)
  PROVE  Orders
<1> DEFINE f == frames[i]
<1>1. cur # NoBlock /\ at' = "stmt" /\ i \in DOMAIN frames
  BY DEF Control, Statement
<1>2. /\ blocks \in Seq(Block) /\ frames \in Seq(Frames) /\ cur \in DOMAIN blocks
      /\ f \in Frames /\ Only(cur) = {cur} /\ Fine(blocks[cur], 0) /\ at' # "value"
  BY <1>1, BeforeFacts, CurFine
<1>3. CASE f.k = "do" /\ blocks' = blocks
            /\ frames' = IF k = "break" THEN [frames EXCEPT ![i].brk = <<cur>> \o @]
                                        ELSE [frames EXCEPT ![i].cont = <<cur>> \o @]
  <2> DEFINE s == <<cur>> \o f.brk
             t == <<cur>> \o f.cont
             g == IF k = "break" THEN [f EXCEPT !.brk = s] ELSE [f EXCEPT !.cont = t]
  <2>1. frames' = [frames EXCEPT ![i] = g]
    BY <1>1, <1>3, Zenon
  <2> HIDE DEF s, t
  <2>2. g.k = "do"
    <3>1. f \in Frames /\ f.k = "do"
      BY <1>2, <1>3
    <3> HIDE DEF f
    <3> QED
      BY <3>1 DEF Frames
  <2> HIDE DEF g, f
  <2>3. Ordered(blocks, cur', [frames EXCEPT ![i] = g], at')
    BY <1>1, <1>2, <2>2, OrderLoop
  <2> QED
    BY <1>3, <2>1, <2>3, Zenon DEF Orders
<1>4. CASE f.k = "wbody" /\ frames' = frames
            /\ blocks' = JoinBlocks(blocks, {cur}, IF k = "break" THEN f.post ELSE f.oth)
  <2> DEFINE d == IF k = "break" THEN f.post ELSE f.oth
  <2>1. d \in Loops(f)
    BY <1>4 DEF Loops
  <2>2. blocks' = JoinBlocks(blocks, {cur}, d)
    BY <1>4
  <2> HIDE DEF d
  <2>3. d \in DOMAIN blocks /\ \A x : Fitted(x, blocks[d])
    BY <1>1, <2>1, LoopTarget
  <2>4. {cur} \in SUBSET DOMAIN blocks /\ {cur} \subseteq Only(cur)
    BY <1>2
  <2>5. Sorted(blocks, blocks', {cur})
    BY <1>2, <2>2, <2>3, <2>4, JoinSorted
  <2>6. Nearby(frames')
    BY <1>4 DEF Nearby
  <2> QED
    BY <1>2, <2>4, <2>5, <2>6, NearOrder DEF Orders
<1> QED
  BY <1>3, <1>4 DEF Control, Produce

-----------------------------------------------------------------------------
(* The end of a function and of the unit.                                  *)

LEMMA SealSorted ==
  ASSUME NEW bs \in Seq(Block), NEW c \in DOMAIN bs, NEW x \in Block,
         Fine(x, 0), Terminated(x)
  PROVE  Sorted(bs, [bs EXCEPT ![c] = x], {c})
<1> DEFINE bs2 == [bs EXCEPT ![c] = x]
<1>1. bs2 \in Seq(Block) /\ Len(bs2) = Len(bs) /\ DOMAIN bs2 = DOMAIN bs
  BY ExceptAnywhere
<1>2. bs2[c] = x /\ \A b \in DOMAIN bs : b # c => bs2[b] = bs[b]
  OBVIOUS
<1>3. Len(bs) <= Len(bs2)
  BY <1>1
<1> HIDE DEF bs2
<1>4. Sorted(bs, bs2, {c})
  BY <1>1, <1>2, <1>3 DEF Sorted
<1> QED
  BY <1>4 DEF bs2

\* A return unwraps the return struct, and takes it and the value.
LEMMA ReturnTailFine ==
  ASSUME NEW b \in Block, Fine(b, 0), 0 \in Numbers(b), NEW args \in Seq(Int),
         \A k \in DOMAIN args : args[k] \in Numbers(b)
  PROVE  LET x == ReturnTail(b, args) IN x \in Block /\ Fine(x, 0) /\ Terminated(x)
<1> DEFINE r == Emit(b, "unwrap", <<0>>)
           l == LastInstruction(r)
           a == <<0>> \o args
           t == [OpenTail EXCEPT !.type = "return", !.first = l, !.args = a]
           x == [r EXCEPT !.tail = t]
           one == 0 + 1
           zero == 0
           only == <<0>>
<1>0. one \in Nat /\ one >= 0 /\ zero \in Nat /\ one = zero + 1
  OBVIOUS
<1>1. "unwrap" \in Ops /\ only \in Seq(Int) /\ \A k \in DOMAIN only : only[k] \in Numbers(b)
  BY DEF Ops
<1>2. Fine(r, one) /\ Longer(r, b)
  <2>1. Fine(b, zero)
    OBVIOUS
  <2> HIDE DEF only, one, zero
  <2>2. Fine(Emit(b, "unwrap", only), zero + 1) /\ Longer(Emit(b, "unwrap", only), b)
    BY <1>0, <1>1, <2>1, EmitFine
  <2> QED
    BY <1>0, <2>2 DEF only
<1> HIDE DEF r
<1>3. r \in Block /\ l \in Numbers(r) /\ Numbers(b) \subseteq Numbers(r) /\ 0 \in Numbers(r)
  BY <1>2 DEF Longer
<1>4. \A k \in DOMAIN a : a[k] \in Numbers(r)
  <2>1. DOMAIN a = 1 .. Len(args) + 1 /\ a[1] = 0
        /\ \A k \in 1 .. Len(args) : a[k + 1] = args[k]
    OBVIOUS
  <2>2. DOMAIN args = 1 .. Len(args) /\ Len(args) \in Nat
    OBVIOUS
  <2> HIDE DEF a
  <2>3. SUFFICES ASSUME NEW k \in DOMAIN a PROVE a[k] \in Numbers(r)
    OBVIOUS
  <2>4. CASE k = 1
    BY <1>3, <2>1, <2>4
  <2>5. CASE k # 1
    <3>1. k - 1 \in 1 .. Len(args) /\ (k - 1) + 1 = k
      BY <2>1, <2>2, <2>5
    <3>2. a[k] = args[k - 1] /\ k - 1 \in DOMAIN args
      BY <2>1, <2>2, <3>1
    <3> QED
      BY <1>3, <3>2
  <2> QED
    BY <2>4, <2>5
<1> HIDE DEF a, l
<1>5. /\ t.first = l /\ t.second = 0 /\ t.cond = 0 /\ t.args = a /\ t.live = {}
      /\ t.type = "return"
  BY DEF OpenTail
<1> HIDE DEF t
<1>6. Fine(x, one) /\ Numbers(x) = Numbers(r) /\ x.tail = t
  <2> HIDE DEF one
  <2> QED
    BY <1>0, <1>2, <1>3, TailFine, Zenon
<1>7. x = ReturnTail(b, args)
  BY DEF x, t, r, l, a, ReturnTail
<1>8. x \in Block
  BY <1>7, ReturnTailBlock
<1> HIDE DEF x
<1>9. Fine(x, zero)
  <2> HIDE DEF one, zero
  <2>1. zero <= one
    BY <1>0
  <2> QED
    BY <1>0, <1>6, <1>8, <2>1, FineLess
<1>10. Terminated(x)
  BY <1>3, <1>4, <1>5, <1>6 DEF Terminated
<1> QED
  BY <1>7, <1>8, <1>9, <1>10

LEMMA EndReturnOrder ==
  ASSUME NEW h, Before(h), Ordered(blocks, cur, frames, at), EndReturn
  PROVE  Orders
<1> DEFINE b == blocks[cur]
           args == <<LastInstruction(b)>>
           x == ReturnTail(b, args)
           bs == [blocks EXCEPT ![cur] = x]
<1>1. /\ at = "value" /\ frames # <<>> /\ top.k = "return" /\ Done(Below, NoBlock, bs)
  BY DEF EndReturn, Returned, Waiting
<1>2. cur # NoBlock
  BY <1>1, ExprFacts
<1>3. /\ cur \in DOMAIN blocks /\ blocks \in Seq(Block) /\ b \in Block /\ Only(cur) = {cur}
      /\ Fine(b, 0) /\ Fine(b, 1) /\ Len(b.stack) \in Nat
  BY <1>1, <1>2, CurFine
<1>4. LastInstruction(b) \in Numbers(b) /\ 0 \in Numbers(b)
  <2> DEFINE one == 1
             n == Len(b.stack)
  <2>1. one \in Nat /\ Fine(b, one) /\ one + n >= 1
    BY <1>3
  <2> HIDE DEF one
  <2> QED
    BY <1>3, <2>1, FineLast
<1>5. LastInstruction(b) \in Int
  BY <1>3, ParamCountNat
<1>6. args \in Seq(Int) /\ \A k \in DOMAIN args : args[k] \in Numbers(b)
  BY <1>4, <1>5
<1> HIDE DEF args
<1>7. x \in Block /\ Fine(x, 0) /\ Terminated(x)
  <2> HIDE DEF b
  <2> QED
    BY <1>3, <1>4, <1>6, ReturnTailFine
<1> HIDE DEF x
<1>8. Sorted(blocks, bs, {cur})
  BY <1>3, <1>7, SealSorted
<1>9. {cur} \subseteq Top(cur, top)
  BY <1>3 DEF Top
<1> HIDE DEF bs
<1> QED
  BY <1>1, <1>8, <1>9, LeaveOrder

LEMMA EndUnitOrder ==
  ASSUME NEW h, Before(h), Fed(blocks, cur, frames, unit), Ordered(blocks, cur, frames, at),
         EndUnit
  PROVE  Orders
<1>1. at = "stmt" /\ cur' = cur /\ frames' = frames /\ at' = at /\ at # "value"
  BY DEF EndUnit
<1>2. blocks \in Seq(Block) /\ unit \in {"top", "void", "value"}
  BY BeforeFacts, UnitsAssumption DEF Before, Types
<1>3. CASE blocks' = blocks
  BY <1>1, <1>3, StopOrder
<1>4. ASSUME cur \in DOMAIN blocks, Only(cur) = {cur}, NEW x \in Block, Fine(x, 0), Terminated(x),
             blocks' = [blocks EXCEPT ![cur] = x]
      PROVE  Orders
  <2>1. Sorted(blocks, blocks', {cur})
    BY <1>2, <1>4, SealSorted, Zenon
  <2>2. Ordered(blocks', cur, frames, at)
    BY <1>1, <1>4, <2>1, OrderStay
  <2> QED
    BY <1>1, <2>2 DEF Orders
<1> DEFINE b == blocks[cur]
<1>5. CASE cur # NoBlock /\ unit = "top"
  <2> DEFINE x == [b EXCEPT !.final = TRUE]
             zero == 0
  <2>1. cur \in DOMAIN blocks /\ b \in Block /\ b.tail.type = "open" /\ Only(cur) = {cur}
        /\ Fine(b, zero) /\ zero \in Nat
    BY <1>5, CurFine
  <2>2. x \in Block
    BY <2>1, Zenon DEF Block
  <2>3. Fine(x, zero) /\ x.tail.type = "open"
    <3> HIDE DEF zero, b
    <3>1. Fine([b EXCEPT !.final = TRUE], zero) /\ [b EXCEPT !.final = TRUE].tail = b.tail
      BY <2>1, TailFine, Zenon
    <3> QED
      BY <2>1, <3>1
  <2>4. blocks' = [blocks EXCEPT ![cur] = x]
    BY <1>5 DEF EndUnit
  <2> HIDE DEF x
  <2>5. Terminated(x)
    BY <2>3 DEF Terminated
  <2> QED
    BY <1>4, <2>1, <2>2, <2>3, <2>4, <2>5, Zenon
<1>6. CASE cur # NoBlock /\ unit = "void"
  <2> DEFINE none == <<>>
             x == ReturnTail(b, none)
  <2>1. /\ cur \in DOMAIN blocks /\ b \in Block /\ Only(cur) = {cur} /\ Fine(b, 0)
    BY <1>6, CurFine
  <2>2. b.hasRet
    BY <1>6 DEF Fed, Returning
  <2>3. 0 \in Numbers(b)
    <3>1. b.retIns \in Numbers(b)
      BY <2>1, <2>2 DEF Fine, Located
    <3>2. Numbers(b) = 0 .. NextInstruction(b) - 1 /\ NextInstruction(b) \in Nat
      BY <2>1, BlockParts
    <3> QED
      BY <3>1, <3>2
  <2>4. none \in Seq(Int) /\ \A k \in DOMAIN none : none[k] \in Numbers(b)
    OBVIOUS
  <2>5. blocks' = [blocks EXCEPT ![cur] = x]
    BY <1>6 DEF EndUnit
  <2> HIDE DEF none
  <2>6. x \in Block /\ Fine(x, 0) /\ Terminated(x)
    <3> HIDE DEF b
    <3> QED
      BY <2>1, <2>3, <2>4, ReturnTailFine
  <2> HIDE DEF x
  <2> QED
    BY <1>4, <2>1, <2>5, <2>6, Zenon
<1>7. cur = NoBlock \/ unit = "value" => blocks' = blocks
  BY Zenon DEF EndUnit
<1> QED
  BY <1>2, <1>3, <1>5, <1>6, <1>7

-----------------------------------------------------------------------------
(* The value of a conditional expression.                                  *)

LEMMA MirrorTop ==
  ASSUME NEW b \in Block, Fine(b, 0), Len(b.stack) >= 1
  PROVE  LET x == Mirror(PopStack(b, 1), b.stack[1])
         IN x \in Block /\ Fine(x, 1) /\ x.tail = b.tail
<1> DEFINE one == 1
           zero == 0
           two == one + 1
           y == PopStack(b, one)
           src == b.stack[1]
           x == Mirror(y, src)
<1>0. zero \in Nat /\ one \in Nat /\ zero + one = one /\ two \in Nat /\ one <= two
  OBVIOUS
<1>1. src \in Numbers(b)
  <2>1. 1 \in DOMAIN b.stack
    BY BlockParts
  <2> QED
    BY <2>1 DEF Fine, Located
<1>2. Fine(b, zero) /\ one <= Len(b.stack)
  OBVIOUS
<1> HIDE DEF one, zero, src
<1>3. Fine(y, zero + one) /\ Equal(y, b)
  BY <1>0, <1>2, PopFine
<1> HIDE DEF y
<1>4. y \in Block /\ Fine(y, one) /\ src \in Numbers(y) /\ y.tail = b.tail
  BY <1>0, <1>1, <1>3 DEF Equal
<1>5. Fine(x, one + 1) /\ Longer(x, y)
  BY <1>0, <1>4, MirrorFine
<1> HIDE DEF x
<1>6. x \in Block /\ x.tail = b.tail /\ Fine(x, two)
  BY <1>4, <1>5 DEF Longer
<1>7. Fine(x, one)
  <2> HIDE DEF two
  <2> QED
    BY <1>0, <1>6, FineLess
<1> QED
  BY <1>6, <1>7 DEF x, y, src, one

\* Both branches of a conditional expression leave their values on the stack.
LEMMA PushBothSorted ==
  ASSUME NEW bs \in Seq(Block), NEW p \in DOMAIN bs, NEW q \in DOMAIN bs, p # q,
         Fine(bs[p], 1), Fine(bs[q], 1), Len(bs[p].stack) = Len(bs[q].stack),
         bs[p].tail.type = "open", bs[q].tail.type = "open"
  PROVE  LET bs2 == PushBoth(bs, p, q)
         IN /\ Sorted(bs, bs2, {p, q})
            /\ Len(bs2[p].stack) = Len(bs[p].stack) + 1
            /\ Len(bs2[q].stack) = Len(bs[p].stack) + 1
            /\ Fine(bs2[p], 0) /\ Fine(bs2[q], 0)
<1> DEFINE x == PushStack(bs[p])
           y == PushStack(bs[q])
           bs1 == [bs EXCEPT ![p] = x]
           bs2 == [bs1 EXCEPT ![q] = y]
           n == Len(bs[p].stack)
<1>1. bs[p] \in Block /\ bs[q] \in Block
  OBVIOUS
<1>2. \A b \in Block : Fine(b, 1) =>
        PushStack(b) \in Block /\ Fine(PushStack(b), 0) /\ PushStack(b).tail = b.tail
        /\ Len(PushStack(b).stack) = Len(b.stack) + 1
  <2> SUFFICES ASSUME NEW b \in Block, Fine(b, 1)
               PROVE  /\ PushStack(b) \in Block /\ Fine(PushStack(b), 0)
                      /\ PushStack(b).tail = b.tail
                      /\ Len(PushStack(b).stack) = Len(b.stack) + 1
    OBVIOUS
  <2> DEFINE zero == 0
  <2>1. zero \in Nat /\ Fine(b, zero + 1)
    OBVIOUS
  <2> HIDE DEF zero
  <2>2. Fine(PushStack(b), zero) /\ Equal(PushStack(b), b)
        /\ Len(PushStack(b).stack) = Len(b.stack) + 1
    BY <2>1, PushFine, Zenon
  <2> QED
    BY <2>2 DEF Equal, zero
<1>3. /\ x \in Block /\ Fine(x, 0) /\ x.tail.type = "open" /\ Len(x.stack) = n + 1
      /\ y \in Block /\ Fine(y, 0) /\ y.tail.type = "open" /\ Len(y.stack) = n + 1
  BY <1>1, <1>2, Zenon
<1> HIDE DEF x, y
<1>4. Sorted(bs, bs1, {p}) /\ bs1 \in Seq(Block) /\ q \in DOMAIN bs1
  BY <1>3, FillSorted, ExceptAnywhere, Zenon
<1>5. Sorted(bs1, bs2, {q})
  <2> HIDE DEF bs1
  <2> QED
    BY <1>3, <1>4, FillSorted
<1>6. bs2[p] = x /\ bs2[q] = y
  BY <1>4
<1>7. bs2 = PushBoth(bs, p, q)
  <2>1. bs1[q] = bs[q]
    OBVIOUS
  <2> QED
    BY <2>1 DEF PushBoth, x, y
<1>8. Sorted(bs, bs2, {p, q})
  <2>1. \A b \in DOMAIN bs : b \in {p, q} <=> b \in {p} \/ b \in {q}
    OBVIOUS
  <2> HIDE DEF bs1, bs2
  <2> QED
    BY <1>4, <1>5, <2>1, SortedTrans
<1> HIDE DEF bs2
<1> QED
  BY <1>3, <1>6, <1>7, <1>8

LEMMA EndTernaryOrder ==
  ASSUME NEW h, Before(h), Fed(blocks, cur, frames, unit), Ordered(blocks, cur, frames, at),
         EndTernary
  PROVE  Orders
<1> DEFINE p == top.oth
           c == top.ctx
           nm == Lists(blocks)
           S == {p, cur}
           pushed == PushBoth(blocks, p, cur)
           ps == <<p, cur>>
           merged == TangleBlocks(pushed, c, ps)
           post == Len(merged)
           x == Mirror(PopStack(merged[post], 1), merged[post].stack[1])
           bs2 == blocks'
           g == h[Len(frames) - 1]
<1>1. /\ at = "value" /\ frames # <<>> /\ top.k = "tsecond"
      /\ frames' = Below /\ cur' = post /\ at' = "value"
      /\ bs2 = [merged EXCEPT ![post] = x]
  BY DEF EndTernary, Returned, Waiting, Value, Produce, MergeBlocks, PushBoth
<1>2. cur # NoBlock /\ cur \in DOMAIN blocks /\ blocks \in Seq(Block) /\ Whole(blocks)
  BY <1>1, ExprFacts
<1>3. /\ top \in Frames /\ DOMAIN nm = DOMAIN blocks
      /\ top = frames[Len(frames)] /\ Len(frames) \in DOMAIN frames
      /\ FrameOK(Len(blocks), top) /\ Scene(nm, cur, frames, scope)
      /\ Settled(nm, cur, frames, scope, at)
      /\ nm \in Seq(Seq(Nat))
  BY <1>1, BeforeFacts
<1>4. p # NoBlock /\ p \in DOMAIN blocks /\ c \in DOMAIN blocks
  BY <1>1, <1>2, <1>3 DEF FrameOK, NoBlock
<1>5. /\ p # cur /\ Fixed(top) = {c, p} /\ Rests(top) = {p} /\ c \in Refers(top)
      /\ Only(cur) = {cur} /\ S = Only(cur) \cup Rests(top) /\ Pending(top) = {p}
  <2>1. Pending(top) = {p} /\ p # cur /\ Fixed(top) = {c, p}
    BY <1>1, <1>3, <1>4, PendingIs, Zenon DEF Scene, Fixed
  <2> QED
    BY <1>1, <1>2, <2>1 DEF Rests, Refers, Only
<1>6. nm[c] = nm[cur] /\ nm[p] = nm[cur] /\ nm[cur] \in Seq(Nat)
  BY <1>1, <1>2, <1>3, <1>5 DEF Settled, Known
<1>7. Blocks(ps) = S /\ 1 \in DOMAIN ps /\ ps[1] = p
  <2>1. ps \in Seq({p, cur}) /\ Len(ps) = 2 /\ ps[1] = p /\ ps[2] = cur
    OBVIOUS
  <2> HIDE DEF ps
  <2>2. DOMAIN ps = {1, 2}
    BY <2>1, SMTT(30)
  <2> QED
    BY <2>1, <2>2 DEF Blocks
<1>8. S \subseteq DOMAIN blocks /\ S \subseteq Top(cur, top)
      /\ blocks[p].tail.type = "open" /\ blocks[cur].tail.type = "open"
  <2>1. \A b \in S : Open(blocks, b)
    BY <1>1, <1>5, TopOpen
  <2>2. S \subseteq Top(cur, top)
    BY <1>5 DEF Top
  <2> QED
    BY <1>2, <1>4, <2>1, <2>2 DEF Open
<1>9. /\ Fine(blocks[p], 1) /\ Fine(blocks[cur], 1) /\ g \in Nat
      /\ Len(blocks[p].stack) = g /\ Len(blocks[cur].stack) = g
  <2>1. Holding(blocks, top)
    BY <1>3 DEF Ordered
  <2>2. Fine(blocks[p], 1)
    BY <1>1, <2>1 DEF Holding
  <2>3. Ready(blocks, cur, frames, at, h)
    BY DEF Before
  <2>4. /\ g \in Nat /\ \A b \in Pending(top) : Len(blocks[b].stack) = g
        /\ Len(blocks[cur].stack) = g + Pushed(top)
    BY <1>1, <1>2, <1>3, <2>3, TopReady
  <2>5. Pushed(top) = 0
    BY <1>1 DEF Pushed
  <2>6. Len(blocks[p].stack) = g
    BY <1>5, <2>4
  <2>7. Fine(blocks[cur], 1)
    BY <1>1 DEF Ordered
  <2> HIDE DEF g
  <2> QED
    BY <2>2, <2>4, <2>5, <2>6, <2>7
<1>10. Backs(blocks, c, ps)
  BY <1>1, <1>5, <1>7, TopBacks
<1> HIDE DEF p, c, ps, S, g
<1>11. /\ Sorted(blocks, pushed, S) /\ Fine(pushed[p], 0) /\ Fine(pushed[cur], 0)
       /\ Len(pushed[p].stack) = g + 1 /\ Len(pushed[cur].stack) = g + 1
  <2> DEFINE both == PushBoth(blocks, p, cur)
  <2>1. /\ blocks \in Seq(Block) /\ p \in DOMAIN blocks /\ cur \in DOMAIN blocks /\ p # cur
        /\ Len(blocks[p].stack) = Len(blocks[cur].stack)
    BY <1>2, <1>4, <1>5, <1>9
  <2>2. /\ Sorted(blocks, both, {p, cur})
        /\ Len(both[p].stack) = Len(blocks[p].stack) + 1
        /\ Len(both[cur].stack) = Len(blocks[p].stack) + 1
        /\ Fine(both[p], 0) /\ Fine(both[cur], 0)
    BY ONLY <1>8, <1>9, <2>1, PushBothSorted
  <2> HIDE DEF both
  <2>3. Len(both[p].stack) = g + 1 /\ Len(both[cur].stack) = g + 1
    BY <1>9, <2>2
  <2> QED
    BY <2>2, <2>3 DEF both, S
<1>12. Keeps(blocks, pushed) /\ Len(pushed) = Len(blocks) /\ pushed \in Seq(Block)
  BY <1>2, <1>4, <1>5, BothKeep
<1> HIDE DEF pushed
<1>13. DOMAIN pushed = DOMAIN blocks /\ Whole(pushed) /\ More(nm, Lists(pushed))
  BY <1>2, <1>12, KeepsWhole, KeepsLists
<1>14. Lists(pushed)[c] = nm[c] /\ Lists(pushed)[p] = nm[p] /\ Lists(pushed)[cur] = nm[cur]
  BY <1>2, <1>3, <1>4, <1>13 DEF More
<1>15. \A b \in DOMAIN blocks : pushed[b].hasRet = blocks[b].hasRet
  BY <1>12 DEF Keeps, Kin
<1>16. Fitting(pushed, c, ps) /\ Backs(pushed, c, ps) /\ Evenly(pushed, ps)
  <2>1. Begins(nm[cur], nm[cur])
    BY <1>6, BeginsItself
  <2>2. Fitting(pushed, c, ps)
    BY <1>6, <1>7, <1>14, <2>1 DEF Fitting, S
  <2>3. Backs(pushed, c, ps)
    BY <1>4, <1>7, <1>8, <1>10, <1>15 DEF Backs
  <2>4. Evenly(pushed, ps)
    BY <1>7, <1>9, <1>11 DEF Evenly, S
  <2> QED
    BY <2>2, <2>3, <2>4
<1> DEFINE y == ChildBlock(pushed, c, ps)
           d == Len(pushed) + 1
<1>17. Sorted(pushed, merged, S) /\ merged[d] = y /\ Len(merged) = d
  <2>1. c \in DOMAIN pushed /\ Blocks(ps) \subseteq DOMAIN pushed
    BY <1>4, <1>7, <1>8, <1>13
  <2>2. \A b \in Blocks(ps) : Fine(pushed[b], 0)
    BY <1>7, <1>11 DEF S
  <2> QED
    BY <1>7, <1>12, <1>16, <2>1, <2>2, TangleSorted
<1>18. y \in Block /\ y.tail.type = "open" /\ Fine(y, 0) /\ Len(y.stack) >= 1
  <2>1. c \in DOMAIN pushed /\ Blocks(ps) \subseteq DOMAIN pushed
    BY <1>4, <1>7, <1>8, <1>13
  <2>2. \A b \in Blocks(ps) : Located(pushed[b])
    BY <1>7, <1>11 DEF S, Fine
  <2>3. y \in Block /\ y.tail = OpenTail /\ Fine(y, 0)
    BY <1>7, <1>12, <1>16, <2>1, <2>2, ChildFine
  <2>4. Len(merged[Len(pushed) + 1].stack) = Len(pushed[ps[1]].stack)
    BY <1>7, <1>12, <2>1, TangleEffect, Zenon
  <2>5. Len(y.stack) = g + 1
    BY <1>7, <1>11, <1>17, <2>4
  <2> QED
    BY <1>9, <2>3, <2>5 DEF OpenTail
<1> HIDE DEF y, merged
<1>19. post = d /\ merged[post] = y /\ post \in DOMAIN merged /\ post \notin DOMAIN blocks
       /\ merged \in Seq(Block)
  <2>1. merged \in Seq(Block)
    BY <1>17 DEF Sorted
  <2> QED
    BY <1>12, <1>17, <2>1
<1>20. x \in Block /\ Fine(x, 1) /\ x.tail.type = "open"
  BY <1>18, <1>19, MirrorTop
<1>21. Fine(x, 0)
  <2> DEFINE one == 1
             zero == 0
  <2>1. one \in Nat /\ zero \in Nat /\ zero <= one /\ Fine(x, one)
    BY <1>20
  <2> HIDE DEF one, zero, x
  <2>2. Fine(x, zero)
    BY <1>20, <2>1, FineLess
  <2> QED
    BY <2>2 DEF zero
<1> HIDE DEF x, d, post
<1>22. Sorted(merged, bs2, {post}) /\ bs2[post] = x
  BY <1>1, <1>19, <1>20, <1>21, FillSorted, Zenon
<1> HIDE DEF bs2
<1>23. Sorted(blocks, merged, S)
  <2>1. \A b \in DOMAIN blocks : b \in S <=> b \in S \/ b \in S
    OBVIOUS
  <2> QED
    BY <1>2, <1>11, <1>17, <2>1, SortedTrans
<1>24. Sorted(blocks, bs2, S)
  <2>1. \A b \in DOMAIN blocks : b \in S <=> b \in S \/ b \in {post}
    BY <1>19
  <2> QED
    BY <1>2, <1>22, <1>23, <2>1, SortedTrans
<1>25. Ordered(bs2, post, Below, "value")
  BY <1>1, <1>8, <1>20, <1>22, <1>24, OrderLeave, Zenon
<1> QED
  BY <1>1, <1>25 DEF Orders, bs2

-----------------------------------------------------------------------------
(* A call: what the caller keeps in the context struct, and what the return *)
(* block takes out of it.                                                  *)

Saved(q) == (IF q.hasRet THEN <<q.retIns>> ELSE <<>>) \o q.stack
              \o [i \in DOMAIN q.syms |-> q.syms[i].ins]

\* The instructions that build the context struct o of q.
Header(o, r) == <<Instr("new", <<>>, 0), Instr("ref", <<>>, r), Instr("put", <<o, o + 1>>, 0)>>
Puts(q, o) == [i \in DOMAIN Saved(q) |-> Instr("put", <<o, Saved(q)[i]>>, 0)]
Keeping(q, o) ==
  IF Saved(q) = <<>> THEN <<>> ELSE Append(Puts(q, o), Instr("cast", <<o>>, 0))

Caller(b, r, n) ==
  LET q == PopStack(b, n + 1)
      o == NextInstruction(q)
      caller == [q EXCEPT !.code = @ \o Header(o, r) \o Keeping(q, o)]
  IN [caller EXCEPT !.tail = [OpenTail EXCEPT
        !.type = "call", !.first = b.stack[n + 1],
        !.args = <<IF Saved(q) = <<>> THEN o ELSE LastInstruction(caller)>>
                   \o [i \in 1 .. n |-> b.stack[n + 1 - i]]]]

\* The instructions that take it apart again.
Fetches(q, base) == [i \in DOMAIN Saved(q) |-> Instr("field", <<base>>, 0)]
Taking(q, base, nonvoid) ==
  <<Instr("cast", <<0>>, 0)>> \o Fetches(q, base)
    \o IF nonvoid THEN <<Instr("get", <<1>>, 0)>> ELSE <<>>

Back(q, z, nonvoid) ==
  LET base == ParamCount(z)
      height == One(q.hasRet) + Len(q.stack)
  IN IF Saved(q) = <<>> THEN z
     ELSE [z EXCEPT !.code = Taking(q, base, nonvoid),
                    !.hasRet = q.hasRet,
                    !.retIns = IF q.hasRet THEN base + 1 ELSE 0,
                    !.stack = [i \in DOMAIN q.stack |-> base + One(q.hasRet) + i],
                    !.syms = [i \in DOMAIN q.syms |->
                                [s |-> q.syms[i].s, ex |-> TRUE, ins |-> base + height + i]]]

LEMMA InvokeIs ==
  ASSUME NEW bs, NEW p, NEW r, NEW n, NEW nonvoid
  PROVE  Invoke(bs, p, r, n, nonvoid) =
           [bs EXCEPT ![p] = Caller(bs[p], r, n),
                      ![r] = Back(PopStack(bs[p], n + 1), bs[r], nonvoid)]
BY DEF Invoke, Caller, Back, Saved, Header, Puts, Keeping, Fetches, Taking

LEMMA BlankFine ==
  ASSUME NEW z, Blank(z)
  PROVE  /\ z \in Block /\ z.tail = OpenTail /\ Fine(z, 1) /\ ParamCount(z) \in {1, 2}
         /\ Len(z.stack) = 0 /\ DOMAIN z.syms = {}
<1>1. PICK m \in {1, 2} : z = [EmptyBlock EXCEPT !.par.extra = m]
  BY DEF Blank
<1>2. z \in Block /\ z.tail = OpenTail /\ Len(z.stack) = 0
  BY <1>1, ReturnBlock
<1>3. /\ z.code = <<>> /\ z.syms = <<>> /\ z.stack = <<>> /\ z.hasRet = FALSE
      /\ z.par.ret = FALSE /\ z.par.live = {} /\ z.par.stk = 0 /\ z.par.extra = m
  BY <1>1 DEF EmptyBlock, NoParams
<1>4. ParamCount(z) = m
  <2>1. Cardinality({}) = 0
    BY FS_EmptySet
  <2>2. One(z.par.ret) = 0
    BY <1>3 DEF One
  <2> QED
    BY <1>3, <2>1, <2>2 DEF ParamCount
<1>5. NextInstruction(z) = m
  BY <1>3, <1>4 DEF NextInstruction
<1>6. Used(z) = 0
  <2>1. One(z.hasRet) = 0
    BY <1>3 DEF One
  <2> QED
    BY <1>3, <2>1 DEF Used
<1>7. Room(z, 1)
  BY <1>5, <1>6 DEF Room
<1>8. Backward(z)
  BY <1>3 DEF Backward
<1>9. Located(z)
  BY <1>3 DEF Located
<1> QED
  BY <1>2, <1>3, <1>4, <1>7, <1>8, <1>9 DEF Fine

\* What is saved is in the block, one thing for each thing in use.
LEMMA SavedFine ==
  ASSUME NEW q \in Block, Fine(q, 0)
  PROVE  /\ Saved(q) \in Seq(Int) /\ Len(Saved(q)) = Used(q)
         /\ \A i \in DOMAIN Saved(q) : Saved(q)[i] \in Numbers(q)
<1> DEFINE a == IF q.hasRet THEN <<q.retIns>> ELSE <<>>
           s == q.stack
           d == [i \in DOMAIN q.syms |-> q.syms[i].ins]
           N == Numbers(q)
<1>1. /\ Len(q.syms) \in Nat /\ DOMAIN q.syms = 1 .. Len(q.syms) /\ q.hasRet \in BOOLEAN
      /\ s \in Seq(Int) /\ DOMAIN s = 1 .. Len(s) /\ N \subseteq Int
  BY BlockParts
<1>2. a \in Seq(N) /\ Len(a) = One(q.hasRet)
  <2>1. CASE q.hasRet
    <3>1. a = <<q.retIns>> /\ q.retIns \in N
      BY <2>1 DEF Fine, Located
    <3> QED
      BY <2>1, <3>1 DEF One
  <2>2. CASE ~q.hasRet
    BY <2>2 DEF One
  <2> QED
    BY <2>1, <2>2
<1>3. s \in Seq(N)
  <2>1. \A i \in 1 .. Len(s) : s[i] \in N
    BY <1>1 DEF Fine, Located
  <2> HIDE DEF s, N
  <2> QED
    BY <1>1, <2>1
<1>4. d \in Seq(N) /\ Len(d) = Len(q.syms)
  <2>1. d \in [1 .. Len(q.syms) -> N]
    BY <1>1 DEF Fine, Located
  <2> HIDE DEF d, N
  <2> QED
    BY <1>1, <2>1, FunSeq, Zenon
<1>5. Saved(q) = (a \o s) \o d
  BY DEF Saved
<1>6. Used(q) = Len(a) + Len(s) + Len(d)
  <2> DEFINE la == Len(a)
             ls == Len(s)
             ld == Len(d)
  <2>1. la \in Nat /\ ls \in Nat /\ ld \in Nat
    BY <1>2, <1>3, <1>4
  <2>2. Used(q) = la + ld + ls
    BY <1>2, <1>4, Zenon DEF Used
  <2> HIDE DEF la, ls, ld
  <2>3. Used(q) = la + ls + ld
    BY <2>1, <2>2
  <2> QED
    BY <2>3 DEF la, ls, ld
<1> HIDE DEF a, s, d, N
<1>7. Saved(q) \in Seq(N) /\ Len(Saved(q)) = Used(q)
  <2>1. a \in Seq(N) /\ s \in Seq(N) /\ d \in Seq(N)
    BY <1>2, <1>3, <1>4
  <2>2. a \o s \in Seq(N) /\ Len(a \o s) = Len(a) + Len(s)
    BY <2>1
  <2> DEFINE e == a \o s
  <2> HIDE DEF e
  <2>3. e \o d \in Seq(N) /\ Len(e \o d) = Len(e) + Len(d)
    BY <2>1, <2>2 DEF e
  <2>4. Saved(q) = e \o d /\ Len(e) = Len(a) + Len(s)
    BY <1>5, <2>2 DEF e
  <2>5. Len(Saved(q)) = Len(a) + Len(s) + Len(d)
    BY ONLY <2>3, <2>4
  <2> QED
    BY ONLY <1>6, <2>3, <2>4, <2>5
<1>8. Saved(q) \in Seq(Int)
  <2> DEFINE t == Saved(q)
  <2>1. t \in Seq(N)
    BY <1>7
  <2> HIDE DEF t
  <2>2. Len(t) \in Nat /\ t = [i \in 1 .. Len(t) |-> t[i]] /\ \A i \in 1 .. Len(t) : t[i] \in N
    BY <2>1
  <2>3. \A i \in 1 .. Len(t) : t[i] \in Int
    BY <1>1, <2>2
  <2>4. t \in [1 .. Len(t) -> Int]
    BY <2>2, <2>3
  <2>5. t \in Seq(Int)
    BY <2>2, <2>4, FunSeq
  <2> QED
    BY <2>5 DEF t
<1> QED
  BY <1>7, <1>8 DEF N

\* An instruction names nothing, or only numbers up to m.
Small(e, m) == \A k \in DOMAIN e.args : e.args[k] \in 0 .. m

\* The instructions that build the context struct.
LEMMA KeepingSmall ==
  ASSUME NEW q \in Block, Fine(q, 0), NEW r \in Nat
  PROVE  LET o == NextInstruction(q)
             a == Header(o, r)
             c == Keeping(q, o)
         IN /\ a \in Seq(Instruction) /\ Len(a) = 3 /\ c \in Seq(Instruction)
            /\ a[1].args = <<>> /\ a[2].args = <<>> /\ Small(a[3], o + 1)
            /\ \A i \in DOMAIN c : Small(c[i], o + 1)
<1> DEFINE o == NextInstruction(q)
           a == Header(o, r)
           t == Saved(q)
           p == Puts(q, o)
           e == Instr("cast", <<o>>, 0)
           c == Keeping(q, o)
<1>1. o \in Nat /\ Numbers(q) = 0 .. o - 1
  BY BlockParts
<1>2. t \in Seq(Int) /\ \A i \in DOMAIN t : t[i] \in Numbers(q)
  BY SavedFine
<1>3. "new" \in Ops /\ "ref" \in Ops /\ "put" \in Ops /\ "cast" \in Ops
  BY DEF Ops
<1> HIDE DEF o, t
<1>4. /\ a \in Seq(Instruction) /\ Len(a) = 3
      /\ a[1].args = <<>> /\ a[2].args = <<>> /\ a[3].args = <<o, o + 1>>
  <2>1. <<>> \in Seq(Int) /\ <<o, o + 1>> \in Seq(Int)
    BY <1>1
  <2>2. /\ Instr("new", <<>>, 0) \in Instruction /\ Instr("ref", <<>>, r) \in Instruction
        /\ Instr("put", <<o, o + 1>>, 0) \in Instruction
    BY <1>3, <2>1 DEF Instr, Instruction
  <2>3. a \in Seq(Instruction) /\ Len(a) = 3
    BY <2>2 DEF Header
  <2>4. /\ a[1] = Instr("new", <<>>, 0) /\ a[2] = Instr("ref", <<>>, r)
        /\ a[3] = Instr("put", <<o, o + 1>>, 0)
    BY DEF Header
  <2> QED
    BY <2>3, <2>4 DEF Instr
<1>5. Small(a[3], o + 1)
  <2> HIDE DEF a
  <2>1. DOMAIN <<o, o + 1>> = {1, 2} /\ <<o, o + 1>>[1] = o /\ <<o, o + 1>>[2] = o + 1
    OBVIOUS
  <2> QED
    BY <1>1, <1>4, <2>1 DEF Small
<1>6. e \in Instruction /\ e.args = <<o>> /\ Small(e, o + 1)
  <2>1. <<o>> \in Seq(Int)
    BY <1>1
  <2>2. e \in Instruction
    BY <1>3, <2>1 DEF Instr, Instruction
  <2>3. e.args = <<o>>
    BY DEF Instr
  <2> HIDE DEF e
  <2>4. DOMAIN <<o>> = {1} /\ <<o>>[1] = o
    OBVIOUS
  <2> QED
    BY <1>1, <2>2, <2>3, <2>4 DEF Small
<1>7. /\ p \in Seq(Instruction) /\ DOMAIN p = DOMAIN t
      /\ \A i \in DOMAIN t : p[i].args = <<o, t[i]>>
  <2>1. p = [i \in DOMAIN t |-> Instr("put", <<o, t[i]>>, 0)]
    BY DEF Puts, t
  <2>2. \A i \in DOMAIN t : t[i] \in Int
    BY <1>2
  <2>3. \A i \in DOMAIN t : <<o, t[i]>> \in Seq(Int)
    BY <1>1, <2>2
  <2>4. \A i \in DOMAIN t : Instr("put", <<o, t[i]>>, 0) \in Instruction
    BY <1>3, <2>3 DEF Instr, Instruction
  <2>5. p \in [DOMAIN t -> Instruction]
    BY <2>1, <2>4
  <2>6. \A i \in DOMAIN t : p[i].args = <<o, t[i]>>
    BY <2>1 DEF Instr
  <2> HIDE DEF p
  <2>7. p \in Seq(Instruction) /\ DOMAIN p = DOMAIN t
    BY <1>2, <2>5, AsLong
  <2> QED
    BY <2>6, <2>7
<1> HIDE DEF e, p
<1>8. \A i \in DOMAIN p : Small(p[i], o + 1)
  <2> SUFFICES ASSUME NEW i \in DOMAIN p PROVE Small(p[i], o + 1)
    OBVIOUS
  <2>1. p[i].args = <<o, t[i]>> /\ t[i] \in 0 .. o - 1
    BY <1>1, <1>2, <1>7
  <2>2. DOMAIN <<o, t[i]>> = {1, 2} /\ <<o, t[i]>>[1] = o /\ <<o, t[i]>>[2] = t[i]
    OBVIOUS
  <2> QED
    BY <1>1, <2>1, <2>2 DEF Small
<1>9. c \in Seq(Instruction) /\ \A i \in DOMAIN c : Small(c[i], o + 1)
  <2>1. CASE t = <<>>
    <3>1. c = <<>>
      BY <2>1 DEF Keeping, t
    <3> QED
      BY <3>1
  <2>2. CASE t # <<>>
    <3>1. c = Append(p, e)
      BY <2>2 DEF Keeping, t, p, e
    <3> HIDE DEF c
    <3>2. /\ c \in Seq(Instruction) /\ DOMAIN c = 1 .. Len(p) + 1 /\ Len(p) \in Nat
          /\ DOMAIN p = 1 .. Len(p) /\ c[Len(p) + 1] = e /\ \A i \in 1 .. Len(p) : c[i] = p[i]
      BY <1>6, <1>7, <3>1
    <3>3. ASSUME NEW i \in DOMAIN c
          PROVE  Small(c[i], o + 1)
      <4>1. CASE i = Len(p) + 1
        BY <1>6, <3>2, <4>1
      <4>2. CASE i # Len(p) + 1
        <5>1. i \in DOMAIN p /\ c[i] = p[i]
          BY <3>2, <4>2
        <5> QED
          BY <1>8, <5>1
      <4> QED
        BY <4>1, <4>2
    <3> QED
      BY <3>2, <3>3
  <2> QED
    BY <2>1, <2>2
<1> HIDE DEF a, c
<1> QED
  BY <1>4, <1>5, <1>9 DEF a, c, o

LEMMA Concatenated ==
  ASSUME NEW S, NEW u \in Seq(S), NEW a \in Seq(S), NEW c \in Seq(S)
  PROVE  LET w == u \o a \o c
             l == Len(u)
             m == Len(a)
         IN /\ Len(w) = l + m + Len(c) /\ \A i \in DOMAIN u : w[i] = u[i]
            /\ \A i \in DOMAIN a : w[l + i] = a[i]
            /\ \A i \in DOMAIN c : w[l + m + i] = c[i]
<1> DEFINE d == u \o a
<1>1. /\ d \in Seq(S) /\ Len(d) = Len(u) + Len(a) /\ DOMAIN u = 1 .. Len(u)
      /\ DOMAIN a = 1 .. Len(a) /\ DOMAIN c = 1 .. Len(c)
      /\ Len(u) \in Nat /\ Len(a) \in Nat /\ Len(c) \in Nat
      /\ \A i \in 1 .. Len(u) : d[i] = u[i]
      /\ \A i \in 1 .. Len(a) : d[Len(u) + i] = a[i]
  OBVIOUS
<1> HIDE DEF d
<1> DEFINE w == d \o c
<1>2. /\ Len(w) = Len(d) + Len(c)
      /\ \A i \in 1 .. Len(d) : w[i] = d[i]
      /\ \A i \in 1 .. Len(c) : w[Len(d) + i] = c[i]
  <2>1. d \in Seq(S) /\ c \in Seq(S)
    BY <1>1
  <2> QED
    BY ONLY <2>1
<1>3. w = u \o a \o c
  BY DEF d
<1> HIDE DEF w
<1>4. \A i \in 1 .. Len(u) : w[i] = u[i]
  BY <1>1, <1>2
<1>5. \A i \in 1 .. Len(a) : w[Len(u) + i] = a[i]
  BY <1>1, <1>2
<1> QED
  BY <1>1, <1>2, <1>3, <1>4, <1>5, Zenon

LEMMA CallerFine ==
  ASSUME NEW b \in Block, Fine(b, 0), NEW n \in Nat, n + 1 <= Len(b.stack), NEW r \in Nat,
         Caller(b, r, n) \in Block
  PROVE  Fine(Caller(b, r, n), 0) /\ Terminated(Caller(b, r, n))
<1> DEFINE x == Caller(b, r, n)
           q == PopStack(b, n + 1)
           o == NextInstruction(q)
           a == Header(o, r)
           c == Keeping(q, o)
           w == q.code \o a \o c
           z == [q EXCEPT !.code = w]
           obj == IF Saved(q) = <<>> THEN o ELSE LastInstruction(z)
           args == [i \in 1 .. n |-> b.stack[n + 1 - i]]
           all == <<obj>> \o args
           t == [OpenTail EXCEPT !.type = "call", !.first = b.stack[n + 1], !.args = all]
           zero == 0
           k == n + 1
           L == Len(q.code)
           m == 3 + Len(c)
<1>0. zero \in Nat /\ k \in Nat /\ zero + k \in Nat /\ zero <= zero + k
  OBVIOUS
<1>1. q \in Block /\ Fine(q, zero) /\ Numbers(q) = Numbers(b)
  <2>1. Fine(b, zero)
    OBVIOUS
  <2>2. Fine(q, zero + k) /\ Equal(q, b)
    <3> HIDE DEF zero
    <3> QED
      BY <1>0, <2>1, PopFine
  <2> HIDE DEF q, zero, k
  <2>3. q \in Block /\ Numbers(q) = Numbers(b)
    BY <2>2 DEF Equal
  <2> QED
    BY <1>0, <2>2, <2>3, FineLess
<1>2. x = [z EXCEPT !.tail = t]
  BY DEF Caller
<1>3. /\ o \in Nat /\ Numbers(q) = 0 .. o - 1 /\ o = ParamCount(q) + L /\ L \in Nat
      /\ ParamCount(q) \in Nat /\ q.code \in Seq(Instruction) /\ DOMAIN q.code = 1 .. L
  <2> HIDE DEF q
  <2> QED
    BY <1>1, BlockParts, Zenon
<1>4. /\ \A i \in DOMAIN b.stack : b.stack[i] \in Numbers(b)
      /\ DOMAIN b.stack = 1 .. Len(b.stack) /\ Len(b.stack) \in Nat
  BY BlockParts DEF Fine, Located
<1>5. b.stack[n + 1] \in Numbers(b) /\ \A i \in 1 .. n : args[i] \in Numbers(b)
  <2>1. n + 1 \in DOMAIN b.stack /\ \A i \in 1 .. n : n + 1 - i \in DOMAIN b.stack
    BY <1>4
  <2> QED
    BY <1>4, <2>1
<1>6. DOMAIN args = 1 .. n
  OBVIOUS
<1> HIDE DEF q, args
<1>7. /\ x.par = q.par /\ x.syms = q.syms /\ x.stack = q.stack /\ x.hasRet = q.hasRet
      /\ x.retIns = q.retIns /\ x.code = w /\ x.tail = t /\ z.code = w /\ z.par = q.par
  BY <1>1, <1>2, Zenon DEF Block
<1>8. /\ a \in Seq(Instruction) /\ Len(a) = 3 /\ c \in Seq(Instruction)
      /\ a[1].args = <<>> /\ a[2].args = <<>> /\ Small(a[3], o + 1)
      /\ \A i \in DOMAIN c : Small(c[i], o + 1)
  <2>1. Fine(q, 0)
    BY <1>1
  <2> QED
    BY <1>1, <2>1, KeepingSmall
<1> HIDE DEF a, c
<1>9. /\ Len(w) = L + m /\ m \in Nat /\ Len(c) \in Nat /\ DOMAIN c = 1 .. Len(c)
      /\ \A i \in DOMAIN q.code : w[i] = q.code[i]
      /\ w[L + 1] = a[1] /\ w[L + 2] = a[2] /\ w[L + 3] = a[3]
      /\ \A i \in DOMAIN c : w[L + 3 + i] = c[i]
  <2>1. /\ Len(w) = L + Len(a) + Len(c) /\ \A i \in DOMAIN q.code : w[i] = q.code[i]
        /\ \A i \in DOMAIN a : w[L + i] = a[i]
        /\ \A i \in DOMAIN c : w[L + Len(a) + i] = c[i]
    <3> DEFINE u == q.code
    <3>1. u \in Seq(Instruction) /\ a \in Seq(Instruction) /\ c \in Seq(Instruction)
      BY <1>3, <1>8
    <3> HIDE DEF u
    <3>2. LET v == u \o a \o c
          IN /\ Len(v) = Len(u) + Len(a) + Len(c) /\ \A i \in DOMAIN u : v[i] = u[i]
             /\ \A i \in DOMAIN a : v[Len(u) + i] = a[i]
             /\ \A i \in DOMAIN c : v[Len(u) + Len(a) + i] = c[i]
      BY ONLY <3>1, Concatenated
    <3> QED
      BY <3>2, Zenon DEF u
  <2>2. Len(c) \in Nat /\ DOMAIN c = 1 .. Len(c) /\ DOMAIN a = 1 .. 3
    BY <1>8
  <2> HIDE DEF w, L
  <2>3. /\ 1 \in DOMAIN a /\ 2 \in DOMAIN a /\ 3 \in DOMAIN a
    BY <2>2
  <2>4. Len(w) = L + m /\ m \in Nat
    BY <1>3, <1>8, <2>1, <2>2
  <2> QED
    BY <1>8, <2>1, <2>2, <2>3, <2>4
<1> HIDE DEF w, z, x, t, L, o
<1>10. Extending(x, q)
  <2>1. ASSUME NEW i \in L + 1 .. L + m, NEW j \in DOMAIN w[i].args
        PROVE  w[i].args[j] \in 0 .. ParamCount(q) + i - 2
    <3>1. CASE i = L + 1 \/ i = L + 2
      <4>1. w[i].args = <<>>
        BY <1>8, <1>9, <3>1, Zenon
      <4> QED
        BY <2>1, <4>1
    <3>2. CASE i \notin {L + 1, L + 2}
      <4>1. Small(w[i], o + 1)
        <5>1. CASE i = L + 3
          BY <1>8, <1>9, <5>1
        <5>2. CASE i # L + 3
          <6>1. i - L - 3 \in DOMAIN c /\ L + 3 + (i - L - 3) = i
            BY <1>3, <1>9, <2>1, <3>2, <5>2
          <6>2. w[i] = c[i - L - 3]
            BY <1>9, <6>1, Zenon
          <6> QED
            BY <1>8, <6>1, <6>2
        <5> QED
          BY <5>1, <5>2
      <4>2. w[i].args[j] \in 0 .. o + 1
        BY <4>1 DEF Small
      <4>3. o + 1 <= ParamCount(q) + i - 2 /\ i \in Nat /\ o + 1 \in Nat
            /\ ParamCount(q) + i - 2 \in Nat
        <5> DEFINE P == ParamCount(q)
        <5>1. P \in Nat /\ o = P + L /\ L \in Nat /\ m \in Nat /\ i \in L + 1 .. L + m
              /\ i \notin {L + 1, L + 2}
          BY <1>3, <1>9, <2>1, <3>2
        <5> HIDE DEF P, m
        <5>2. i \in Nat /\ i >= L + 3
          BY ONLY <5>1
        <5> QED
          BY ONLY <5>1, <5>2 DEF P
      <4> DEFINE v == w[i].args[j]
                 e == ParamCount(q) + i - 2
                 l == o + 1
      <4>4. v \in 0 .. l /\ l <= e /\ l \in Nat /\ e \in Nat
        BY <4>2, <4>3
      <4> HIDE DEF v, e, l
      <4>5. v \in 0 .. e
        BY ONLY <4>4
      <4> QED
        BY <4>5 DEF v, e
    <3> QED
      BY <3>1, <3>2
  <2> QED
    BY <1>7, <1>9, <2>1, Zenon DEF Extending, L
<1>11. /\ Fine(x, zero + m) /\ NextInstruction(x) = o + m /\ Numbers(q) \subseteq Numbers(x)
       /\ x \in Block
  <2> HIDE DEF zero, m
  <2>1. x \in Block
    BY DEF x
  <2>2. Len(x.code) = Len(q.code) + m
    BY <1>7, <1>9 DEF L
  <2> QED
    BY <1>0, <1>1, <1>9, <1>10, <2>1, <2>2, FineCode DEF o
<1>12. Fine(x, zero)
  <2>1. zero + m \in Nat /\ zero <= zero + m
    BY <1>9
  <2> HIDE DEF zero, m
  <2> QED
    BY <1>0, <1>11, <2>1, FineLess
<1>13. Numbers(x) = 0 .. (o + m) - 1 /\ LastInstruction(z) = (o + m) - 1
  <2>1. Numbers(x) = 0 .. NextInstruction(x) - 1 /\ LastInstruction(x) = NextInstruction(x) - 1
    BY <1>11, BlockParts
  <2>2. LastInstruction(z) = LastInstruction(x)
    BY <1>7 DEF LastInstruction, NextInstruction, ParamCount
  <2> DEFINE e == o + m
  <2>3. NextInstruction(x) = e
    BY <1>11
  <2> HIDE DEF e
  <2>4. Numbers(x) = 0 .. e - 1 /\ LastInstruction(z) = e - 1
    BY <2>1, <2>2, <2>3
  <2> QED
    BY <2>4 DEF e
<1>14. obj \in Numbers(x) /\ 0 \in Numbers(x)
  <2>1. o \in Nat /\ m \in Nat /\ m >= 3
    BY <1>3, <1>9
  <2>2. obj = o \/ obj = LastInstruction(z)
    OBVIOUS
  <2> HIDE DEF m, obj
  <2> QED
    BY ONLY <1>13, <2>1, <2>2
<1> HIDE DEF obj, m
<1>15. \A j \in DOMAIN all : all[j] \in Numbers(x)
  <2>1. args \in Seq(Numbers(x))
    <3>1. \A i \in 1 .. n : args[i] \in Numbers(x)
      BY <1>1, <1>5, <1>11
    <3>2. args \in [1 .. n -> Numbers(x)]
      BY <3>1 DEF args
    <3> QED
      BY <3>2, FunSeq
  <2>2. all \in Seq(Numbers(x))
    BY <1>14, <2>1
  <2> HIDE DEF all
  <2> QED
    BY <2>2
<1> HIDE DEF all
<1>16. /\ t.first = b.stack[n + 1] /\ t.second = 0 /\ t.cond = 0 /\ t.args = all
       /\ t.live = {}
  BY DEF t, OpenTail
<1>17. Terminated(x)
  BY <1>1, <1>5, <1>7, <1>11, <1>14, <1>15, <1>16 DEF Terminated
<1> QED
  BY <1>12, <1>17 DEF x, zero

LEMMA TakingIs ==
  ASSUME NEW q \in Block, Fine(q, 0), NEW base \in Nat, NEW nonvoid
  PROVE  LET w == Taking(q, base, nonvoid)
             k == Used(q)
         IN /\ Len(w) = 1 + k + One(nonvoid) /\ DOMAIN w = 1 .. Len(w) /\ k \in Nat
            /\ w[1].args = <<0>>
            /\ \A i \in 1 .. k : w[1 + i].args = <<base>>
            /\ nonvoid => w[1 + k + 1].args = <<1>>
<1> DEFINE w == Taking(q, base, nonvoid)
           k == Used(q)
           a == <<Instr("cast", <<0>>, 0)>>
           g == Fetches(q, base)
           c == IF nonvoid THEN <<Instr("get", <<1>>, 0)>> ELSE <<>>
<1>1. k \in Nat /\ Len(Saved(q)) = k /\ DOMAIN Saved(q) = 1 .. k
  <2>1. Saved(q) \in Seq(Int) /\ Len(Saved(q)) = Used(q)
    BY SavedFine
  <2> QED
    BY <2>1
<1>2. "cast" \in Ops /\ "field" \in Ops /\ "get" \in Ops
  BY DEF Ops
<1>3. /\ Instr("cast", <<0>>, 0) \in Instruction /\ Instr("get", <<1>>, 0) \in Instruction
      /\ Instr("field", <<base>>, 0) \in Instruction
  <2>1. <<0>> \in Seq(Int) /\ <<1>> \in Seq(Int) /\ <<base>> \in Seq(Int)
    OBVIOUS
  <2> QED
    BY <1>2, <2>1 DEF Instr, Instruction
<1>4. a \in Seq(Instruction) /\ Len(a) = 1 /\ a[1] = Instr("cast", <<0>>, 0)
  BY <1>3
<1>5. /\ g \in Seq(Instruction) /\ Len(g) = k /\ DOMAIN g = 1 .. k
      /\ \A i \in 1 .. k : g[i] = Instr("field", <<base>>, 0)
  <2>1. g = [i \in 1 .. k |-> Instr("field", <<base>>, 0)]
    BY <1>1 DEF Fetches
  <2>2. g \in [1 .. k -> Instruction]
    BY <1>3, <2>1
  <2>3. g \in Seq(Instruction) /\ Len(g) = k
    <3> HIDE DEF g, k
    <3> QED
      BY <1>1, <2>2, FunSeq
  <2> QED
    BY <2>1, <2>3, Zenon
<1>6. /\ c \in Seq(Instruction) /\ Len(c) = One(nonvoid)
      /\ nonvoid => 1 \in DOMAIN c /\ c[1] = Instr("get", <<1>>, 0)
  <2>1. CASE nonvoid
    <3>1. c = <<Instr("get", <<1>>, 0)>>
      BY <2>1
    <3>2. One(nonvoid) = 1
      BY <2>1 DEF One
    <3> QED
      BY <1>3, <3>1, <3>2
  <2>2. CASE ~nonvoid
    <3>1. c = <<>> /\ One(nonvoid) = 0
      BY <2>2 DEF One
    <3> QED
      BY <2>2, <3>1
  <2> QED
    BY <2>1, <2>2
<1>7. w = a \o g \o c
  BY DEF Taking
<1>8. Instr("cast", <<0>>, 0).args = <<0>> /\ Instr("field", <<base>>, 0).args = <<base>>
      /\ Instr("get", <<1>>, 0).args = <<1>>
  BY DEF Instr
<1> HIDE DEF w, a, g, c, k
<1>9. /\ Len(w) = Len(a) + Len(g) + Len(c) /\ \A i \in DOMAIN a : w[i] = a[i]
      /\ \A i \in DOMAIN g : w[Len(a) + i] = g[i]
      /\ \A i \in DOMAIN c : w[Len(a) + Len(g) + i] = c[i]
  <2>1. a \in Seq(Instruction) /\ g \in Seq(Instruction) /\ c \in Seq(Instruction)
    BY <1>4, <1>5, <1>6
  <2>2. LET e == a \o g \o c
        IN /\ Len(e) = Len(a) + Len(g) + Len(c) /\ \A i \in DOMAIN a : e[i] = a[i]
           /\ \A i \in DOMAIN g : e[Len(a) + i] = g[i]
           /\ \A i \in DOMAIN c : e[Len(a) + Len(g) + i] = c[i]
    BY ONLY <2>1, Concatenated
  <2> QED
    BY ONLY <1>7, <2>2
<1>10. w \in Seq(Instruction)
  BY <1>4, <1>5, <1>6, <1>7
<1>11. 1 \in DOMAIN a
  BY <1>4
<1>12. Len(w) = 1 + k + One(nonvoid)
  BY <1>4, <1>5, <1>6, <1>9
<1>13. w[1].args = <<0>>
  BY <1>4, <1>8, <1>9, <1>11
<1>14. \A i \in 1 .. k : w[1 + i].args = <<base>>
  BY <1>4, <1>5, <1>8, <1>9, Zenon
<1>15. nonvoid => w[1 + k + 1].args = <<1>>
  BY <1>4, <1>5, <1>6, <1>8, <1>9, Zenon
<1> QED
  BY <1>1, <1>10, <1>12, <1>13, <1>14, <1>15 DEF w, k

LEMMA BackFine ==
  ASSUME NEW q \in Block, Fine(q, 0), NEW z, Blank(z), NEW nonvoid,
         Back(q, z, nonvoid) \in Block
  PROVE  Fine(Back(q, z, nonvoid), 1) /\ Back(q, z, nonvoid).tail.type = "open"
<1> DEFINE y == Back(q, z, nonvoid)
           base == ParamCount(z)
           one == One(q.hasRet)
           height == one + Len(q.stack)
           w == Taking(q, base, nonvoid)
           k == Used(q)
           s == Len(q.stack)
           m == Len(q.syms)
           v == One(nonvoid)
<1>1. z \in Block /\ z.tail = OpenTail /\ Fine(z, 1) /\ base \in {1, 2}
  BY BlankFine
<1>2. /\ Saved(q) \in Seq(Int) /\ Len(Saved(q)) = k
  BY SavedFine
<1>3. CASE Saved(q) = <<>>
  <2>1. y = z
    BY <1>3 DEF Back
  <2> QED
    BY <1>1, <2>1 DEF OpenTail
<1>4. CASE Saved(q) # <<>>
  <2>1. /\ y.par = z.par /\ y.tail = OpenTail /\ y.code = w /\ y.hasRet = q.hasRet
        /\ y.retIns = (IF q.hasRet THEN base + 1 ELSE 0)
        /\ y.stack = [i \in DOMAIN q.stack |-> base + One(q.hasRet) + i]
        /\ y.syms = [i \in DOMAIN q.syms |->
                       [s |-> q.syms[i].s, ex |-> TRUE, ins |-> base + height + i]]
    BY <1>1, <1>4 DEF Back, Block
  <2>2. /\ k \in Nat /\ s \in Nat /\ m \in Nat /\ one \in {0, 1} /\ one + s + m = k
        /\ DOMAIN q.stack = 1 .. s /\ DOMAIN q.syms = 1 .. m /\ q.hasRet \in BOOLEAN
        /\ q.stack \in Seq(Int) /\ q.syms \in Seq(Entry)
    BY BlockParts
  <2>3. k >= 1
    <3> DEFINE t == Saved(q)
    <3>1. t \in Seq(Int) /\ t # <<>> /\ Len(t) = k
      BY <1>2, <1>4
    <3> HIDE DEF t, k
    <3> QED
      BY <3>1
  <2>4. v \in {0, 1} /\ (q.hasRet => one = 1) /\ (v = 1 => nonvoid)
    BY DEF One
  <2>5. ParamCount(y) = base
    BY <2>1 DEF ParamCount
  <2>6. /\ Len(w) = 1 + k + v /\ DOMAIN w = 1 .. Len(w)
        /\ w[1].args = <<0>>
        /\ \A i \in 1 .. k : w[1 + i].args = <<base>>
        /\ nonvoid => w[1 + k + 1].args = <<1>>
    <3>1. base \in Nat
      BY <1>1
    <3> HIDE DEF base
    <3>2. LET t == Taking(q, base, nonvoid)
              n == Used(q)
          IN /\ Len(t) = 1 + n + One(nonvoid) /\ DOMAIN t = 1 .. Len(t) /\ n \in Nat
             /\ t[1].args = <<0>>
             /\ \A i \in 1 .. n : t[1 + i].args = <<base>>
             /\ nonvoid => t[1 + n + 1].args = <<1>>
      BY ONLY q \in Block, Fine(q, 0), <3>1, TakingIs
    <3> QED
      BY ONLY <3>2
  <2> HIDE DEF y
  <2>7. /\ NextInstruction(y) = base + Len(w)
        /\ Numbers(y) = 0 .. NextInstruction(y) - 1
    <3>1. y \in Block
      BY DEF y
    <3> HIDE DEF base, w
    <3> QED
      BY <2>1, <2>5, <3>1, BlockParts, Zenon
  <2> HIDE DEF base, one, w, k, s, m, v
  <2>8. NextInstruction(y) \in Nat /\ NextInstruction(y) >= base + k + 1
        /\ \A i \in 0 .. base + k : i \in Numbers(y)
    BY <1>1, <2>2, <2>4, <2>6, <2>7
  <2>9. Backward(y)
    <3> SUFFICES ASSUME NEW i \in DOMAIN w, NEW j \in DOMAIN w[i].args
                 PROVE  w[i].args[j] \in 0 .. base + i - 2
      BY <2>1, <2>5 DEF Backward
    <3>1. i = 1 \/ i - 1 \in 1 .. k \/ (nonvoid /\ i = 1 + k + 1)
      BY <2>2, <2>4, <2>6
    <3>2. DOMAIN <<0>> = {1} /\ <<0>>[1] = 0 /\ DOMAIN <<base>> = {1} /\ <<base>>[1] = base
          /\ DOMAIN <<1>> = {1} /\ <<1>>[1] = 1
      OBVIOUS
    <3>3. i \in Nat /\ base \in {1, 2} /\ k \in Nat
      BY <1>1, <2>2, <2>6
    <3>4. CASE i = 1
      <4>1. w[i].args[j] = 0
        BY <2>6, <3>2, <3>4
      <4>2. 0 \in 0 .. base + i - 2
        BY <3>3, <3>4
      <4> QED
        BY <4>1, <4>2
    <3>5. CASE i - 1 \in 1 .. k
      <4>1. 1 + (i - 1) = i
        BY <3>3
      <4>2. w[i].args[j] = base
        BY <2>6, <3>2, <3>5, <4>1
      <4>3. base \in 0 .. base + i - 2
        BY <3>3, <3>5
      <4> QED
        BY <4>2, <4>3
    <3>6. CASE nonvoid /\ i = 1 + k + 1
      <4>1. w[i].args[j] = 1
        BY <2>6, <3>2, <3>6
      <4>2. 1 \in 0 .. base + i - 2
        BY <2>3, <3>3, <3>6
      <4> QED
        BY <4>1, <4>2
    <3> QED
      BY <3>1, <3>4, <3>5, <3>6
  <2>10. Located(y)
    <3>1. ASSUME NEW i \in DOMAIN y.stack PROVE y.stack[i] \in Numbers(y)
      <4>1. i \in 1 .. s /\ y.stack[i] = base + one + i
        BY <2>1, <2>2 DEF one
      <4>2. base + one + i \in 0 .. base + k
        BY <1>1, <2>2, <4>1
      <4> QED
        BY <2>8, <4>1, <4>2
    <3>2. ASSUME NEW i \in DOMAIN y.syms PROVE y.syms[i].ex /\ y.syms[i].ins \in Numbers(y)
      <4>1. i \in 1 .. m /\ y.syms[i] = [s |-> q.syms[i].s, ex |-> TRUE, ins |-> base + height + i]
        BY <2>1, <2>2
      <4>2. height = one + s
        BY DEF s
      <4>3. base + height + i \in 0 .. base + k
        BY <1>1, <2>2, <4>1, <4>2
      <4> HIDE DEF height
      <4>4. y.syms[i].ex /\ y.syms[i].ins = base + height + i
        BY <4>1
      <4> QED
        BY <2>8, <4>3, <4>4
    <3>3. y.hasRet => y.retIns \in Numbers(y)
      <4> SUFFICES ASSUME y.hasRet PROVE y.retIns \in Numbers(y)
        OBVIOUS
      <4>1. y.retIns = base + 1
        BY <2>1
      <4>2. base + 1 \in 0 .. base + k
        BY <1>1, <2>2, <2>3
      <4> QED
        BY <2>8, <4>1, <4>2
    <3> QED
      BY <3>1, <3>2, <3>3 DEF Located
  <2>11. Room(y, 1)
    <3>1. Len(y.stack) = s
      <4>1. y.stack \in [1 .. s -> Int]
        <5>1. \A i \in 1 .. s : base + One(q.hasRet) + i \in Int
          BY <1>1, <2>2 DEF one
        <5> QED
          BY <2>1, <2>2, <5>1
      <4> QED
        BY <2>2, <4>1, FunSeq
    <3>2. Len(y.syms) = m
      <4> DEFINE T == {y.syms[i] : i \in 1 .. m}
      <4>1. y.syms \in [1 .. m -> T]
        BY <2>1, <2>2, Zenon
      <4> HIDE DEF T
      <4> QED
        BY <2>2, <4>1, FunSeq
    <3>3. Used(y) = one + m + s
      BY <2>1, <3>1, <3>2 DEF Used, one
    <3> QED
      BY <1>1, <2>2, <2>8, <3>3 DEF Room
  <2> QED
    BY <2>1, <2>9, <2>10, <2>11 DEF Fine, OpenTail, y
<1> QED
  BY <1>3, <1>4

\* A value that waits on the stack.
LEMMA WaitingFine ==
  ASSUME NEW b \in Block, Fine(b, 1)
  PROVE  LET x == PushStack(b)
         IN /\ x \in Block /\ x.tail = b.tail /\ Fine(x, 0) /\ Len(x.stack) = Len(b.stack) + 1
<1> DEFINE zero == 0
           x == PushStack(b)
<1>1. zero \in Nat /\ Fine(b, zero + 1)
  OBVIOUS
<1> HIDE DEF zero
<1>2. Fine(x, zero) /\ Equal(x, b) /\ Len(x.stack) = Len(b.stack) + 1
  BY <1>1, PushFine, Zenon
<1> QED
  BY <1>2 DEF Equal, zero

\* The caller and the block it goes on in.
LEMMA InvokeSorted ==
  ASSUME NEW bs \in Seq(Block), NEW p \in DOMAIN bs, NEW r \in DOMAIN bs, p # r,
         NEW n \in Nat, n + 1 <= Len(bs[p].stack), NEW nonvoid,
         NEW bs2 \in Seq(Block), bs2 = Invoke(bs, p, r, n, nonvoid),
         Fine(bs[p], 0), Blank(bs[r])
  PROVE  Sorted(bs, bs2, {p, r}) /\ Fine(bs2[r], 1)
<1> DEFINE b == bs[p]
           z == bs[r]
           q == PopStack(b, n + 1)
           x == Caller(b, r, n)
           y == Back(q, z, nonvoid)
           zero == 0
           one == 1
<1>0. zero \in Nat /\ one \in Nat /\ zero <= one /\ n + 1 \in Nat /\ zero + (n + 1) \in Nat
      /\ zero <= zero + (n + 1)
  OBVIOUS
<1>1. bs2 = [bs EXCEPT ![p] = x, ![r] = y]
  BY InvokeIs
<1>2. b \in Block /\ r \in Nat
  OBVIOUS
<1>3. q \in Block /\ Fine(q, zero)
  <2> DEFINE k == n + 1
  <2>1. k \in Nat /\ k <= Len(b.stack) /\ Fine(b, zero)
    BY <1>0
  <2> HIDE DEF k, zero, b
  <2>2. Fine(PopStack(b, k), zero + k) /\ Equal(PopStack(b, k), b)
    BY <1>0, <1>2, <2>1, PopFine
  <2>3. PopStack(b, k) \in Block /\ zero + k \in Nat /\ zero <= zero + k
    BY <1>0, <2>2 DEF Equal, k
  <2>4. Fine(PopStack(b, k), zero)
    BY <1>0, <2>2, <2>3, FineLess
  <2> QED
    BY <2>3, <2>4 DEF k
<1> HIDE DEF q
<1>4. /\ bs2[p] = x /\ bs2[r] = y /\ DOMAIN bs2 = DOMAIN bs
      /\ \A c \in DOMAIN bs : c # p /\ c # r => bs2[c] = bs[c]
  <2> HIDE DEF x, y
  <2> QED
    BY <1>1
<1>5. x \in Block /\ y \in Block
  <2> HIDE DEF x, y
  <2> QED
    BY <1>4
<1>6. Fine(x, 0) /\ Terminated(x)
  <2> HIDE DEF b
  <2>1. Fine(b, 0) /\ n + 1 <= Len(b.stack) /\ Caller(b, r, n) \in Block
    BY <1>5 DEF b
  <2> QED
    BY <1>2, <2>1, CallerFine
<1>7. Fine(y, 1) /\ y.tail.type = "open"
  <2>1. Fine(q, 0) /\ Blank(z)
    BY <1>3
  <2> HIDE DEF z
  <2> QED
    BY <1>3, <1>5, <2>1, BackFine
<1> HIDE DEF x, y
<1>8. Fine(y, zero)
  <2>1. Fine(y, one)
    BY <1>7
  <2> HIDE DEF zero, one
  <2> QED
    BY <1>0, <1>5, <2>1, FineLess
<1>9. Terminated(y)
  BY <1>7 DEF Terminated
<1>10. Len(bs) <= Len(bs2)
  BY <1>4
<1>11. Sorted(bs, bs2, {p, r})
  BY <1>4, <1>6, <1>8, <1>9, <1>10 DEF Sorted
<1> QED
  BY <1>4, <1>7, <1>11

\* A call begins: the block it returns to is made.
LEMMA CalledSorted ==
  ASSUME NEW bs \in Seq(Block), NEW z, Blank(z)
  PROVE  LET bs2 == Append(bs, z)
             r == Len(bs) + 1
         IN Sorted(bs, bs2, {}) /\ bs2[r] = z
<1> DEFINE new == <<z>>
           bs2 == Append(bs, z)
           one == 1
           zero == 0
<1>1. zero \in Nat /\ zero <= one
  OBVIOUS
<1>2. z \in Block /\ Fine(z, 0) /\ Terminated(z)
  <2>1. z \in Block /\ z.tail = OpenTail /\ Fine(z, one) /\ one \in Nat
    BY BlankFine
  <2> HIDE DEF zero, one
  <2>2. Fine(z, zero)
    BY <1>1, <2>1, FineLess
  <2> QED
    BY <2>1, <2>2 DEF zero, Terminated, OpenTail
<1>3. new \in Seq(Block) /\ \A i \in DOMAIN new : new[i] = z
  BY <1>2
<1>4. bs2 = bs \o new /\ bs2[Len(bs) + 1] = z
  BY <1>2
<1> HIDE DEF new, bs2
<1> QED
  BY <1>2, <1>3, <1>4, AddSorted DEF bs2

LEMMA CallOrder ==
  ASSUME NEW h, Before(h), Well, Ordered(blocks, cur, frames, at),
         NEW n \in Nat, NEW nonvoid \in BOOLEAN, Call(n, nonvoid)
  PROVE  Orders
<1> DEFINE r == Len(blocks) + 1
           m == IF nonvoid THEN 2 ELSE 1
           z == [EmptyBlock EXCEPT !.par.extra = m]
           bs == Append(blocks, z)
           g == [Frame("call") EXCEPT !.oth = r, !.n = n + 1, !.post = n, !.done = nonvoid]
           F == Frame("call")
<1>1. at = "expr" /\ frames' = Append(frames, g) /\ cur' = cur /\ blocks' = bs /\ at' = "expr"
  BY DEF Call, Expression, Produce, Enter
<1>2. cur # NoBlock /\ cur \in DOMAIN blocks /\ blocks \in Seq(Block)
  BY <1>1, ExprFacts
<1>4. Blank(z)
  BY DEF Blank
<1> HIDE DEF z
<1>5. Sorted(blocks, bs, {}) /\ bs[r] = z
  BY <1>2, <1>4, CalledSorted, Zenon
<1> HIDE DEF bs
<1>6. r \in Nat /\ n + 1 \in Nat
  BY <1>2
<1>7. Frame("call") \in Frames
  BY FrameScope DEF FrameKinds
<1> HIDE DEF F, r
<1>8. g \in Frames /\ g.k = "call" /\ g.oth = r
  <2>1. F \in Frames /\ F.k = "call"
    BY <1>7 DEF F, Frame
  <2> DEFINE o == n + 1
  <2>2. o \in Nat
    BY <1>6
  <2> HIDE DEF o
  <2>3. g = [F EXCEPT !.oth = r, !.n = o, !.post = n, !.done = nonvoid]
    BY DEF F, o
  <2> QED
    BY <1>6, <2>1, <2>2, <2>3, Zenon DEF Frames
<1> HIDE DEF g
<1>9. Holding(bs, g)
  BY <1>4, <1>5, <1>8 DEF Holding
<1>10. "expr" # "value"
  OBVIOUS
<1>11. {} \subseteq Only(cur)
  OBVIOUS
<1>12. Ordered(bs, cur, Append(frames, g), "expr")
  BY <1>5, <1>8, <1>9, <1>10, <1>11, OrderEnter
<1> QED
  BY <1>1, <1>12 DEF Orders

LEMMA EndArgumentOrder ==
  ASSUME NEW h, Before(h), Well, Ordered(blocks, cur, frames, at), EndArgument
  PROVE  Orders
<1> DEFINE x == PushStack(blocks[cur])
           bs == [blocks EXCEPT ![cur] = x]
           g == [top EXCEPT !.n = top.n - 1]
           n == top.post
           nonvoid == top.done
           r == top.oth
<1>1. /\ at = "value" /\ frames # <<>> /\ top.k = "call"
      /\ IF top.n > 1 THEN /\ Replace(g)
                           /\ at' = "expr" /\ cur' = cur /\ blocks' = bs
         ELSE /\ frames' = Below /\ cur' = r /\ at' = "value"
              /\ blocks' = Invoke(bs, cur, r, n, nonvoid)
  <2>1. Returned("call")
    BY DEF EndArgument
  <2>2. IF top.n > 1 THEN /\ Replace(g)
                          /\ at' = "expr" /\ cur' = cur /\ blocks' = bs
        ELSE /\ frames' = Below /\ cur' = r /\ at' = "value"
             /\ blocks' = Invoke(bs, cur, r, n, nonvoid)
    BY DEF EndArgument, Value, Produce
  <2> QED
    BY <2>1, <2>2 DEF Returned, Waiting
<1>2. /\ cur # NoBlock /\ blocks[cur] \in Block /\ Fine(blocks[cur], 1) /\ top \in Frames
      /\ FrameOK(Len(blocks), top) /\ Len(blocks[cur].stack) = h[Len(frames) - 1] + Pushed(top)
      /\ h[Len(frames) - 1] \in Nat
  BY <1>1, TopFine
<1>3. cur \in DOMAIN blocks /\ blocks \in Seq(Block) /\ Only(cur) = {cur}
      /\ blocks[cur].tail.type = "open"
  BY <1>2, CurFine
<1>4. /\ x \in Block /\ x.tail.type = "open" /\ Fine(x, 0)
      /\ Len(x.stack) = Len(blocks[cur].stack) + 1
  BY <1>2, <1>3, WaitingFine
<1>5. /\ r \in DOMAIN blocks /\ r # cur /\ Blank(blocks[r]) /\ Pending(top) = {r}
  <2>1. r \in DOMAIN blocks /\ r # NoBlock
    BY <1>1, <1>2, <1>3 DEF FrameOK, NoBlock
  <2>2. Pending(top) = {r}
    BY <1>1, <2>1, PendingIs
  <2>3. r # cur
    BY <1>1, <2>2, BeforeFacts DEF Scene
  <2>4. Holding(blocks, top)
    BY <1>1, BeforeFacts DEF Ordered
  <2>5. Blank(blocks[r])
    BY <1>1, <2>4 DEF Holding
  <2> QED
    BY <2>1, <2>2, <2>3, <2>5
<1>6. {cur} \subseteq Top(cur, top) /\ {cur, r} \subseteq Top(cur, top)
  BY <1>3, <1>5 DEF Top
<1>7. top.n > 1 => g \in Frames /\ g.k = "call" /\ g.oth = r
  BY <1>1, <1>2, FrameLess, Zenon DEF Frames
<1> HIDE DEF x, r
<1>8. Sorted(blocks, bs, {cur}) /\ bs \in Seq(Block) /\ DOMAIN bs = DOMAIN blocks
      /\ bs[cur] = x /\ bs[r] = blocks[r]
  <2>1. Sorted(blocks, bs, {cur}) /\ bs \in Seq(Block)
    BY <1>3, <1>4, FillSorted, ExceptAnywhere
  <2> QED
    BY <1>3, <1>5, <2>1
<1> HIDE DEF bs, g
<1>9. CASE top.n > 1
  <2>1. frames' = Append(Below, g) /\ at' = "expr" /\ cur' = cur /\ blocks' = bs
    BY <1>1, <1>9 DEF Replace
  <2>2. g \in Frames /\ g.k = "call" /\ g.oth = r
    BY <1>7, <1>9
  <2>3. Holding(bs, g)
    BY <1>5, <1>8, <2>2 DEF Holding
  <2>4. "expr" # "value"
    OBVIOUS
  <2>5. Ordered(bs, cur, Append(Below, g), "expr")
    BY <1>1, <1>6, <1>8, <2>2, <2>3, <2>4, OrderSwap
  <2> QED
    BY <2>1, <2>5 DEF Orders
<1>10. CASE ~(top.n > 1)
  <2>1. n \in Nat /\ top.n \in Nat /\ top.n \in 1 .. n + 1
    BY <1>1, <1>2 DEF Frames, FrameOK
  <2>2. Pushed(top) = n
    BY <1>1, <1>10, <2>1 DEF Pushed
  <2>3. n + 1 <= Len(bs[cur].stack)
    BY <1>2, <1>4, <1>8, <2>1, <2>2
  <2>4. /\ frames' = Below /\ cur' = r /\ at' = "value"
        /\ blocks' = Invoke(bs, cur, r, n, nonvoid)
    BY <1>1, <1>10
  <2> HIDE DEF n, nonvoid
  <2>5. blocks' \in Seq(Block)
    BY AfterFacts
  <2>6. Sorted(bs, blocks', {cur, r}) /\ Fine(blocks'[r], 1)
    <3>1. cur \in DOMAIN bs /\ r \in DOMAIN bs /\ cur # r /\ Fine(bs[cur], 0) /\ Blank(bs[r])
      BY <1>3, <1>4, <1>5, <1>8
    <3> QED
      BY <1>8, <2>1, <2>3, <2>4, <2>5, <3>1, InvokeSorted, Zenon
  <2>7. Sorted(blocks, blocks', {cur, r})
    <3>1. \A d \in DOMAIN blocks : d \in {cur, r} <=> d \in {cur} \/ d \in {cur, r}
      OBVIOUS
    <3> QED
      BY <1>3, <1>8, <2>6, <3>1, SortedTrans
  <2>8. Ordered(blocks', r, Below, "value")
    BY <1>1, <1>6, <2>6, <2>7, OrderLeave
  <2> QED
    BY <2>4, <2>8 DEF Orders
<1> QED
  BY <1>9, <1>10

-----------------------------------------------------------------------------
(* The program.                                                            *)

\* No symbol is declared without a value and no type is tested.
Valued == Constructs \cap {"declare", "instanceof"} = {}

LEMMA StatementOrders ==
  ASSUME Valued, NEW h, Before(h), Fed(blocks, cur, frames, unit),
         Ordered(blocks, cur, frames, at), AStatement
  PROVE  Orders
<1>1. ASSUME NEW more \in BOOLEAN, DefineBare(more) PROVE Orders
  BY <1>1 DEF DefineBare, StartsClause, Starts, Valued
<1>2. CASE DefineValue \/ Let \/ ExpressionStatement \/ If \/ Return
  BY <1>2, WaitsOrder
<1>3. CASE Nested \/ While \/ DoWhile
  BY <1>3, ForksOrder
<1>4. CASE DoWhileOnStaleLists
  BY <1>4, StopOrder DEF DoWhileOnStaleLists
<1>5. ASSUME NEW k, NEW i, Control(k, i) PROVE Orders
  BY <1>5, ControlOrder
<1> QED
  BY <1>1, <1>2, <1>3, <1>4, <1>5 DEF AStatement

LEMMA ExpressionOrders ==
  ASSUME Valued, NEW h, Before(h), Outcome, Ordered(blocks, cur, frames, at), AnExpression
  PROVE  Orders
<1>1. CASE UNCHANGED <<blocks, cur, frames, at>>
  BY <1>1, StopOrder
<1>2. CASE Well
  <2>1. CASE Literal
    BY <2>1, LiteralOrder
  <2>2. CASE \E s \in Visible : Get(s) \/ Set(s) \/ Compound(s) \/ Postfix(s)
    <3>1. PICK s \in Visible : Get(s) \/ Set(s) \/ Compound(s) \/ Postfix(s)
      BY <2>2
    <3>2. s \in Nat
      BY VisibleNat DEF Before
    <3>3. CASE Set(s)
      BY <3>3, OperandsOrder
    <3>4. CASE Get(s)
      BY <3>4, GetOrder
    <3>5. CASE Compound(s)
      BY <3>2, <3>5, CompoundOrder
    <3>6. CASE Postfix(s)
      BY <3>2, <3>6, PostfixOrder
    <3> QED
      BY <3>1, <3>3, <3>4, <3>5, <3>6
  <2>3. CASE InstanceOf
    BY <2>3 DEF InstanceOf, Operand, Expression, Starts, Valued
  <2>4. CASE \/ \E n \in 1 .. 2 : Linear(n)
             \/ Ternary
             \/ \E n \in 2 .. 3 : SetElement(n)
             \/ \E n \in 1 .. 2, postfix \in BOOLEAN : UpdateElement(n, postfix)
    BY <2>4, OperandsOrder
  <2>5. ASSUME NEW n \in 0 .. MaxArgs, NEW nonvoid \in BOOLEAN, Call(n, nonvoid) PROVE Orders
    <3>1. n \in Nat
      BY BoundsAssumption
    <3> QED
      BY <1>2, <2>5, <3>1, CallOrder
  <2> QED
    BY <2>1, <2>2, <2>3, <2>4, <2>5 DEF AnExpression
<1> QED
  BY <1>1, <1>2 DEF Outcome

LEMMA ReturnsOrder ==
  ASSUME NEW h, Before(h), Outcome, Fed(blocks, cur, frames, unit),
         Ordered(blocks, cur, frames, at), Returns
  PROVE  Orders
<1>1. CASE UNCHANGED <<blocks, cur, frames, at>>
  BY <1>1, StopOrder
<1>2. CASE Well
  <2>1. ASSUME NEW more \in BOOLEAN, EndDefine(more) \/ EndLet(more) PROVE Orders
    <3>1. PICK k \in {"define", "let"}, mode \in Between : EndClause(k, mode, more)
      BY <2>1 DEF EndDefine, EndLet, Between
    <3>2. mode # "value"
      BY DEF Between
    <3> QED
      BY <3>1, <3>2, EndClauseOrder
  <2>2. CASE EndExpression \/ EndReturn
    BY <2>2, EndExpressionOrder, EndReturnOrder
  <2>3. CASE EndIfCondition \/ EndTernaryCondition \/ EndWhileCondition
    BY <2>3, ConditionsOrder
  <2>4. CASE EndThen \/ EndTernaryFirst
    BY <2>4, EndThenOrder, EndTernaryFirstOrder
  <2>5. CASE EndElse \/ EndNested \/ EndWhile
    BY <2>5, EndElseOrder, EndNestedOrder, EndWhileOrder
  <2>6. CASE EndDoBody \/ EndDoCondition
    BY <2>6, EndDoBodyOrder, EndDoConditionOrder
  <2>7. CASE EndSet \/ EndCompound \/ EndOperand
    BY <2>7, EndSetOrder, EndCompoundOrder, EndOperandOrder
  <2>8. CASE EndInstanceOf
    <3>1. frames # <<>> /\ top.k = "instanceof"
      BY <2>8 DEF EndInstanceOf, Returned, Waiting
    <3>2. Holding(blocks, top)
      BY <3>1, BeforeFacts DEF Ordered
    <3> QED
      BY <3>1, <3>2 DEF Holding
  <2>9. CASE EndElement \/ EndTarget \/ EndUpdate
    BY <2>9, EndElementOrder, EndTargetOrder, EndUpdateOrder
  <2>10. CASE EndTernary
    BY <2>10, EndTernaryOrder
  <2>11. CASE EndArgument
    BY <1>2, <2>11, EndArgumentOrder
  <2> QED
    BY <2>1, <2>2, <2>3, <2>4, <2>5, <2>6, <2>7, <2>8, <2>9, <2>10, <2>11 DEF Returns
<1> QED
  BY <1>1, <1>2 DEF Outcome

InOrder == Supplied /\ Ordered(blocks, cur, frames, at)

LEMMA InOrderInit ==
  ASSUME Init
  PROVE  InOrder
<1>1. PICK params \in 0 .. (IF unit = "top" THEN 0 ELSE MaxParams) :
        blocks = <<StartBlock(unit, params)>>
  BY DEF Init
<1>2. params \in Nat
  BY <1>1, BoundsAssumption
<1>3. DOMAIN frames = {} /\ at # "value"
  BY DEF Init
<1> DEFINE b == StartBlock(unit, params)
<1>4. b.tail = OpenTail /\ Fine(b, 0)
  <2>1. CASE unit = "top"
    <3>1. /\ b.tail = OpenTail /\ b.code = <<>> /\ b.syms = <<>> /\ b.stack = <<>>
          /\ b.hasRet = FALSE /\ b.par = NoParams
      BY <2>1 DEF StartBlock, EmptyBlock
    <3>2. ParamCount(b) = 0
      BY <3>1, FS_EmptySet DEF ParamCount, NoParams, One
    <3>3. Used(b) = 0 /\ NextInstruction(b) = 0
      BY <3>1, <3>2 DEF Used, One, NextInstruction
    <3>4. Room(b, 0)
      BY <3>3 DEF Room
    <3>5. Backward(b) /\ Located(b)
      BY <3>1 DEF Backward, Located
    <3> QED
      BY <3>1, <3>4, <3>5 DEF Fine
  <2>2. CASE unit # "top"
    <3> DEFINE es == [q \in 1 .. params |-> [s |-> q, ex |-> TRUE, ins |-> q]]
    <3>1. /\ b.tail = OpenTail /\ b.code = <<>> /\ b.syms = es /\ b.stack = <<>>
          /\ b.hasRet = TRUE /\ b.retIns = 0
          /\ b.par = [ret |-> TRUE, live |-> 1 .. params, stk |-> 0, extra |-> 0]
      BY <2>2 DEF StartBlock, EmptyBlock
    <3>2. Len(es) = params /\ DOMAIN es = 1 .. params
          /\ \A q \in 1 .. params : es[q].ex /\ es[q].ins = q
      BY <1>2
    <3> HIDE DEF es
    <3>3. Cardinality(1 .. params) = params
      BY <1>2, FS_Interval
    <3>4. ParamCount(b) = 1 + params
      BY <1>2, <3>1, <3>3 DEF ParamCount, One
    <3>5. Used(b) = 1 + params /\ NextInstruction(b) = 1 + params /\ LastInstruction(b) = params
      BY <1>2, <3>1, <3>2, <3>4 DEF Used, One, NextInstruction, LastInstruction
    <3>6. Room(b, 0)
      BY <1>2, <3>5 DEF Room
    <3>7. Numbers(b) = 0 .. params
      BY <3>5 DEF Numbers
    <3> HIDE DEF b
    <3>8. Backward(b)
      BY <3>1 DEF Backward
    <3>9. Located(b)
      BY <1>2, <3>1, <3>2, <3>7 DEF Located
    <3> QED
      BY <3>1, <3>6, <3>8, <3>9 DEF Fine
  <2> QED
    BY <2>1, <2>2
<1> HIDE DEF b
<1>5. DOMAIN blocks = {1} /\ blocks[1] = b
  BY <1>1 DEF b
<1>6. Terminated(b)
  BY <1>4 DEF Terminated, OpenTail
<1>7. Orderly(blocks)
  BY <1>4, <1>5, <1>6 DEF Orderly
<1> QED
  BY <1>3, <1>7, SuppliedInit DEF InOrder, Ordered

LEMMA InOrderStep ==
  ASSUME Valued, InOrder, [Next]_vars
  PROVE  InOrder'
<1>1. Supplied'
  BY SuppliedStep DEF InOrder
<1>2. CASE UNCHANGED <<blocks, cur, frames, at>>
  BY <1>1, <1>2, StopOrder DEF InOrder, Orders
<1>3. CASE UNCHANGED vars
  BY <1>2, <1>3 DEF vars
<1>4. CASE HeapBroken \/ Over
  BY <1>2, <1>3, <1>4 DEF HeapBroken, Stop, Over
<1>5. CASE Next /\ ~HeapBroken /\ ~Over
  <2>1. status = "running" /\ (AStatement \/ AnExpression \/ Returns \/ EndUnit)
    BY <1>5, NextRuns
  <2>2. PICK h : Ready(blocks, cur, frames, at, h)
    BY <2>1 DEF InOrder, Supplied, Agreed, Inner
  <2>3. Types
    BY <2>1 DEF InOrder, Supplied, Agreed, Inner, Types
  <2>4. Before(h)
    BY <2>1, <2>2, <2>3 DEF Before, InOrder, Supplied, Agreed
  <2>5. Fed(blocks, cur, frames, unit)
    BY <2>1 DEF InOrder, Supplied, Fed
  <2>6. Ordered(blocks, cur, frames, at)
    BY DEF InOrder
  <2>7. ASSUME AStatement PROVE Orders
    BY <2>4, <2>5, <2>6, <2>7, StatementOrders
  <2>8. ASSUME AnExpression PROVE Orders
    BY <2>2, <2>3, <2>4, <2>6, <2>8, ExpressionOutcome, ExpressionOrders
  <2>9. ASSUME Returns PROVE Orders
    BY <2>2, <2>3, <2>4, <2>5, <2>6, <2>9, ReturnsOutcome, ReturnsOrder
  <2>10. ASSUME EndUnit PROVE Orders
    BY <2>4, <2>5, <2>6, <2>10, EndUnitOrder
  <2>11. Orders
    BY <2>1, <2>7, <2>8, <2>9, <2>10
  <2> QED
    BY <1>1, <2>11 DEF InOrder, Orders
<1> QED
  BY <1>3, <1>4, <1>5

\* What a tail passes comes from its block.
LEMMA PassedNumbers ==
  ASSUME NEW bs, NEW b \in DOMAIN bs, bs[b] \in Block, Flows(bs), Orderly(bs),
         bs[b].tail.type # "open", bs[b].tail.inject = "ok",
         NEW q \in bs[b].tail.live
  PROVE  q \in DOMAIN bs[b].syms /\ bs[b].syms[q].ins \in Numbers(bs[b])
<1>1. bs[b].tail.type \in {"goto", "branch", "call", "return"}
  <2>1. bs[b].tail \in Terminal
    BY DEF Block
  <2> QED
    BY <2>1 DEF Terminal
<1>2. bs[b].tail.type \in {"goto", "branch"}
  BY <1>1 DEF Orderly, Terminated
<1>3. PICK d : d \in Leads(bs[b])
  BY <1>2 DEF Leads
<1>4. Fit(bs[b], bs[d])
  BY <1>3 DEF Flows, Flow
<1>5. q \in DOMAIN bs[b].syms
  BY <1>4 DEF Fit, With
<1>6. Located(bs[b])
  BY DEF Orderly, Fine
<1> QED
  BY <1>5, <1>6 DEF Located

\* Each instruction uses only parameters of its block and earlier instructions of
\* it, and a tail only what its block has computed, in every program that gives
\* each variable a value where it declares it and tests no type: the numbers that
\* generate_expression takes from symbols and the stack are those of the block
\* it writes to, whatever block its operands ended in.
THEOREM OperandsEarlierAlways ==
  ASSUME Valued
  PROVE  Spec => []OperandsEarlier
<1>1. ASSUME InOrder
      PROVE  OperandsEarlier
  <2> SUFFICES ASSUME Defined, NEW b \in DOMAIN blocks
               PROVE  /\ \A i \in DOMAIN blocks[b].code : \A k \in DOMAIN blocks[b].code[i].args :
                           blocks[b].code[i].args[k] \in 0 .. ParamCount(blocks[b]) + i - 2
                      /\ blocks[b].tail.type # "open" =>
                           {blocks[b].tail.first, blocks[b].tail.second, blocks[b].tail.cond}
                             \cup {blocks[b].tail.args[k] : k \in DOMAIN blocks[b].tail.args}
                             \cup {blocks[b].syms[q].ins : q \in blocks[b].tail.live}
                           \subseteq 0 .. LastInstruction(blocks[b])
    BY DEF OperandsEarlier
  <2>1. blocks[b] \in Block /\ Flows(blocks) /\ Orderly(blocks)
    BY <1>1 DEF InOrder, Supplied, Agreed, Inner, Ordered
  <2>2. Fine(blocks[b], 0) /\ Terminated(blocks[b])
    BY <2>1 DEF Orderly
  <2>3. blocks[b].tail.inject = "ok"
    <3>1. blocks[b].tail.inject # "over" /\ blocks[b].tail.inject # "null"
      BY <1>1 DEF InOrder, Supplied, Plausible, Defined
    <3>2. blocks[b].tail \in Terminal
      BY <2>1 DEF Block
    <3> QED
      BY <3>1, <3>2 DEF Terminal
  <2>4. ASSUME blocks[b].tail.type # "open"
        PROVE  {blocks[b].tail.first, blocks[b].tail.second, blocks[b].tail.cond}
                 \cup {blocks[b].tail.args[k] : k \in DOMAIN blocks[b].tail.args}
                 \cup {blocks[b].syms[q].ins : q \in blocks[b].tail.live}
               \subseteq 0 .. LastInstruction(blocks[b])
    <3>1. {blocks[b].tail.first, blocks[b].tail.second, blocks[b].tail.cond} \subseteq Numbers(blocks[b])
      BY <2>2, <2>4 DEF Terminated
    <3>2. \A k \in DOMAIN blocks[b].tail.args : blocks[b].tail.args[k] \in Numbers(blocks[b])
      BY <2>2, <2>3, <2>4 DEF Terminated
    <3>3. \A q \in blocks[b].tail.live : blocks[b].syms[q].ins \in Numbers(blocks[b])
      BY <2>1, <2>3, <2>4, PassedNumbers
    <3>4. Numbers(blocks[b]) = 0 .. LastInstruction(blocks[b])
      BY DEF Numbers
    <3> QED
      BY <3>1, <3>2, <3>3, <3>4
  <2>5. Backward(blocks[b])
    BY <2>2 DEF Fine
  <2> QED
    BY <2>4, <2>5 DEF Backward
<1> QED
  BY <1>1, InOrderInit, InOrderStep, PTL DEF Spec
=============================================================================
