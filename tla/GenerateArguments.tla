------------------------- MODULE GenerateArguments -------------------------
(***************************************************************************)
(* The variables that the blocks know, and what the tails pass on, for      *)
(* programs of any size: ScopeAgrees, ContextIsPrefix and, after them,      *)
(* ArgumentsFit.                                                           *)
(*                                                                         *)
(* The first two hold because of Settled, which GenerateProofs states and    *)
(* follows through the ways a call can go on.  Here every action is shown    *)
(* to keep it, and Whole with it.                                          *)
(*                                                                         *)
(* A tail and the block it leads to are mostly made by one operation, and   *)
(* fit by what child_block does.  The back edges do not: a loop's body is   *)
(* joined to a block made long before, whose parameters were fixed then.    *)
(* So the invariant says what every block that may still be joined to it    *)
(* carries meanwhile: a value for each of the header's parameters (Laden)   *)
(* and, in a function, the return struct (Returning).                       *)
(***************************************************************************)
EXTENDS GenerateProofs

-----------------------------------------------------------------------------
(* Steps within an expression.                                             *)

\* No list was shorter than its context's.
Whole(bs) == \A b \in DOMAIN bs : bs[b].made \notin {"short", "mismatched"}

\* A step that changes what is in the current block, and no list.
Same(bs, bs2) == Lists(bs2) = Lists(bs) /\ Whole(bs2)

LEMMA PutSame ==
  ASSUME NEW bs \in Seq(Block), Whole(bs), NEW c \in DOMAIN bs, NEW x, Kin(x, bs[c])
  PROVE  Same(bs, [bs EXCEPT ![c] = x])
<1> DEFINE bs2 == [bs EXCEPT ![c] = x]
<1>1. DOMAIN bs2 = DOMAIN bs /\ bs2[c] = x /\ \A b \in DOMAIN bs : b # c => bs2[b] = bs[b]
  OBVIOUS
<1> HIDE DEF bs2
<1>2. \A b \in DOMAIN bs : Names(bs2[b].syms) = Names(bs[b].syms) /\ bs2[b].made = bs[b].made
  BY <1>1 DEF Kin
<1>3. Lists(bs2) = Lists(bs)
  BY <1>1, <1>2 DEF Lists
<1>4. Whole(bs2)
  BY <1>1, <1>2 DEF Whole
<1> QED
  BY <1>3, <1>4 DEF Same, bs2

\* The state before a step.
Before(h) == Ready(blocks, cur, frames, at, h) /\ Types /\ Good /\ Whole(blocks)

LEMMA BeforeFacts ==
  ASSUME NEW h, Before(h)
  PROVE  /\ Scene(Lists(blocks), cur, frames, scope)
         /\ Settled(Lists(blocks), cur, frames, scope, at)
         /\ Targets(Lists(blocks), cur, frames)
         /\ Idle(Lists(blocks), frames)
         /\ blocks \in Seq(Block) /\ frames \in Seq(Frames) /\ scope \in Seq(Nat)
         /\ Len(Lists(blocks)) = Len(blocks) /\ DOMAIN Lists(blocks) = DOMAIN blocks
         /\ Lists(blocks) \in Seq(Seq(Nat))
         /\ Whole(blocks) /\ cur \in 0 .. Len(blocks)
         /\ \A i \in DOMAIN frames : FrameOK(Len(blocks), frames[i])
         /\ frames # <<>> => /\ top = frames[Len(frames)] /\ Len(frames) \in DOMAIN frames
                             /\ top \in Frames /\ FrameOK(Len(blocks), top)
         /\ cur # NoBlock => /\ cur \in DOMAIN blocks /\ blocks[cur] \in Block
                             /\ Fields = DOMAIN blocks[cur]
         /\ at \notin Between => cur # NoBlock \/ at \notin Modes
<1>1. Ready(blocks, cur, frames, at, h) /\ scope \in Seq(Nat)
  BY DEF Before, Types
<1>2. Scene(Lists(blocks), cur, frames, scope)
  BY <1>1, SceneIs
<1>3. /\ blocks \in Seq(Block) /\ cur \in 0 .. Len(blocks) /\ frames \in Seq(Frames)
      /\ \A i \in DOMAIN frames : FrameOK(Len(blocks), frames[i])
  BY <1>1 DEF Ready, Shape
<1>4. Len(Lists(blocks)) = Len(blocks) /\ DOMAIN Lists(blocks) = DOMAIN blocks
      /\ Lists(blocks) \in Seq(Seq(Nat))
  BY <1>3, ListsType
<1>5. frames # <<>> => top = frames[Len(frames)] /\ Len(frames) \in DOMAIN frames /\ top \in Frames
  BY <1>3 DEF top
<1>6. cur # NoBlock => /\ cur \in DOMAIN blocks /\ blocks[cur] \in Block
                       /\ Fields = DOMAIN blocks[cur]
  BY <1>1, CurFacts, BlockFielded
<1>7. at \in Modes /\ at \notin Between => at \in Filling
  BY DEF Modes, Between, Filling
<1>8. Good /\ Whole(blocks)
  BY DEF Before
<1>9. at \in Filling => cur # NoBlock
  BY <1>1 DEF Ready
<1>10. frames # <<>> => FrameOK(Len(blocks), top)
  BY <1>3, <1>5
<1>11. at \notin Between => cur # NoBlock \/ at \notin Modes
  BY <1>7, <1>9
<1>12. /\ Settled(Lists(blocks), cur, frames, scope, at)
       /\ Targets(Lists(blocks), cur, frames)
       /\ Idle(Lists(blocks), frames)
  BY <1>8 DEF Good
<1> QED
  BY <1>1, <1>2, <1>3, <1>4, <1>5, <1>6, <1>8, <1>10, <1>11, <1>12

LEMMA AfterFacts ==
  ASSUME Well
  PROVE  /\ blocks' \in Seq(Block) /\ cur' \in 0 .. Len(blocks') /\ frames' \in Seq(Frames)
         /\ \A i \in DOMAIN frames' : FrameOK(Len(blocks'), frames'[i])
         /\ Len(Lists(blocks')) = Len(blocks') /\ DOMAIN Lists(blocks') = DOMAIN blocks'
         /\ Lists(blocks') \in Seq(Seq(Nat))
<1>1. PICK h2 : Ready(blocks', cur', frames', at', h2)
  BY DEF Well, EndsWell
<1>2. /\ blocks' \in Seq(Block) /\ cur' \in 0 .. Len(blocks') /\ frames' \in Seq(Frames)
      /\ \A i \in DOMAIN frames' : FrameOK(Len(blocks'), frames'[i])
  BY <1>1 DEF Ready, Shape
<1> QED
  BY <1>2, ListsType

LEMMA SameMore ==
  ASSUME NEW bs \in Seq(Block), NEW bs2, Same(bs, bs2)
  PROVE  More(Lists(bs), Lists(bs2))
<1>1. Lists(bs) \in Seq(Seq(Nat)) /\ Lists(bs2) = Lists(bs) /\ Len(Lists(bs)) \in Nat
  BY ListsType DEF Same
<1> QED
  BY <1>1 DEF More

LEMMA GoodStay ==
  ASSUME NEW h, Before(h), Well, Same(blocks, blocks'), cur # NoBlock,
         frames' = frames, cur' = cur, scope' = scope, at \notin Between, at' \notin Between
  PROVE  Good' /\ Whole(blocks')
<1> DEFINE nm == Lists(blocks)
           nm2 == Lists(blocks')
<1>1. /\ Scene(nm, cur, frames, scope) /\ Settled(nm, cur, frames, scope, at)
      /\ Targets(nm, cur, frames)
      /\ blocks \in Seq(Block)
  BY BeforeFacts
<1>2. More(nm, nm2) /\ nm2 = nm /\ Whole(blocks')
  BY <1>1, SameMore DEF Same
<1>3. cur \in 0 .. Len(nm2)
  BY <1>1, <1>2 DEF Scene
<1> HIDE DEF nm, nm2
<1>4. Settled(nm2, cur, frames, scope, at') /\ Targets(nm2, cur, frames)
  BY <1>1, <1>2, <1>3, StayScopes
<1>5. Idle(nm2, frames)
  BY <1>2, BeforeFacts DEF nm
<1> QED
  BY <1>2, <1>4, <1>5 DEF Good, nm2

LEMMA GoodEnter ==
  ASSUME NEW h, Before(h), Well, More(Lists(blocks), Lists(blocks')), cur # NoBlock,
         NEW g \in Frames, Enter(g), g.k \in Mild, g.scope = scope,
         Pending(g) \cap DOMAIN blocks = {}, g.k \in Expr <=> at \notin Between,
         g.k = "compound" => Holds(blocks[cur], g.sym),
         g.k = "call" => Lists(blocks')[g.oth] = <<>>,
         cur' = cur, scope' = scope, at' \notin Between
  PROVE  Good'
<1> DEFINE nm == Lists(blocks)
           nm2 == Lists(blocks')
<1>1. /\ Scene(nm, cur, frames, scope) /\ Settled(nm, cur, frames, scope, at)
      /\ Targets(nm, cur, frames) /\ DOMAIN nm = DOMAIN blocks
      /\ blocks \in Seq(Block) /\ cur \in DOMAIN blocks /\ frames \in Seq(Frames)
      /\ Idle(nm, frames)
  BY BeforeFacts
<1>2. More(nm, nm2) /\ (g.k = "call" => nm2[g.oth] = <<>>)
  OBVIOUS
<1>3. FrameOK(Len(nm2), g)
  <2>1. Len(frames') \in DOMAIN frames' /\ frames'[Len(frames')] = g
    BY <1>1 DEF Enter
  <2> QED
    BY <2>1, AfterFacts
<1>4. g.k = "compound" => \E q \in DOMAIN nm[cur] : nm[cur][q] = g.sym
  BY <1>1, HoldsNames DEF Lists
<1> HIDE DEF nm, nm2
<1>5. Settled(nm2, cur, Append(frames, g), scope, at') /\ Targets(nm2, cur, Append(frames, g))
  BY <1>1, <1>2, <1>3, <1>4, EnterScopes
<1>6. Idle(nm2, Append(frames, g))
  <2> DEFINE fs2 == Append(frames, g)
  <2>1. \A i \in DOMAIN fs2 : (i \in DOMAIN frames /\ fs2[i] = frames[i]) \/ fs2[i] = g
    BY <1>1
  <2> HIDE DEF fs2
  <2>2. Idle(nm2, fs2)
    BY <1>1, <1>2, <2>1, MoreIdle
  <2> QED
    BY <2>2 DEF fs2
<1> QED
  BY <1>5, <1>6 DEF Good, nm2, Enter

LEMMA GoodSwap ==
  ASSUME NEW h, Before(h), Well, More(Lists(blocks), Lists(blocks')), cur # NoBlock,
         frames # <<>>, top.k \in Expr \cap Mild,
         NEW g \in Frames, Replace(g), g.k \in Expr \cap Mild, g.k # "compound",
         g.scope = top.scope, Pending(g) \subseteq Pending(top),
         g.k = "call" => top.k = "call" /\ g.oth = top.oth,
         cur' = cur, scope' = scope, at' \notin Between
  PROVE  Good'
<1> DEFINE nm == Lists(blocks)
           nm2 == Lists(blocks')
           fs2 == Append(SubSeq(frames, 1, Len(frames) - 1), g)
<1>1. /\ Scene(nm, cur, frames, scope) /\ Settled(nm, cur, frames, scope, at)
      /\ Targets(nm, cur, frames) /\ frames \in Seq(Frames)
      /\ top = frames[Len(frames)] /\ Idle(nm, frames)
      /\ FrameOK(Len(nm), top) /\ Len(frames) \in DOMAIN frames
  BY BeforeFacts
<1>2. More(nm, nm2) /\ frames' = fs2
  BY DEF Replace, Below
<1>3. FrameOK(Len(nm2), g)
  <2>1. Len(frames') \in DOMAIN frames' /\ frames'[Len(frames')] = g
    <3> DEFINE b == SubSeq(frames, 1, Len(frames) - 1)
    <3>1. b \in Seq(Frames)
      BY <1>1, BelowFacts
    <3>2. frames' = Append(b, g)
      BY <1>2
    <3> HIDE DEF b
    <3> QED
      BY <3>1, <3>2
  <2> QED
    BY <2>1, AfterFacts
<1> HIDE DEF nm, nm2
<1>4. Settled(nm2, cur, fs2, scope, at') /\ Targets(nm2, cur, fs2)
  BY <1>1, <1>2, <1>3, SwapScopes
<1>5. Idle(nm2, fs2)
  <2> DEFINE k == Len(frames) - 1
             below == SubSeq(frames, 1, k)
  <2>1. /\ k \in Nat /\ below \in Seq(Frames) /\ Len(below) = k
        /\ \A i \in 1 .. k : below[i] = frames[i] /\ i \in DOMAIN frames
    BY <1>1, BelowFacts
  <2>2. fs2 = Append(below, g)
    OBVIOUS
  <2> HIDE DEF k, below, fs2
  <2>3. \A i \in DOMAIN fs2 : \/ i \in 1 .. k /\ fs2[i] = below[i]
                              \/ fs2[i] = g
    BY <2>1, <2>2
  <2>4. g.k = "call" => nm2[g.oth] = <<>>
    <3>1. top.k = "call" => nm[top.oth] = <<>> /\ top.oth \in 1 .. Len(nm)
      BY <1>1 DEF Idle, FrameOK
    <3>2. DOMAIN nm = 1 .. Len(nm)
      BY <1>1 DEF Scene
    <3> QED
      BY <1>2, <3>1, <3>2 DEF More
  <2> QED
    BY <1>1, <1>2, <2>1, <2>3, <2>4, MoreIdle
<1> QED
  BY <1>2, <1>4, <1>5 DEF Good, nm2

\* The end of an expression's call.
LEMMA GoodLeave ==
  ASSUME NEW h, Before(h), Well, More(Lists(blocks), Lists(blocks')), cur # NoBlock,
         frames # <<>>, top.k \in Expr, frames' = Below, cur' # NoBlock,
         cur' = cur \/ cur' \notin DOMAIN blocks \/ cur' \in Pending(top),
         Lists(blocks')[cur'] = Lists(blocks)[cur], scope' = scope, at' \notin Between
  PROVE  Good'
<1> DEFINE nm == Lists(blocks)
           nm2 == Lists(blocks')
           fs2 == SubSeq(frames, 1, Len(frames) - 1)
<1>1. /\ Scene(nm, cur, frames, scope) /\ Settled(nm, cur, frames, scope, at)
      /\ Targets(nm, cur, frames) /\ frames \in Seq(Frames) /\ DOMAIN nm = DOMAIN blocks
      /\ top = frames[Len(frames)] /\ scope \in Seq(Nat) /\ Idle(nm, frames)
  BY BeforeFacts
<1>2. More(nm, nm2) /\ frames' = fs2 /\ cur' \in 0 .. Len(nm2) /\ nm2[cur'] = nm[cur]
  BY AfterFacts DEF Below
<1> HIDE DEF nm, nm2
<1>3. Settled(nm2, cur', fs2, scope, at') /\ Targets(nm2, cur', fs2)
  BY <1>1, <1>2, LeaveScopes
<1>4. Idle(nm2, fs2)
  <2>1. \A i \in DOMAIN fs2 : fs2[i] = frames[i] /\ i \in DOMAIN frames
    BY <1>1, BelowFacts
  <2> HIDE DEF fs2
  <2> QED
    BY <1>1, <1>2, <2>1, MoreIdle
<1> QED
  BY <1>2, <1>3, <1>4 DEF Good, nm2

\* What a step must leave behind.
Fits == (status' = "running" => Good') /\ Whole(blocks')

\* A step that fills the current block, and begins or ends a call in it at most.
Calm ==
  \/ blocks' = blocks /\ status' # "running"
  \/ /\ cur # NoBlock /\ cur' = cur
     /\ \E x : Kin(x, blocks[cur]) /\ blocks' = [blocks EXCEPT ![cur] = x]
     /\ \/ frames' = frames
        \/ frames # <<>> /\ frames' = Below
        \/ \E g \in Frames : g.k \in Mild /\ (Enter(g) \/ (frames # <<>> /\ Replace(g)))

LEMMA StoppedFits ==
  ASSUME NEW h, Before(h), blocks' = blocks, status' # "running"
  PROVE  Fits /\ Calm
BY DEF Before, Fits, Calm

LEMMA ExprFacts ==
  ASSUME NEW h, Before(h), at \in {"expr", "value"}
  PROVE  /\ at \notin Between /\ cur # NoBlock /\ cur \in DOMAIN blocks
         /\ blocks \in Seq(Block) /\ Whole(blocks)
         /\ Fields = DOMAIN blocks[cur] /\ blocks[cur] \in Block
         /\ "expr" \notin Between /\ "value" \notin Between
         /\ \A x : Kin(x, blocks[cur]) => /\ Same(blocks, [blocks EXCEPT ![cur] = x])
                                          /\ More(Lists(blocks), Lists([blocks EXCEPT ![cur] = x]))
<1>1. at \notin Between /\ at \in Modes
  BY DEF Between, Modes
<1>2. blocks \in Seq(Block) /\ Whole(blocks) /\ cur # NoBlock /\ cur \in DOMAIN blocks
      /\ Fields = DOMAIN blocks[cur] /\ blocks[cur] \in Block
  BY <1>1, BeforeFacts
<1>3. \A x : Kin(x, blocks[cur]) => Same(blocks, [blocks EXCEPT ![cur] = x])
  BY <1>2, PutSame
<1>4. \A bs2 : Same(blocks, bs2) => More(Lists(blocks), Lists(bs2))
  BY <1>2, SameMore
<1> QED
  BY <1>1, <1>2, <1>3, <1>4, ModesApart

\* An expression that is done in the current block.
LEMMA StayFits ==
  ASSUME NEW h, Before(h), Well, at = "expr", NEW x, Kin(x, blocks[cur]),
         Value(cur, [blocks EXCEPT ![cur] = x]), frames' = frames, scope' = scope
  PROVE  Fits /\ Calm
<1>1. cur' = cur /\ at' = "value" /\ blocks' = [blocks EXCEPT ![cur] = x]
  BY DEF Value, Produce
<1>2. Same(blocks, blocks') /\ cur # NoBlock
  BY <1>1, ExprFacts
<1>3. Fits
  BY <1>1, <1>2, ExprFacts, GoodStay DEF Fits
<1>4. Calm
  BY <1>1, <1>2 DEF Calm
<1> QED
  BY <1>3, <1>4

LEMMA LiteralFits ==
  ASSUME NEW h, Before(h), Well, Literal
  PROVE  Fits /\ Calm
<1>1. at = "expr" /\ frames' = frames /\ scope' = scope
      /\ Value(cur, [blocks EXCEPT ![cur] = Emit(blocks[cur], "lit", <<>>)])
  BY DEF Literal
<1>2. Kin(Emit(blocks[cur], "lit", <<>>), blocks[cur])
  BY <1>1, ExprFacts, EmitKin
<1> QED
  BY <1>1, <1>2, StayFits

LEMMA GetFits ==
  ASSUME NEW h, Before(h), Well, NEW s, Get(s)
  PROVE  Fits /\ Calm
<1> DEFINE x == Mirror(blocks[cur], blocks[cur].syms[Find(blocks[cur], s)].ins)
<1>1. at = "expr" /\ frames' = frames /\ scope' = scope
  BY DEF Get, Expression
<1>2. CASE blocks' = blocks /\ status' # "running"
  BY <1>2, StoppedFits
<1>3. CASE Value(cur, [blocks EXCEPT ![cur] = x])
  <2>1. Kin(x, blocks[cur])
    BY <1>1, ExprFacts, MirrorKin
  <2> HIDE DEF x
  <2> QED
    BY <1>1, <1>3, <2>1, StayFits
<1> QED
  BY <1>2, <1>3 DEF Get

LEMMA PostfixFits ==
  ASSUME NEW h, Before(h), Well, NEW s, Postfix(s)
  PROVE  Fits /\ Calm
<1> DEFINE b == blocks[cur]
           old == Mirror(b, b.syms[Find(b, s)].ins)
           pushed == PushStack(old)
           one == Emit(pushed, "lit", <<>>)
           new == Compute(one)
           set == SetSymbol(new, s, LastInstruction(new))
           x == Mirror(set, LastInstruction(old))
<1>1. at = "expr" /\ frames' = frames /\ scope' = scope
  BY DEF Postfix, Expression
<1>2. CASE blocks' = blocks /\ status' # "running"
  BY <1>2, StoppedFits
<1>3. CASE Holds(b, s) /\ Value(cur, [blocks EXCEPT ![cur] = x])
  <2>1. Value(cur, [blocks EXCEPT ![cur] = x])
    BY <1>3
  <2>2. Fields = DOMAIN b /\ Holds(b, s)
    BY <1>1, <1>3, ExprFacts
  <2> HIDE DEF b
  <2>3. Kin(old, b) /\ Fields = DOMAIN old
    BY <2>2, MirrorKin, KinFields
  <2> HIDE DEF old
  <2>4. Kin(pushed, b) /\ Fields = DOMAIN pushed
    BY <2>2, <2>3, StackKin, KinTrans, KinFields
  <2> HIDE DEF pushed
  <2>5. Kin(one, b) /\ Fields = DOMAIN one
    BY <2>2, <2>4, EmitKin, KinTrans, KinFields
  <2> HIDE DEF one
  <2>6. Kin(new, b) /\ Fields = DOMAIN new
    BY <2>2, <2>5, ComputeKin, KinTrans, KinFields
  <2> HIDE DEF new
  <2>7. Kin(set, b) /\ Fields = DOMAIN set
    BY <2>2, <2>6, SymbolKin, KinHolds, KinTrans, KinFields
  <2> HIDE DEF set
  <2>8. Kin(x, b)
    BY <2>7, MirrorKin, KinTrans
  <2> HIDE DEF x
  <2> QED
    BY <1>1, <2>1, <2>8, StayFits DEF b
<1>4. \/ blocks' = blocks /\ status' # "running"
      \/ Holds(b, s) /\ Value(cur, [blocks EXCEPT ![cur] = x])
  BY DEF Postfix
<1> QED
  BY <1>2, <1>3, <1>4

\* Entering a call for an operand.
LEMMA OperandFits ==
  ASSUME NEW h, Before(h), Well, NEW k, NEW g \in Frames, Operand(k, g),
         g.k \in Expr \cap Mild, g.k # "compound", g.k # "call", g.scope = scope, Pending(g) = {}
  PROVE  Fits /\ Calm
<1>1. at = "expr" /\ at' = at /\ cur' = cur /\ blocks' = blocks /\ scope' = scope /\ Enter(g)
  BY DEF Operand, Expression
<1>2. More(Lists(blocks), Lists(blocks')) /\ Whole(blocks')
  <2>1. Kin(blocks[cur], blocks[cur])
    BY KinItself
  <2>2. [blocks EXCEPT ![cur] = blocks[cur]] = blocks
    BY <1>1, ExprFacts
  <2> QED
    BY <1>1, <2>1, <2>2, ExprFacts
<1>3. cur # NoBlock /\ at \notin Between
  BY <1>1, ExprFacts
<1>4. Calm
  <2>1. Kin(blocks[cur], blocks[cur]) /\ [blocks EXCEPT ![cur] = blocks[cur]] = blocks
    BY <1>1, ExprFacts, KinItself
  <2>2. \E x : Kin(x, blocks[cur]) /\ blocks' = [blocks EXCEPT ![cur] = x]
    BY <1>1, <2>1
  <2>3. \E f \in Frames : f.k \in Mild /\ Enter(f)
    BY <1>1
  <2> QED
    BY <1>1, <1>3, <2>2, <2>3, Zenon DEF Calm
<1> QED
  BY <1>1, <1>2, <1>3, <1>4, GoodEnter DEF Fits

\* A call as its operation sets it up.
LEMMA WithSym ==
  ASSUME NEW F \in Frames, NEW s \in Nat
  PROVE  LET g == [F EXCEPT !.sym = s]
         IN g \in Frames /\ g.k = F.k /\ g.scope = F.scope /\ g.sym = s
BY DEF Frames

LEMMA WithCount ==
  ASSUME NEW F \in Frames, NEW n \in Nat
  PROVE  LET g == [F EXCEPT !.n = n, !.oth = n]
         IN g \in Frames /\ g.k = F.k /\ g.scope = F.scope
BY DEF Frames

LEMMA WithDone ==
  ASSUME NEW F \in Frames, NEW n \in Nat, NEW d \in BOOLEAN
  PROVE  LET g == [F EXCEPT !.n = n, !.oth = n, !.done = d]
         IN g \in Frames /\ g.k = F.k /\ g.scope = F.scope
BY DEF Frames

LEMMA FrameScope ==
  ASSUME NEW h, Before(h), NEW k \in FrameKinds
  PROVE  Frame(k) \in Frames /\ Frame(k).k = k /\ Frame(k).scope = scope
<1>1. scope \in Seq(Nat)
  BY BeforeFacts
<1>2. Frame(k) \in Frames /\ Frame(k).k = k
  BY <1>1, FrameType
<1> QED
  BY <1>2 DEF Frame

LEMMA OperandsFit ==
  ASSUME NEW h, Before(h), Well,
         \/ \E s \in Visible : Set(s)
         \/ \E n \in 1 .. 2 : Linear(n)
         \/ InstanceOf \/ Ternary
         \/ \E n \in 2 .. 3 : SetElement(n)
         \/ \E n \in 1 .. 2, postfix \in BOOLEAN : UpdateElement(n, postfix)
  PROVE  Fits /\ Calm
<1> DEFINE K == {"set", "linear", "instanceof", "tcond", "element", "target"}
<1>1. \A k \in K : Frame(k) \in Frames /\ Frame(k).k = k /\ Frame(k).scope = scope
  BY FrameScope DEF FrameKinds
<1>2. ASSUME NEW j, NEW g \in Frames, g.k \in K, g.scope = scope, Operand(j, g)
      PROVE  Fits /\ Calm
  <2>1. g.k \in Expr \cap Mild /\ g.k # "compound" /\ g.k # "call"
    BY <1>2 DEF Expr, Mild
  <2>2. Pending(g) = {}
    BY <1>2, PendingIs
  <2> QED
    BY <1>2, <2>1, <2>2, OperandFits
<1>3. CASE \E s \in Visible : Set(s)
  <2>1. PICK s \in Visible : Set(s)
    BY <1>3
  <2>2. s \in Nat
    BY VisibleNat DEF Before
  <2> DEFINE g == [Frame("set") EXCEPT !.sym = s]
  <2>3. Operand("set", g)
    BY <2>1 DEF Set
  <2>4. g \in Frames /\ g.k \in K /\ g.scope = scope
    BY <1>1, <2>2, WithSym
  <2> QED
    BY <1>2, <2>3, <2>4
<1>4. CASE \E n \in 1 .. 2 : Linear(n)
  <2>1. PICK n \in 1 .. 2 : Operand("linear", [Frame("linear") EXCEPT !.n = n, !.oth = n])
    BY <1>4 DEF Linear
  <2> DEFINE F == Frame("linear")
           g == [F EXCEPT !.n = n, !.oth = n]
  <2>2. F \in Frames /\ F.k \in K /\ F.scope = scope /\ n \in Nat
    BY <1>1
  <2> HIDE DEF F, K
  <2>3. g \in Frames /\ g.k \in K /\ g.scope = scope
    BY <2>2, WithCount, Zenon
  <2> QED
    BY <1>2, <2>1, <2>3 DEF F
<1>5. CASE InstanceOf \/ Ternary
  BY <1>1, <1>2, <1>5 DEF InstanceOf, Ternary
<1>6. CASE \E n \in 2 .. 3 : SetElement(n)
  <2>1. PICK n \in 2 .. 3 : Operand("element", [Frame("element") EXCEPT !.n = n, !.oth = n])
    BY <1>6 DEF SetElement
  <2> DEFINE F == Frame("element")
           g == [F EXCEPT !.n = n, !.oth = n]
  <2>2. F \in Frames /\ F.k \in K /\ F.scope = scope /\ n \in Nat
    BY <1>1
  <2> HIDE DEF F, K
  <2>3. g \in Frames /\ g.k \in K /\ g.scope = scope
    BY <2>2, WithCount, Zenon
  <2> QED
    BY <1>2, <2>1, <2>3 DEF F
<1>7. CASE \E n \in 1 .. 2, postfix \in BOOLEAN : UpdateElement(n, postfix)
  <2>1. PICK n \in 1 .. 2, d \in BOOLEAN :
          Operand("update", [Frame("target") EXCEPT !.n = n, !.oth = n, !.done = d])
    BY <1>7, Zenon DEF UpdateElement
  <2> DEFINE F == Frame("target")
           g == [F EXCEPT !.n = n, !.oth = n, !.done = d]
  <2>2. F \in Frames /\ F.k \in K /\ F.scope = scope /\ n \in Nat
    BY <1>1
  <2> HIDE DEF F, K
  <2>3. g \in Frames /\ g.k \in K /\ g.scope = scope
    BY <2>2, WithDone, Zenon
  <2> QED
    BY <1>2, <2>1, <2>3 DEF F
<1> QED
  BY <1>3, <1>4, <1>5, <1>6, <1>7

\* The end of a call that leaves the list of its block as it is.
LEMMA LeaveFits ==
  ASSUME NEW h, Before(h), Well, Waiting(top.k), top.k \in Expr,
         NEW x, Kin(x, blocks[cur]), Value(cur, [blocks EXCEPT ![cur] = x]),
         frames' = Below, scope' = scope
  PROVE  Fits /\ Calm
<1>1. at = "value" /\ frames # <<>> /\ cur' = cur /\ at' = "value"
      /\ blocks' = [blocks EXCEPT ![cur] = x]
  BY DEF Waiting, Value, Produce
<1>2. Same(blocks, blocks') /\ More(Lists(blocks), Lists(blocks'))
  BY <1>1, ExprFacts
<1>3. Lists(blocks')[cur'] = Lists(blocks)[cur] /\ Whole(blocks')
  BY <1>1, <1>2 DEF Same
<1>4. cur # NoBlock /\ at' \notin Between
  BY <1>1, ExprFacts
<1>5. Calm
  BY <1>1, <1>4 DEF Calm
<1> QED
  BY <1>1, <1>2, <1>3, <1>4, <1>5, GoodLeave DEF Fits

\* A call goes on in the same block.
LEMMA SwapFits ==
  ASSUME NEW h, Before(h), Well, Waiting(top.k), top.k \in Expr \cap Mild,
         NEW x, Kin(x, blocks[cur]), blocks' = [blocks EXCEPT ![cur] = x],
         NEW g \in Frames, Replace(g), g.k \in Expr \cap Mild, g.k # "compound",
         g.scope = top.scope, Pending(g) \subseteq Pending(top),
         g.k = "call" => top.k = "call" /\ g.oth = top.oth,
         cur' = cur, at' = "expr", scope' = scope
  PROVE  Fits /\ Calm
<1>1. at = "value" /\ frames # <<>>
  BY DEF Waiting
<1>2. Same(blocks, blocks') /\ More(Lists(blocks), Lists(blocks'))
  BY <1>1, ExprFacts
<1>4. cur # NoBlock /\ at' \notin Between
  BY <1>1, ExprFacts
<1>5. Calm
  BY <1>1, <1>4 DEF Calm
<1> QED
  BY <1>1, <1>2, <1>4, <1>5, GoodSwap DEF Fits, Same

LEMMA CompoundFits ==
  ASSUME NEW h, Before(h), Well, NEW s \in Nat, Compound(s)
  PROVE  Fits /\ Calm
<1> DEFINE b == blocks[cur]
           old == Mirror(b, b.syms[Find(b, s)].ins)
           x == PushStack(old)
           F == Frame("compound")
           g == [F EXCEPT !.sym = s]
<1>1. at = "expr" /\ cur' = cur /\ at' = at /\ scope' = scope
  BY DEF Compound, Expression
<1>2. CASE blocks' = blocks /\ status' # "running"
  BY <1>2, StoppedFits
<1>3. CASE Holds(b, s) /\ Enter(g) /\ blocks' = [blocks EXCEPT ![cur] = x]
  <2>1. Fields = DOMAIN b
    BY <1>1, ExprFacts
  <2>2. F \in Frames /\ F.k = "compound" /\ F.scope = scope
    BY FrameScope DEF FrameKinds
  <2> HIDE DEF F
  <2>3. g \in Frames /\ g.k = "compound" /\ g.scope = scope /\ g.sym = s
    BY <2>2, WithSym
  <2>4. g.k \in Mild \cap Expr /\ Pending(g) = {}
    BY <2>3, PendingIs DEF Mild, Expr
  <2> HIDE DEF g, b
  <2>5. Kin(old, b) /\ Fields = DOMAIN old
    BY <2>1, MirrorKin, KinFields
  <2> HIDE DEF old
  <2>6. Kin(x, b)
    BY <2>5, StackKin, KinTrans
  <2> HIDE DEF x
  <2>7. More(Lists(blocks), Lists(blocks')) /\ Whole(blocks')
    BY <1>1, <1>3, <2>6, ExprFacts DEF b, Same
  <2>8. cur # NoBlock /\ at \notin Between /\ Holds(blocks[cur], g.sym)
    BY <1>1, <1>3, <2>3, ExprFacts DEF b
  <2>9. Calm
    <3>1. \E y : Kin(y, blocks[cur]) /\ blocks' = [blocks EXCEPT ![cur] = y]
      BY <1>3, <2>6 DEF b
    <3>2. \E f \in Frames : f.k \in Mild /\ Enter(f)
      BY <1>3, <2>3, <2>4
    <3> QED
      BY <1>1, <2>8, <3>1, <3>2, Zenon DEF Calm
  <2> QED
    BY <1>1, <1>3, <2>3, <2>4, <2>7, <2>8, <2>9, GoodEnter DEF Fits
<1>4. \/ blocks' = blocks /\ status' # "running"
      \/ Holds(b, s) /\ Enter(g) /\ blocks' = [blocks EXCEPT ![cur] = x]
  BY DEF Compound, Produce
<1> QED
  BY <1>2, <1>3, <1>4

LEMMA EndSetFits ==
  ASSUME NEW h, Before(h), Well, EndSet
  PROVE  Fits /\ Calm
<1>1. Waiting("set") /\ at = "value" /\ scope' = scope /\ top.k = "set"
  BY DEF EndSet, Returned, Waiting
<1>2. CASE blocks' = blocks /\ status' # "running"
  BY <1>2, StoppedFits
<1> DEFINE x == SetSymbol(blocks[cur], top.sym, LastInstruction(blocks[cur]))
<1>3. CASE /\ Holds(blocks[cur], top.sym) /\ frames' = Below
           /\ Value(cur, [blocks EXCEPT ![cur] = x])
  <2>1. Kin(x, blocks[cur])
    BY <1>1, <1>3, ExprFacts, SymbolKin
  <2> QED
    BY <1>1, <1>3, <2>1, LeaveFits DEF Expr
<1> QED
  BY <1>2, <1>3 DEF EndSet, Assign

LEMMA EndCompoundFits ==
  ASSUME NEW h, Before(h), Well, EndCompound
  PROVE  Fits /\ Calm
<1> DEFINE b == blocks[cur]
           new == Compute(b)
           x == SetSymbol(new, top.sym, LastInstruction(new))
<1>1. Waiting("compound") /\ at = "value" /\ scope' = scope /\ top.k = "compound"
      /\ frames' = Below /\ frames # <<>> /\ Value(cur, [blocks EXCEPT ![cur] = x])
  BY DEF EndCompound, Returned, Waiting
<1>2. Holds(b, top.sym) /\ Fields = DOMAIN b
  <2>1. Targets(Lists(blocks), cur, frames) /\ Len(frames) \in DOMAIN frames
        /\ top = frames[Len(frames)]
    BY <1>1, BeforeFacts
  <2>2. \E q \in DOMAIN Lists(blocks)[cur] : Lists(blocks)[cur][q] = top.sym
    BY <1>1, <2>1 DEF Targets
  <2>3. cur \in DOMAIN blocks /\ Fields = DOMAIN b
    BY <1>1, ExprFacts
  <2> QED
    BY <2>2, <2>3, HoldsNames DEF Lists
<1>3. Kin(new, b) /\ Fields = DOMAIN new
  BY <1>2, ComputeKin, KinFields
<1>4. Kin(x, b)
  <2> HIDE DEF new
  <2> QED
    BY <1>2, <1>3, SymbolKin, KinHolds, KinTrans
<1> QED
  BY <1>1, <1>4, LeaveFits DEF Expr

LEMMA EndInstanceOfFits ==
  ASSUME NEW h, Before(h), Well, EndInstanceOf
  PROVE  Fits /\ Calm
<1> DEFINE x == Emit(blocks[cur], "is", <<NextInstruction(blocks[cur])>>)
<1>1. Waiting("instanceof") /\ at = "value" /\ scope' = scope /\ top.k = "instanceof"
      /\ frames' = Below /\ Value(cur, [blocks EXCEPT ![cur] = x])
  BY DEF EndInstanceOf, Returned, Waiting
<1>2. Kin(x, blocks[cur])
  BY <1>1, ExprFacts, EmitKin
<1> QED
  BY <1>1, <1>2, LeaveFits DEF Expr

\* A call that waits for one operand fewer.
LEMMA LessFrame ==
  ASSUME NEW f \in Frames, f.n > 1, f.k \in {"linear", "element", "target", "call"}
  PROVE  LET g == [f EXCEPT !.n = f.n - 1]
         IN /\ g \in Frames /\ g.k \in Expr \cap Mild /\ g.k # "compound"
            /\ g.scope = f.scope /\ Pending(g) = Pending(f) /\ g.k = f.k /\ g.oth = f.oth
<1> DEFINE g == [f EXCEPT !.n = f.n - 1]
<1>1. g \in Frames /\ g.k = f.k /\ g.oth = f.oth
  BY FrameLess
<1>2. g.scope = f.scope
  BY DEF Frames
<1> HIDE DEF g
<1>3. Pending(g) = Pending(f)
  BY <1>1, PendingIs
<1> QED
  BY <1>1, <1>2, <1>3 DEF g, Expr, Mild

LEMMA MoreFits ==
  ASSUME NEW h, Before(h), Well, at = "value", frames # <<>>,
         top.k \in {"linear", "element", "target", "call"}, top.n > 1,
         Replace([top EXCEPT !.n = top.n - 1]), at' = "expr", cur' = cur, scope' = scope,
         blocks' = [blocks EXCEPT ![cur] = PushStack(blocks[cur])]
  PROVE  Fits /\ Calm
<1> DEFINE g == [top EXCEPT !.n = top.n - 1]
           x == PushStack(blocks[cur])
<1>1. top \in Frames
  BY BeforeFacts
<1>2. /\ g \in Frames /\ g.k \in Expr \cap Mild /\ g.k # "compound"
      /\ g.scope = top.scope /\ Pending(g) = Pending(top) /\ g.k = top.k /\ g.oth = top.oth
  BY <1>1, LessFrame
<1>3. Kin(x, blocks[cur])
  BY ExprFacts, StackKin
<1>4. Waiting(top.k) /\ top.k \in Expr \cap Mild
  BY DEF Waiting, Expr, Mild
<1>5. Replace(g) /\ blocks' = [blocks EXCEPT ![cur] = x]
  OBVIOUS
<1> HIDE DEF g, x
<1> QED
  BY <1>2, <1>3, <1>4, <1>5, SwapFits

LEMMA EndOperandFits ==
  ASSUME NEW h, Before(h), Well, EndOperand
  PROVE  Fits /\ Calm
<1>1. at = "value" /\ frames # <<>> /\ Waiting(top.k) /\ top.k = "linear" /\ scope' = scope
  BY DEF EndOperand, Returned, Waiting
<1>2. CASE top.n > 1
  <2>1. /\ Replace([top EXCEPT !.n = top.n - 1]) /\ at' = "expr" /\ cur' = cur
        /\ blocks' = [blocks EXCEPT ![cur] = PushStack(blocks[cur])]
    BY <1>2 DEF EndOperand, Produce
  <2> QED
    BY <1>1, <1>2, <2>1, MoreFits
<1>3. CASE ~(top.n > 1)
  <2> DEFINE b == PushStack(blocks[cur])
             args == [i \in 1 .. top.oth |-> b.stack[top.oth + 1 - i]]
             popped == PopStack(b, top.oth)
             x == Emit(popped, "calc", args)
  <2>1. frames' = Below /\ Value(cur, [blocks EXCEPT ![cur] = x])
    BY <1>3 DEF EndOperand
  <2>2. Fields = DOMAIN blocks[cur]
    BY <1>1, ExprFacts
  <2>3. Kin(b, blocks[cur]) /\ Fields = DOMAIN b
    BY <2>2, StackKin, KinFields
  <2> HIDE DEF b
  <2>4. Kin(popped, blocks[cur]) /\ Fields = DOMAIN popped
    BY <2>2, <2>3, StackKin, KinTrans, KinFields
  <2> HIDE DEF popped
  <2>5. Kin(x, blocks[cur])
    BY <2>4, EmitKin, KinTrans
  <2> HIDE DEF x
  <2> QED
    BY <1>1, <2>1, <2>5, LeaveFits DEF Expr
<1> QED
  BY <1>2, <1>3

LEMMA EndElementFits ==
  ASSUME NEW h, Before(h), Well, EndElement
  PROVE  Fits /\ Calm
<1>1. at = "value" /\ frames # <<>> /\ Waiting(top.k) /\ top.k = "element" /\ scope' = scope
  BY DEF EndElement, Returned, Waiting
<1>2. CASE top.n > 1
  <2>1. /\ Replace([top EXCEPT !.n = top.n - 1]) /\ at' = "expr" /\ cur' = cur
        /\ blocks' = [blocks EXCEPT ![cur] = PushStack(blocks[cur])]
    BY <1>2 DEF EndElement, Produce
  <2> QED
    BY <1>1, <1>2, <2>1, MoreFits
<1>3. CASE ~(top.n > 1)
  <2> DEFINE x == Store(blocks[cur], top.oth)
  <2>1. frames' = Below /\ Value(cur, [blocks EXCEPT ![cur] = x])
    BY <1>3 DEF EndElement
  <2>2. Kin(x, blocks[cur])
    BY <1>1, ExprFacts, StoreKin
  <2> HIDE DEF x
  <2> QED
    BY <1>1, <2>1, <2>2, LeaveFits DEF Expr
<1> QED
  BY <1>2, <1>3

LEMMA EndUpdateFits ==
  ASSUME NEW h, Before(h), Well, EndUpdate
  PROVE  Fits /\ Calm
<1> DEFINE r == Restore(blocks[cur], top.oth)
           x == Mirror(r, LastInstruction(r) - 1)
<1>1. at = "value" /\ frames # <<>> /\ Waiting(top.k) /\ top.k = "update" /\ scope' = scope
      /\ frames' = Below /\ Value(cur, [blocks EXCEPT ![cur] = x])
  BY DEF EndUpdate, Returned, Waiting
<1>2. Fields = DOMAIN blocks[cur]
  BY <1>1, ExprFacts
<1>3. Kin(r, blocks[cur]) /\ Fields = DOMAIN r
  BY <1>2, RestoreKin, KinFields
<1>4. Kin(x, blocks[cur])
  <2> HIDE DEF r
  <2> QED
    BY <1>3, MirrorKin, KinTrans
<1> HIDE DEF x
<1> QED
  BY <1>1, <1>4, LeaveFits DEF Expr

LEMMA EndTargetFits ==
  ASSUME NEW h, Before(h), Well, EndTarget
  PROVE  Fits /\ Calm
<1> DEFINE old == Load(blocks[cur], top.oth)
<1>1. at = "value" /\ frames # <<>> /\ Waiting(top.k) /\ top.k = "target" /\ scope' = scope
  BY DEF EndTarget, Returned, Waiting
<1>2. Fields = DOMAIN blocks[cur]
  BY <1>1, ExprFacts
<1>3. Kin(old, blocks[cur]) /\ Fields = DOMAIN old
  BY <1>2, LoadKin, KinFields
<1>4. CASE top.n > 1
  <2>1. /\ Replace([top EXCEPT !.n = top.n - 1]) /\ at' = "expr" /\ cur' = cur
        /\ blocks' = [blocks EXCEPT ![cur] = PushStack(blocks[cur])]
    BY <1>4 DEF EndTarget, Produce
  <2> QED
    BY <1>1, <1>4, <2>1, MoreFits
<1>5. CASE ~(top.n > 1) /\ top.done
  <2> DEFINE one == Emit(old, "lit", <<>>)
             new == Restore(one, top.oth)
             x == Mirror(new, old.stack[1])
  <2>1. frames' = Below /\ Value(cur, [blocks EXCEPT ![cur] = x])
    BY <1>5 DEF EndTarget
  <2> HIDE DEF old
  <2>2. Kin(one, blocks[cur]) /\ Fields = DOMAIN one
    BY <1>3, EmitKin, KinTrans, KinFields
  <2> HIDE DEF one
  <2>3. Kin(new, blocks[cur]) /\ Fields = DOMAIN new
    BY <2>2, RestoreKin, KinTrans, KinFields
  <2> HIDE DEF new
  <2>4. Kin(x, blocks[cur])
    BY <2>3, MirrorKin, KinTrans
  <2> HIDE DEF x
  <2> QED
    BY <1>1, <2>1, <2>4, LeaveFits DEF Expr
<1>6. CASE ~(top.n > 1) /\ ~top.done
  <2> DEFINE g == [top EXCEPT !.k = "update"]
  <2>1. Replace(g) /\ at' = "expr" /\ cur' = cur /\ blocks' = [blocks EXCEPT ![cur] = old]
    BY <1>6 DEF EndTarget, Produce
  <2> HIDE DEF old
  <2>2. top \in Frames
    BY <1>1, BeforeFacts
  <2>3. g \in Frames /\ g.k = "update" /\ g.scope = top.scope
    BY <2>2 DEF Frames, FrameKinds
  <2> HIDE DEF g
  <2>4. Pending(g) = {} /\ g.k \in Expr \cap Mild /\ g.k # "compound"
    BY <2>3, PendingIs DEF Expr, Mild
  <2>5. top.k \in Expr \cap Mild
    BY <1>1 DEF Expr, Mild
  <2> QED
    BY <1>1, <1>3, <2>1, <2>3, <2>4, <2>5, SwapFits
<1> QED
  BY <1>4, <1>5, <1>6

-----------------------------------------------------------------------------
(* What the operations on several blocks do to the lists.                  *)

\* The blocks there were keep their names, and what has a value.
Keeps(bs, bs2) ==
  /\ bs2 \in Seq(Block) /\ Len(bs) <= Len(bs2)
  /\ \A b \in DOMAIN bs : Kin(bs2[b], bs[b])

LEMMA KeepsLists ==
  ASSUME NEW bs \in Seq(Block), NEW bs2, Keeps(bs, bs2)
  PROVE  /\ More(Lists(bs), Lists(bs2))
         /\ Whole(bs) /\ (\A b \in DOMAIN bs2 \ DOMAIN bs : bs2[b].made \notin {"short", "mismatched"}) => Whole(bs2)
<1>1. bs2 \in Seq(Block) /\ Len(bs) <= Len(bs2)
  BY DEF Keeps
<1>2. DOMAIN bs \subseteq DOMAIN bs2
  BY <1>1
<1>3. \A b \in DOMAIN bs : Names(bs2[b].syms) = Names(bs[b].syms) /\ bs2[b].made = bs[b].made
  BY DEF Keeps, Kin
<1>4. \A b \in DOMAIN bs : Lists(bs2)[b] = Lists(bs)[b]
  BY <1>2, <1>3 DEF Lists
<1>5. /\ Lists(bs2) \in Seq(Seq(Nat)) /\ Len(Lists(bs2)) = Len(bs2)
      /\ Len(Lists(bs)) = Len(bs) /\ DOMAIN Lists(bs) = DOMAIN bs
  BY <1>1, ListsType
<1>6. More(Lists(bs), Lists(bs2))
  BY <1>1, <1>4, <1>5 DEF More
<1> QED
  BY <1>3, <1>6 DEF Whole

LEMMA KeepsTrans ==
  ASSUME NEW bs \in Seq(Block), NEW bs1, NEW bs2, Keeps(bs, bs1), Keeps(bs1, bs2)
  PROVE  Keeps(bs, bs2)
<1>1. bs1 \in Seq(Block) /\ bs2 \in Seq(Block) /\ Len(bs) <= Len(bs1) /\ Len(bs1) <= Len(bs2)
  BY DEF Keeps
<1>2. \A b \in DOMAIN bs : b \in DOMAIN bs1
  BY <1>1
<1>3. \A b \in DOMAIN bs : Kin(bs2[b], bs[b])
  BY <1>2, KinTrans DEF Keeps
<1> QED
  BY <1>1, <1>3 DEF Keeps

LEMMA KeepsSame ==
  ASSUME NEW bs \in Seq(Block)
  PROVE  Keeps(bs, bs)
BY KinItself DEF Keeps

LEMMA JoinToKin ==
  ASSUME NEW b \in Block, NEW d, NEW dest
  PROVE  Kin(JoinTo(b, d, dest), b)
<1> DEFINE r == AddBlockref(b, d)
           i == InjectParams(b, dest)
           t == [type |-> "goto", cond |-> 0, first |-> LastInstruction(r),
                 second |-> 0, live |-> i.live, args |-> i.args, inject |-> i.inject]
<1>1. Fields = DOMAIN b
  BY BlockFielded
<1>2. Kin(r, b) /\ Fields = DOMAIN r
  BY <1>1, BlockrefKin, KinFields
<1>3. JoinTo(b, d, dest) = [r EXCEPT !.tail = t]
  BY DEF JoinTo
<1> HIDE DEF r, t
<1>4. Kin([r EXCEPT !.tail = t], r)
  BY <1>2, TailKin
<1> QED
  BY <1>2, <1>3, <1>4, KinTrans

LEMMA JoinKeeps ==
  ASSUME NEW bs \in Seq(Block), NEW S \in SUBSET DOMAIN bs, NEW d \in DOMAIN bs
  PROVE  Keeps(bs, JoinBlocks(bs, S, d)) /\ Len(JoinBlocks(bs, S, d)) = Len(bs)
<1> DEFINE bs2 == JoinBlocks(bs, S, d)
<1>1. bs2 \in Seq(Block) /\ Len(bs2) = Len(bs)
  <2>1. Effect(bs, bs2, S, 0)
    BY JoinBlocksEffect
  <2> HIDE DEF bs2
  <2>2. bs2 \in Seq(Block) /\ Len(bs2) = Len(bs) + 0 /\ Len(bs) \in Nat
    BY <2>1 DEF Effect
  <2> QED
    BY <2>2
<1>2. ASSUME NEW b \in DOMAIN bs
      PROVE  Kin(bs2[b], bs[b])
  <2>1. bs[b] \in Block
    OBVIOUS
  <2>2. bs2[b] = IF b \in S THEN JoinTo(bs[b], d, bs[d]) ELSE bs[b]
    BY DEF JoinBlocks
  <2> QED
    BY <2>1, <2>2, JoinToKin, KinItself
<1> QED
  BY <1>1, <1>2 DEF Keeps

LEMMA BranchKeeps ==
  ASSUME NEW bs \in Seq(Block), NEW p \in DOMAIN bs, NEW f \in DOMAIN bs, NEW s \in DOMAIN bs
  PROVE  Keeps(bs, BranchBlock(bs, p, f, s)) /\ Len(BranchBlock(bs, p, f, s)) = Len(bs)
<1> DEFINE bs2 == BranchBlock(bs, p, f, s)
           q == AddBlockref(bs[p], f)
           r == AddBlockref(q, s)
           i == InjectParams(bs[p], bs[f])
           t == [type |-> "branch", cond |-> LastInstruction(bs[p]),
                 first |-> LastInstruction(r) - 1, second |-> LastInstruction(r),
                 live |-> i.live, args |-> i.args, inject |-> i.inject]
           x == [r EXCEPT !.tail = t]
<1>1. bs2 \in Seq(Block) /\ Len(bs2) = Len(bs) + 0
  BY BranchBlockEffect DEF Effect
<1>2. bs2 = [bs EXCEPT ![p] = x]
  BY DEF BranchBlock
<1>3. Fields = DOMAIN bs[p]
  BY BlockFielded
<1>4. Kin(q, bs[p]) /\ Fields = DOMAIN q
  BY <1>3, BlockrefKin, KinFields
<1>5. Kin(r, bs[p]) /\ Fields = DOMAIN r
  <2> HIDE DEF q
  <2> QED
    BY <1>4, BlockrefKin, KinFields, KinTrans
<1>6. Kin(x, bs[p])
  <2> HIDE DEF r, t
  <2> QED
    BY <1>5, TailKin, KinTrans
<1> HIDE DEF x, bs2
<1>7. \A b \in DOMAIN bs : Kin(bs2[b], bs[b])
  BY <1>2, <1>6, KinItself
<1>8. Len(bs2) = Len(bs)
  BY <1>1
<1> QED
  BY <1>1, <1>7, <1>8 DEF Keeps, bs2

LEMMA ChildNames ==
  ASSUME NEW bs \in Seq(Block), NEW c \in DOMAIN bs, NEW ps
  PROVE  LET x == ChildBlock(bs, c, ps)
         IN /\ Names(x.syms) = Names(bs[c].syms)
            /\ x.made \in {"short", "mismatched"} =>
                 \E i \in DOMAIN ps :
                   \/ Len(bs[ps[i]].syms) < Len(bs[c].syms)
                   \/ \E q \in DOMAIN bs[c].syms : bs[ps[i]].syms[q].s # bs[c].syms[q].s
<1>1. Names(ChildBlock(bs, c, ps).syms) = Names(bs[c].syms)
  BY DEF ChildBlock, Names, EmptyBlock
<1>2. ChildBlock(bs, c, ps).made =
        IF \E i \in DOMAIN ps : Len(bs[ps[i]].syms) < Len(bs[c].syms) THEN "short"
        ELSE IF \E i \in DOMAIN ps, q \in DOMAIN bs[c].syms :
                  bs[ps[i]].syms[q].s # bs[c].syms[q].s THEN "mismatched"
        ELSE IF bs[ps[1]].stack # <<>>
                  /\ One(bs[c].hasRet) + Cardinality(Common(bs, c, ps)) = 0 THEN "endless"
        ELSE "ok"
  BY DEF ChildBlock, EmptyBlock
<1> QED
  BY <1>1, <1>2

\* The lists of the parents begin with that of the context.
Fitting(bs, c, ps) == \A b \in Blocks(ps) : Begins(Lists(bs)[c], Lists(bs)[b])

LEMMA FittingChild ==
  ASSUME NEW bs \in Seq(Block), NEW c \in DOMAIN bs, NEW ps, Blocks(ps) \subseteq DOMAIN bs,
         Fitting(bs, c, ps)
  PROVE  ChildBlock(bs, c, ps).made \notin {"short", "mismatched"}
<1>1. \A b \in DOMAIN bs : /\ Len(Lists(bs)[b]) = Len(bs[b].syms) /\ Len(bs[b].syms) \in Nat
                           /\ Lists(bs)[b] = Names(bs[b].syms)
                           /\ DOMAIN bs[b].syms = 1 .. Len(bs[b].syms)
  <2>1. ASSUME NEW b \in DOMAIN bs PROVE DOMAIN bs[b].syms = 1 .. Len(bs[b].syms)
    <3>1. bs[b] \in Block
      OBVIOUS
    <3>2. bs[b].syms \in Seq(Entry)
      BY <3>1 DEF Block
    <3> QED
      BY <3>2
  <2> QED
    BY <2>1, ListsType
<1> SUFFICES ASSUME NEW i \in DOMAIN ps
             PROVE  /\ ~(Len(bs[ps[i]].syms) < Len(bs[c].syms))
                    /\ \A q \in DOMAIN bs[c].syms : bs[ps[i]].syms[q].s = bs[c].syms[q].s
  BY ChildNames
<1>2. ps[i] \in DOMAIN bs /\ Begins(Lists(bs)[c], Lists(bs)[ps[i]])
  BY DEF Fitting, Blocks
<1>3. Len(bs[c].syms) <= Len(bs[ps[i]].syms)
  BY <1>1, <1>2 DEF Begins
<1>4. ASSUME NEW q \in DOMAIN bs[c].syms
      PROVE  bs[ps[i]].syms[q].s = bs[c].syms[q].s
  <2>1. q \in 1 .. Len(bs[c].syms) /\ q \in DOMAIN bs[ps[i]].syms
    BY <1>1, <1>2, <1>3
  <2>2. Names(bs[ps[i]].syms)[q] = Names(bs[c].syms)[q]
    BY <1>1, <1>2, <2>1 DEF Begins
  <2> QED
    BY <2>1, <2>2 DEF Names
<1> QED
  BY <1>1, <1>2, <1>3, <1>4

LEMMA AppendKeeps ==
  ASSUME NEW bs \in Seq(Block), NEW new \in Seq(Block)
  PROVE  /\ Keeps(bs, bs \o new) /\ Len(bs \o new) = Len(bs) + Len(new)
         /\ \A i \in DOMAIN new : (bs \o new)[Len(bs) + i] = new[i]
         /\ \A b \in DOMAIN (bs \o new) \ DOMAIN bs : \E i \in DOMAIN new : (bs \o new)[b] = new[i]
<1> DEFINE bs2 == bs \o new
<1>1. bs2 \in Seq(Block) /\ Len(bs2) = Len(bs) + Len(new) /\ Len(bs) <= Len(bs2)
  OBVIOUS
<1>2. \A b \in DOMAIN bs : bs2[b] = bs[b]
  OBVIOUS
<1>3. \A i \in DOMAIN new : bs2[Len(bs) + i] = new[i]
  OBVIOUS
<1>4. ASSUME NEW b \in DOMAIN bs2 \ DOMAIN bs
      PROVE  \E i \in DOMAIN new : bs2[b] = new[i]
  <2>1. b - Len(bs) \in DOMAIN new /\ bs2[b] = new[b - Len(bs)]
    OBVIOUS
  <2> QED
    BY <2>1
<1> HIDE DEF bs2
<1>5. Keeps(bs, bs2)
  BY <1>1, <1>2, KinItself DEF Keeps
<1> QED
  BY <1>1, <1>3, <1>4, <1>5 DEF bs2

LEMMA TangleKeeps ==
  ASSUME NEW bs \in Seq(Block), NEW c \in DOMAIN bs, NEW ps,
         Blocks(ps) \subseteq DOMAIN bs, 1 \in DOMAIN ps
  PROVE  LET bs2 == TangleBlocks(bs, c, ps)
             d == Len(bs) + 1
         IN /\ Keeps(bs, bs2) /\ Len(bs2) = d /\ d \in DOMAIN bs2 /\ d \notin DOMAIN bs
            /\ Lists(bs2)[d] = Lists(bs)[c]
            /\ Whole(bs) /\ Fitting(bs, c, ps) => Whole(bs2)
<1> DEFINE x == ChildBlock(bs, c, ps)
           bs1 == Append(bs, x)
           d == Len(bs) + 1
           bs2 == JoinBlocks(bs1, Blocks(ps), d)
<1>1. x \in Block
  <2>1. ps[1] \in DOMAIN bs
    BY DEF Blocks
  <2> QED
    BY <2>1, ChildBlockBlock
<1>2. Names(x.syms) = Names(bs[c].syms) /\ (Fitting(bs, c, ps) => x.made \notin {"short", "mismatched"})
  BY ChildNames, FittingChild
<1> HIDE DEF x
<1>3. /\ bs1 \in Seq(Block) /\ Len(bs1) = d /\ d \in DOMAIN bs1 /\ d \notin DOMAIN bs
      /\ bs1[d] = x /\ \A b \in DOMAIN bs : bs1[b] = bs[b] /\ b \in DOMAIN bs1
      /\ \A b \in DOMAIN bs1 \ DOMAIN bs : b = d
      /\ Len(bs) <= Len(bs1)
  BY <1>1
<1>4. Keeps(bs, bs1)
  BY <1>3, KinItself DEF Keeps
<1> HIDE DEF bs1, d
<1>5. Keeps(bs1, bs2) /\ Len(bs2) = Len(bs1)
  <2>1. Blocks(ps) \in SUBSET DOMAIN bs1
    BY <1>3
  <2> QED
    BY <1>3, <2>1, JoinKeeps
<1>6. Keeps(bs, bs2)
  BY <1>4, <1>5, KeepsTrans
<1>7. DOMAIN bs2 = DOMAIN bs1
  BY DEF bs2, JoinBlocks
<1> HIDE DEF bs2
<1>8. Kin(bs2[d], x)
  BY <1>3, <1>5 DEF Keeps
<1>9. Lists(bs2)[d] = Lists(bs)[c]
  BY <1>2, <1>3, <1>7, <1>8 DEF Kin, Lists
<1>10. Whole(bs) /\ Fitting(bs, c, ps) => Whole(bs2)
  <2>1. Fitting(bs, c, ps) => \A b \in DOMAIN bs2 \ DOMAIN bs : bs2[b].made \notin {"short", "mismatched"}
    BY <1>2, <1>3, <1>7, <1>8 DEF Kin
  <2> QED
    BY <1>6, <2>1, KeepsLists
<1>11. TangleBlocks(bs, c, ps) = bs2
  BY DEF TangleBlocks, bs2, bs1, d, x
<1> QED
  BY <1>3, <1>5, <1>6, <1>7, <1>9, <1>10, <1>11 DEF d

\* Two children, before their parents go on to them.
Pair(bs, c, ps) == bs \o <<ChildBlock(bs, c, ps), ChildBlock(bs, c, ps)>>

LEMMA PairKeeps ==
  ASSUME NEW bs \in Seq(Block), NEW c \in DOMAIN bs, NEW ps,
         Blocks(ps) \subseteq DOMAIN bs, 1 \in DOMAIN ps,
         NEW bs2, Keeps(Pair(bs, c, ps), bs2), Len(bs2) = Len(Pair(bs, c, ps))
  PROVE  LET d == Len(bs) + 1
             e == Len(bs) + 2
         IN /\ Keeps(bs, bs2) /\ Len(bs2) = e
            /\ d \in DOMAIN bs2 /\ e \in DOMAIN bs2 /\ d \notin DOMAIN bs /\ e \notin DOMAIN bs
            /\ Lists(bs2)[d] = Lists(bs)[c] /\ Lists(bs2)[e] = Lists(bs)[c]
            /\ Whole(bs) /\ Fitting(bs, c, ps) => Whole(bs2)
<1> DEFINE x == ChildBlock(bs, c, ps)
           bs1 == Pair(bs, c, ps)
           d == Len(bs) + 1
           e == Len(bs) + 2
<1>1. x \in Block
  <2>1. ps[1] \in DOMAIN bs
    BY DEF Blocks
  <2> QED
    BY <2>1, ChildBlockBlock
<1>2. Names(x.syms) = Names(bs[c].syms) /\ (Fitting(bs, c, ps) => x.made \notin {"short", "mismatched"})
  BY ChildNames, FittingChild
<1>3. bs1 = bs \o <<x, x>>
  BY DEF Pair
<1> HIDE DEF x, bs1
<1>4. /\ bs1 \in Seq(Block) /\ Len(bs1) = e /\ d \in DOMAIN bs1 /\ e \in DOMAIN bs1
      /\ d \notin DOMAIN bs /\ e \notin DOMAIN bs
      /\ bs1[d] = x /\ bs1[e] = x /\ \A b \in DOMAIN bs : bs1[b] = bs[b] /\ b \in DOMAIN bs1
      /\ \A b \in DOMAIN bs1 \ DOMAIN bs : b = d \/ b = e
      /\ Len(bs) <= Len(bs1)
  <2>1. bs1 \in Seq(Block) /\ Len(bs1) = e /\ Len(bs) \in Nat /\ Len(bs) <= Len(bs1)
    BY <1>1, <1>3
  <2>2. DOMAIN bs1 = 1 .. e /\ DOMAIN bs = 1 .. Len(bs)
    BY <2>1
  <2>3. bs1[d] = x /\ bs1[e] = x
    BY <1>1, <1>3
  <2>4. \A b \in DOMAIN bs : bs1[b] = bs[b]
    BY <1>1, <1>3
  <2>5. /\ d \in 1 .. e /\ e \in 1 .. e /\ d \notin 1 .. Len(bs) /\ e \notin 1 .. Len(bs)
        /\ \A b \in (1 .. e) \ (1 .. Len(bs)) : b = d \/ b = e
        /\ \A b \in 1 .. Len(bs) : b \in 1 .. e
    BY <2>1
  <2> HIDE DEF d, e
  <2> QED
    BY <2>1, <2>2, <2>3, <2>4, <2>5
<1>5. Keeps(bs, bs1) /\ Keeps(bs1, bs2) /\ Len(bs2) = Len(bs1)
  BY <1>4, KinItself DEF Keeps, bs1
<1>6. Keeps(bs, bs2)
  BY <1>5, KeepsTrans
<1>7. DOMAIN bs2 = DOMAIN bs1
  BY <1>4, <1>5 DEF Keeps
<1> HIDE DEF d, e
<1>8. Kin(bs2[d], x) /\ Kin(bs2[e], x)
  BY <1>4, <1>5 DEF Keeps
<1>9. Lists(bs2)[d] = Lists(bs)[c] /\ Lists(bs2)[e] = Lists(bs)[c]
  BY <1>2, <1>4, <1>7, <1>8 DEF Kin, Lists
<1>10. Whole(bs) /\ Fitting(bs, c, ps) => Whole(bs2)
  <2>1. Fitting(bs, c, ps) => \A b \in DOMAIN bs2 \ DOMAIN bs : bs2[b].made \notin {"short", "mismatched"}
    BY <1>2, <1>4, <1>7, <1>8 DEF Kin
  <2> QED
    BY <1>6, <2>1, KeepsLists
<1> QED
  BY <1>4, <1>6, <1>7, <1>9, <1>10 DEF d, e, bs1

LEMMA FittingSelf ==
  ASSUME NEW bs \in Seq(Block), NEW c \in DOMAIN bs
  PROVE  Fitting(bs, c, <<c>>) /\ Blocks(<<c>>) = {c}
<1>1. Blocks(<<c>>) = {c}
  BY DEF Blocks
<1>2. Lists(bs)[c] \in Seq(Nat)
  BY ListsType
<1> QED
  BY <1>1, <1>2, BeginsItself DEF Fitting

LEMMA ForkKeeps ==
  ASSUME NEW bs \in Seq(Block), NEW c \in DOMAIN bs
  PROVE  LET bs2 == ForkBlock(bs, c)
             d == Len(bs) + 1
         IN /\ Keeps(bs, bs2) /\ Len(bs2) = d /\ d \in DOMAIN bs2 /\ d \notin DOMAIN bs
            /\ Lists(bs2)[d] = Lists(bs)[c]
            /\ Whole(bs) => Whole(bs2)
<1>1. Fitting(bs, c, <<c>>) /\ Blocks(<<c>>) \subseteq DOMAIN bs /\ 1 \in DOMAIN <<c>>
  BY FittingSelf
<1> QED
  BY <1>1, TangleKeeps DEF ForkBlock

LEMMA BranchIntoKeeps ==
  ASSUME NEW bs \in Seq(Block), NEW p \in DOMAIN bs
  PROVE  LET bs2 == BranchInto(bs, p)
             d == Len(bs) + 1
             e == Len(bs) + 2
         IN /\ Keeps(bs, bs2) /\ Len(bs2) = e
            /\ d \in DOMAIN bs2 /\ e \in DOMAIN bs2 /\ d \notin DOMAIN bs /\ e \notin DOMAIN bs
            /\ Lists(bs2)[d] = Lists(bs)[p] /\ Lists(bs2)[e] = Lists(bs)[p]
            /\ Whole(bs) => Whole(bs2)
<1> DEFINE x == ChildBlock(bs, p, <<p>>)
           bs1 == Pair(bs, p, <<p>>)
           bs2 == BranchBlock(bs1, p, Len(bs) + 1, Len(bs) + 2)
<1>1. Fitting(bs, p, <<p>>) /\ Blocks(<<p>>) \subseteq DOMAIN bs /\ 1 \in DOMAIN <<p>>
      /\ <<p>>[1] \in DOMAIN bs
  BY FittingSelf
<1>2. x \in Block
  BY <1>1, ChildBlockBlock
<1>3. bs1 = bs \o <<x, x>> /\ BranchInto(bs, p) = bs2
  BY DEF BranchInto, Pair
<1>4. bs1 \in Seq(Block) /\ p \in DOMAIN bs1 /\ Len(bs) + 1 \in DOMAIN bs1
      /\ Len(bs) + 2 \in DOMAIN bs1
  <2> HIDE DEF x, bs1
  <2> QED
    BY <1>2, <1>3
<1> HIDE DEF x, bs1
<1>5. Keeps(bs1, bs2) /\ Len(bs2) = Len(bs1)
  BY <1>4, BranchKeeps
<1> HIDE DEF bs2
<1> QED
  BY <1>1, <1>3, <1>5, PairKeeps DEF bs1

LEMMA WeaveKeeps ==
  ASSUME NEW bs \in Seq(Block), NEW c \in DOMAIN bs, NEW p \in DOMAIN bs,
         NEW brk \in Seq(DOMAIN bs)
  PROVE  LET bs2 == WeaveBlocks(bs, c, brk, p)
             d == Len(bs) + 1
             e == Len(bs) + 2
         IN /\ Keeps(bs, bs2) /\ Len(bs2) = e
            /\ d \in DOMAIN bs2 /\ e \in DOMAIN bs2 /\ d \notin DOMAIN bs /\ e \notin DOMAIN bs
            /\ Lists(bs2)[d] = Lists(bs)[c] /\ Lists(bs2)[e] = Lists(bs)[c]
            /\ Whole(bs) /\ Fitting(bs, c, <<p>> \o brk) => Whole(bs2)
<1> DEFINE ps == <<p>> \o brk
           x == ChildBlock(bs, c, ps)
           bs1 == Pair(bs, c, ps)
           bs3 == JoinBlocks(bs1, Blocks(brk), Len(bs) + 2)
           bs2 == BranchBlock(bs3, p, Len(bs) + 1, Len(bs) + 2)
<1>1. Blocks(ps) \subseteq DOMAIN bs /\ 1 \in DOMAIN ps /\ ps[1] \in DOMAIN bs
  <2>1. ps \in Seq(DOMAIN bs) /\ ps # <<>>
    BY Prepend
  <2> HIDE DEF ps
  <2> QED
    BY <2>1, ListFacts
<1> HIDE DEF ps
<1>2. x \in Block
  BY <1>1, ChildBlockBlock
<1>3. bs1 = bs \o <<x, x>> /\ WeaveBlocks(bs, c, brk, p) = bs2
  BY DEF WeaveBlocks, ps, Pair
<1>4. bs1 \in Seq(Block) /\ p \in DOMAIN bs1 /\ Len(bs) + 1 \in DOMAIN bs1
      /\ Len(bs) + 2 \in DOMAIN bs1 /\ Blocks(brk) \in SUBSET DOMAIN bs1
  <2>1. Blocks(brk) \subseteq DOMAIN bs
    BY DEF Blocks
  <2> HIDE DEF x, bs1
  <2> QED
    BY <1>2, <1>3, <2>1
<1> HIDE DEF x, bs1
<1>5. Keeps(bs1, bs3) /\ Len(bs3) = Len(bs1)
  BY <1>4, JoinKeeps
<1>6. bs3 \in Seq(Block) /\ DOMAIN bs3 = DOMAIN bs1
  BY <1>4, <1>5 DEF Keeps
<1> HIDE DEF bs3
<1>7. Keeps(bs3, bs2) /\ Len(bs2) = Len(bs3)
  BY <1>4, <1>6, BranchKeeps
<1> HIDE DEF bs2
<1>8. Keeps(bs1, bs2) /\ Len(bs2) = Len(bs1)
  BY <1>4, <1>5, <1>7, KeepsTrans
<1> QED
  BY <1>1, <1>3, <1>8, PairKeeps DEF ps, bs1

LEMMA SavedNone ==
  ASSUME NEW q \in Block,
         (IF q.hasRet THEN <<q.retIns>> ELSE <<>>) \o q.stack
           \o [i \in DOMAIN q.syms |-> q.syms[i].ins] = <<>>
  PROVE  ~q.hasRet /\ DOMAIN q.syms = {}
<1> DEFINE a == IF q.hasRet THEN <<q.retIns>> ELSE <<>>
           s == q.stack
           d == [i \in DOMAIN q.syms |-> q.syms[i].ins]
<1>1. /\ q.syms \in Seq(Entry) /\ s \in Seq(Int) /\ q.retIns \in Int
      /\ \A i \in DOMAIN q.syms : q.syms[i].ins \in Int
  BY BlockFields
<1>2. a \in Seq(Int)
  BY <1>1
<1>3. d \in Seq(Int) /\ Len(d) = Len(q.syms)
  <2>1. d \in [DOMAIN q.syms -> Int]
    BY <1>1
  <2> HIDE DEF d
  <2> QED
    BY <1>1, <2>1, AsLong
<1>4. q.hasRet => Len(a) = 1
  OBVIOUS
<1>5. (a \o s) \o d = <<>>
  OBVIOUS
<1> HIDE DEF a, s, d
<1>6. a \o s \in Seq(Int) /\ Len(a \o s) = Len(a) + Len(s)
  BY <1>1, <1>2, Concat
<1>7. Len((a \o s) \o d) = Len(a \o s) + Len(d)
  BY <1>3, <1>6, Concat
<1>8. Len(a) \in Nat /\ Len(s) \in Nat /\ Len(d) \in Nat /\ Len((a \o s) \o d) = 0
  BY <1>1, <1>2, <1>3, <1>5
<1>9. Len(a) = 0 /\ Len(d) = 0
  BY <1>6, <1>7, <1>8
<1> QED
  BY <1>1, <1>3, <1>4, <1>9

\* From bs to bs2 block p calls, and r is where it goes on: it knows what the
\* caller did.
Invoked(bs, p, r, bs2) ==
  \E x, y : /\ bs2 = [bs EXCEPT ![p] = x, ![r] = y]
            /\ Kin(x, bs[p])
            /\ Names(y.syms) = Names(bs[p].syms) /\ With(bs[p].syms) \subseteq With(y.syms)
            /\ y.par = bs[r].par /\ y.accRet = bs[r].accRet /\ y.made = bs[r].made
            /\ bs[p].hasRet => y.hasRet
            /\ y.hasRet => bs[p].hasRet \/ bs[r].hasRet
            /\ x.tail.type = "call"

LEMMA InvokeNames ==
  ASSUME NEW bs \in Seq(Block), NEW p \in DOMAIN bs, NEW r \in DOMAIN bs,
         NEW n \in Nat, n + 1 <= Len(bs[p].stack), NEW nonvoid, DOMAIN bs[r].syms = {}
  PROVE  Invoked(bs, p, r, Invoke(bs, p, r, n, nonvoid))
<1> DEFINE b      == bs[p]
           q      == PopStack(b, n + 1)
           args   == [i \in 1 .. n |-> b.stack[n + 1 - i]]
           saved  == (IF q.hasRet THEN <<q.retIns>> ELSE <<>>) \o q.stack
                       \o [i \in DOMAIN q.syms |-> q.syms[i].ins]
           empty  == saved = <<>>
           obj    == NextInstruction(q)
           header == <<Instr("new", <<>>, 0), Instr("ref", <<>>, r),
                       Instr("put", <<obj, obj + 1>>, 0)>>
           puts   == [i \in DOMAIN saved |-> Instr("put", <<obj, saved[i]>>, 0)]
           longer == q.code \o header \o
                       IF empty THEN <<>> ELSE Append(puts, Instr("cast", <<obj>>, 0))
           caller == [q EXCEPT !.code = longer]
           object == IF empty THEN obj ELSE LastInstruction(caller)
           base   == ParamCount(bs[r])
           height == One(q.hasRet) + Len(q.stack)
           gets   == [i \in DOMAIN saved |-> Instr("field", <<base>>, 0)]
           code   == <<Instr("cast", <<0>>, 0)>> \o gets
                       \o IF nonvoid THEN <<Instr("get", <<1>>, 0)>> ELSE <<>>
           ins    == IF q.hasRet THEN base + 1 ELSE 0
           stack  == [i \in DOMAIN q.stack |-> base + One(q.hasRet) + i]
           syms   == [i \in DOMAIN q.syms |-> [s |-> q.syms[i].s, ex |-> TRUE,
                                               ins |-> base + height + i]]
           back   == [bs[r] EXCEPT !.code = code, !.hasRet = q.hasRet, !.retIns = ins,
                                   !.stack = stack, !.syms = syms]
           tail   == [OpenTail EXCEPT !.type = "call", !.first = b.stack[n + 1],
                                      !.args = <<object>> \o args]
           x      == [caller EXCEPT !.tail = tail]
           y      == IF empty THEN bs[r] ELSE back
<1>1. Invoke(bs, p, r, n, nonvoid) = [bs EXCEPT ![p] = x, ![r] = y]
  BY DEF Invoke
<1>2. b \in Block /\ bs[r] \in Block /\ Fields = DOMAIN b /\ Fields = DOMAIN bs[r]
  BY BlockFielded
<1>3. q \in Block /\ Kin(q, b) /\ Fields = DOMAIN q
  <2>1. q \in Block
    BY <1>2, PopBlock
  <2>2. Kin(q, b)
    BY <1>2, StackKin
  <2> QED
    BY <1>2, <2>2, <2>1, KinFields
<1>4. empty => ~q.hasRet /\ DOMAIN q.syms = {}
  BY <1>3, SavedNone
<1>5. DOMAIN bs[r].syms = {}
  OBVIOUS
<1> HIDE DEF q, longer, tail, code, ins, stack, empty, b
<1>6. Kin(caller, q) /\ Fields = DOMAIN caller
  BY <1>3 DEF Kin, Fields
<1> HIDE DEF caller
<1>7. Kin(x, b)
  <2>1. Kin(x, caller)
    BY <1>6, TailKin
  <2> HIDE DEF x
  <2> QED
    BY <1>3, <1>6, <2>1, KinTrans
<1>8. Names(y.syms) = Names(b.syms) /\ With(b.syms) \subseteq With(y.syms)
  <2>1. Names(q.syms) = Names(b.syms) /\ DOMAIN q.syms = DOMAIN b.syms
    <3>1. Names(q.syms) = Names(b.syms)
      BY <1>3 DEF Kin
    <3>2. DOMAIN Names(q.syms) = DOMAIN q.syms /\ DOMAIN Names(b.syms) = DOMAIN b.syms
      BY DEF Names
    <3> QED
      BY <3>1, <3>2
  <2>2. CASE empty
    <3>1. y = bs[r] /\ DOMAIN b.syms = {}
      BY <1>4, <2>1, <2>2
    <3> HIDE DEF y
    <3> QED
      BY <1>5, <3>1 DEF Names, With
  <2>3. CASE ~empty
    <3>1. y.syms = syms
      BY <1>2, <2>3 DEF Fields
    <3>2. Names(syms) = Names(q.syms) /\ With(syms) = DOMAIN q.syms
      BY DEF Names, With
    <3> HIDE DEF y, syms
    <3>3. With(b.syms) \subseteq DOMAIN b.syms
      BY DEF With
    <3> QED
      BY <2>1, <3>1, <3>2, <3>3
  <2> QED
    BY <2>2, <2>3
<1>9. /\ y.par = bs[r].par /\ y.accRet = bs[r].accRet /\ y.made = bs[r].made
      /\ b.hasRet => y.hasRet
      /\ y.hasRet => b.hasRet \/ bs[r].hasRet
  <2>1. q.hasRet = b.hasRet
    BY <1>3 DEF Kin
  <2>2. CASE empty
    <3>1. y = bs[r]
      BY <2>2
    <3> HIDE DEF y
    <3> QED
      BY <1>4, <2>1, <2>2, <3>1
  <2>3. CASE ~empty
    <3>1. y = back
      BY <2>3
    <3>2. back.par = bs[r].par /\ back.accRet = bs[r].accRet /\ back.made = bs[r].made
          /\ back.hasRet = q.hasRet
      BY <1>2 DEF Fields
    <3> HIDE DEF y, back
    <3> QED
      BY <2>1, <3>1, <3>2
  <2> QED
    BY <2>2, <2>3
<1>10. x.tail.type = "call"
  <2>1. tail.type = "call"
    BY DEF tail, OpenTail
  <2>2. "tail" \in DOMAIN caller
    BY <1>6 DEF Fields
  <2> QED
    BY <2>1, <2>2
<1> HIDE DEF x, y
<1> QED
  BY <1>1, <1>7, <1>8, <1>9, <1>10 DEF b, Invoked

-----------------------------------------------------------------------------
(* Steps to another block.                                                 *)

\* A call goes on with its next part.
LEMMA GoodTurn ==
  ASSUME NEW h, Before(h), Well, More(Lists(blocks), Lists(blocks')), frames # <<>>,
         NEW g \in Frames, Replace(g), scope' \in Seq(Nat),
         Turns(Lists(blocks), cur, top, scope, Lists(blocks'), cur', g, scope', at')
  PROVE  Good'
<1> DEFINE nm == Lists(blocks)
           nm2 == Lists(blocks')
           fs2 == Append(SubSeq(frames, 1, Len(frames) - 1), g)
           c2 == cur'
           sc2 == scope'
           a2 == at'
<1>1. /\ Scene(nm, cur, frames, scope) /\ Settled(nm, cur, frames, scope, at)
      /\ Targets(nm, cur, frames) /\ frames \in Seq(Frames) /\ DOMAIN nm = DOMAIN blocks
      /\ top = frames[Len(frames)] /\ Idle(nm, frames)
  BY BeforeFacts
<1>2. More(nm, nm2) /\ frames' = fs2 /\ c2 \in 0 .. Len(nm2)
  BY AfterFacts DEF Replace, Below
<1>3. frames' \in Seq(Frames) /\ Len(frames') \in DOMAIN frames' /\ frames'[Len(frames')] = g
      /\ \A i \in DOMAIN frames' : \/ i \in DOMAIN frames /\ frames'[i] = frames[i]
                                   \/ frames'[i] = g
  <2> DEFINE b == SubSeq(frames, 1, Len(frames) - 1)
  <2>1. b \in Seq(Frames) /\ \A i \in DOMAIN b : b[i] = frames[i] /\ i \in DOMAIN frames
    BY <1>1, BelowFacts
  <2>2. frames' = Append(b, g)
    BY <1>2
  <2> HIDE DEF b
  <2> QED
    BY <2>1, <2>2
<1>4. FrameOK(Len(nm2), g)
  BY <1>3, AfterFacts
<1>5. Idle(nm2, fs2)
  <2>1. \A i \in DOMAIN fs2 : \/ i \in DOMAIN frames /\ fs2[i] = frames[i]
                              \/ fs2[i].k # "call"
    BY <1>2, <1>3 DEF Turns
  <2> HIDE DEF nm, nm2, fs2
  <2> QED
    BY <1>1, <1>2, <2>1, MoreIdle
<1>6. Turns(nm, cur, top, scope, nm2, c2, g, sc2, a2) /\ sc2 \in Seq(Nat)
  OBVIOUS
<1> HIDE DEF nm, nm2, c2, sc2, a2
<1>7. Settled(nm2, c2, fs2, sc2, a2) /\ Targets(nm2, c2, fs2)
  BY <1>1, <1>2, <1>4, <1>6, TurnScopes
<1> QED
  BY <1>2, <1>5, <1>7 DEF Good, nm2, c2, sc2, a2

\* A statement begins that goes on in a new block.
LEMMA GoodFork ==
  ASSUME NEW h, Before(h), Well, More(Lists(blocks), Lists(blocks')), at \in Between,
         cur # NoBlock, cur' # NoBlock, cur' \notin DOMAIN blocks, scope' = scope,
         Lists(blocks')[cur'] = scope,
         NEW g \in Frames, Enter(g), g.k \in {"block", "while", "do"}, g.scope = scope,
         Pending(g) = {}, cur' \notin Fixed(g), g.k = "do" => g.cont = <<>>,
         Knows(Lists(blocks'), g, scope), at' \in Between <=> g.k # "while"
  PROVE  Good'
<1> DEFINE nm == Lists(blocks)
           nm2 == Lists(blocks')
           c2 == cur'
           a2 == at'
           fs2 == Append(frames, g)
<1>1. /\ Scene(nm, cur, frames, scope) /\ Settled(nm, cur, frames, scope, at)
      /\ Targets(nm, cur, frames) /\ frames \in Seq(Frames) /\ DOMAIN nm = DOMAIN blocks
      /\ Idle(nm, frames)
  BY BeforeFacts
<1>2. More(nm, nm2) /\ frames' = fs2 /\ c2 \in 0 .. Len(nm2)
  BY AfterFacts DEF Enter
<1>3. Len(frames') \in DOMAIN frames' /\ frames'[Len(frames')] = g
      /\ \A i \in DOMAIN frames' : \/ i \in DOMAIN frames /\ frames'[i] = frames[i]
                                   \/ frames'[i] = g
  BY <1>1, <1>2
<1>4. FrameOK(Len(nm2), g)
  BY <1>3, AfterFacts
<1>5. Idle(nm2, fs2)
  <2>1. \A i \in DOMAIN fs2 : \/ i \in DOMAIN frames /\ fs2[i] = frames[i]
                              \/ fs2[i].k # "call"
    BY <1>2, <1>3 DEF Turns
  <2> HIDE DEF nm, nm2, fs2
  <2> QED
    BY <1>1, <1>2, <2>1, MoreIdle
<1>6. c2 \notin DOMAIN nm /\ c2 # NoBlock /\ nm2[c2] = scope /\ c2 \notin Fixed(g)
      /\ Knows(nm2, g, scope) /\ (a2 \in Between <=> g.k # "while")
  BY <1>1
<1> HIDE DEF nm, nm2, c2, a2
<1>7. Settled(nm2, c2, fs2, scope, a2) /\ Targets(nm2, c2, fs2)
  BY <1>1, <1>2, <1>4, <1>6, ForkScopes
<1> QED
  BY <1>2, <1>5, <1>7 DEF Good, nm2, c2, a2

LEMMA TopScope ==
  ASSUME NEW h, Before(h), frames # <<>>
  PROVE  /\ top.k \notin Body => top.scope = scope
         /\ Knows(Lists(blocks), top, scope)
         /\ top.scope \in Seq(Nat) /\ Begins(top.scope, scope)
<1>1. /\ Known(Lists(blocks), cur, frames, scope)
      /\ top = frames[Len(frames)] /\ Len(frames) \in DOMAIN frames /\ top \in Frames
  BY BeforeFacts DEF Settled
<1>2. Up(frames, scope, Len(frames)) = scope
  BY DEF Up
<1>3. Knows(Lists(blocks), top, scope)
  BY <1>1, <1>2 DEF Known
<1>4. top.scope \in Seq(Nat)
  BY <1>1 DEF Frames
<1> QED
  BY <1>1, <1>3, <1>4 DEF Known, Knows

\* A statement that held others ends.
LEMMA DoneLeave ==
  ASSUME NEW h, Before(h), frames # <<>>, top.k \notin Expr,
         NEW bs, Keeps(blocks, bs), NEW c, Done(Below, c, bs), c \in 0 .. Len(bs),
         c = NoBlock \/ c = cur \/ c \notin DOMAIN blocks \/ c \in Pending(top),
         scope' = top.scope, c # NoBlock => Lists(bs)[c] = top.scope
  PROVE  Good'
<1> DEFINE nm == Lists(blocks)
           nm2 == Lists(bs)
           fs2 == SubSeq(frames, 1, Len(frames) - 1)
           sc2 == top.scope
<1>1. /\ Scene(nm, cur, frames, scope) /\ Settled(nm, cur, frames, scope, at)
      /\ Targets(nm, cur, frames) /\ frames \in Seq(Frames) /\ DOMAIN nm = DOMAIN blocks
      /\ top = frames[Len(frames)] /\ blocks \in Seq(Block)
      /\ \A i \in DOMAIN frames : FrameOK(Len(blocks), frames[i])
  BY BeforeFacts
<1>2. bs \in Seq(Block) /\ Len(nm2) = Len(bs) /\ More(nm, nm2) /\ Len(blocks) <= Len(bs)
      /\ Len(blocks) \in Nat /\ Len(bs) \in Nat
  BY <1>1, KeepsLists, ListsType DEF Keeps
<1>3. sc2 \in Seq(Nat)
  BY TopScope
<1>4. "stmt" \in Between
  BY DEF Between
<1>5. Settled(nm2, c, fs2, sc2, "stmt")
  <2>1. /\ c \in 0 .. Len(nm2)
        /\ c = NoBlock \/ c = cur \/ c \notin DOMAIN nm \/ c \in Pending(frames[Len(frames)])
        /\ c # NoBlock => nm2[c] = sc2
        /\ frames[Len(frames)].k \notin Expr /\ sc2 = frames[Len(frames)].scope
    BY <1>1, <1>2
  <2> HIDE DEF nm, nm2, sc2
  <2> QED
    BY <1>1, <1>2, <1>3, <1>4, <2>1, LeaveScopes
<1>6. fs2 \in Seq(Frames) /\ \A i \in DOMAIN fs2 : FrameOK(Len(bs), fs2[i])
  <2>1. fs2 \in Seq(Frames) /\ \A i \in DOMAIN fs2 : fs2[i] = frames[i] /\ i \in DOMAIN frames
    BY <1>1, BelowFacts
  <2> HIDE DEF fs2
  <2> QED
    BY <1>1, <1>2, <2>1, FrameGrows
<1>7. Done(fs2, c, bs)
  BY DEF Below
<1> HIDE DEF fs2, sc2, nm2
<1>8. scope' = sc2
  BY DEF sc2
<1> QED
  BY <1>2, <1>3, <1>5, <1>6, <1>7, <1>8, DoneScopes DEF nm2

LEMMA PutKeeps ==
  ASSUME NEW bs \in Seq(Block), NEW c \in DOMAIN bs, NEW x, Kin(x, bs[c]),
         NEW bs2 \in Seq(Block), bs2 = [bs EXCEPT ![c] = x]
  PROVE  Keeps(bs, bs2) /\ Len(bs2) = Len(bs)
<1>1. DOMAIN bs2 = DOMAIN bs
  OBVIOUS
<1>2. Len(bs2) = Len(bs)
  BY <1>1
<1>3. \A b \in DOMAIN bs : Kin(bs2[b], bs[b])
  BY KinItself
<1> QED
  BY <1>2, <1>3 DEF Keeps

LEMMA EndTernaryConditionFits ==
  ASSUME NEW h, Before(h), Well, EndTernaryCondition
  PROVE  Fits
<1> DEFINE d == Len(blocks) + 1
           e == Len(blocks) + 2
           g == [top EXCEPT !.k = "tfirst", !.ctx = cur, !.oth = e]
           nm == Lists(blocks)
           nm2 == Lists(blocks')
<1>1. /\ at = "value" /\ frames # <<>> /\ top.k = "tcond" /\ scope' = scope
      /\ Replace(g) /\ cur' = d /\ at' = "expr" /\ blocks' = BranchInto(blocks, cur)
  BY DEF EndTernaryCondition, Returned, Waiting, Produce
<1>2. /\ cur # NoBlock /\ cur \in DOMAIN blocks /\ blocks \in Seq(Block) /\ Whole(blocks)
      /\ "expr" \notin Between
  BY <1>1, ExprFacts
<1>3. /\ top \in Frames /\ DOMAIN nm = DOMAIN blocks /\ scope \in Seq(Nat)
  BY <1>1, BeforeFacts
<1>4. /\ Keeps(blocks, blocks') /\ Whole(blocks')
      /\ d \in DOMAIN blocks' /\ e \in DOMAIN blocks' /\ d \notin DOMAIN blocks /\ e \notin DOMAIN blocks
      /\ nm2[d] = nm[cur] /\ nm2[e] = nm[cur]
  BY <1>1, <1>2, BranchIntoKeeps
<1>5. More(nm, nm2)
  BY <1>2, <1>4, KeepsLists
<1>6. d # NoBlock /\ e # NoBlock /\ e # d /\ e \in Nat /\ cur \in Nat
  BY <1>2 DEF NoBlock
<1>7. /\ g \in Frames /\ g.k = "tfirst" /\ g.ctx = cur /\ g.oth = e /\ g.scope = top.scope
  BY <1>3, <1>6 DEF Frames, FrameKinds
<1>8. top.scope = scope /\ Begins(scope, scope)
  BY <1>1, <1>3, TopScope, BeginsItself DEF Body
<1> HIDE DEF g, d, e
<1>9. Pending(g) = {e} /\ Fixed(g) = {cur, e} /\ Knows(nm2, g, scope)
  BY <1>6, <1>7, <1>8, PendingIs DEF Fixed, Knows
<1>10. nm2[cur] = nm[cur] /\ cur # d /\ cur # e
  BY <1>2, <1>3, <1>4, <1>5 DEF More
<1> HIDE DEF nm, nm2
<1>11. Turns(nm, cur, top, scope, nm2, d, g, scope, "expr")
  BY <1>1, <1>2, <1>3, <1>4, <1>6, <1>7, <1>8, <1>9, <1>10 DEF Turns, Expr, Body
<1> QED
  BY <1>1, <1>3, <1>4, <1>5, <1>7, <1>11, GoodTurn DEF Fits, nm, nm2

LEMMA EndTernaryFirstFits ==
  ASSUME NEW h, Before(h), Well, EndTernaryFirst
  PROVE  Fits
<1> DEFINE g == [top EXCEPT !.k = "tsecond", !.oth = cur]
           d == top.oth
           nm == Lists(blocks)
<1>1. /\ at = "value" /\ frames # <<>> /\ top.k = "tfirst" /\ scope' = scope
      /\ Replace(g) /\ cur' = d /\ at' = "expr" /\ blocks' = blocks
  BY DEF EndTernaryFirst, Returned, Waiting
<1>2. /\ cur # NoBlock /\ cur \in DOMAIN blocks /\ blocks \in Seq(Block) /\ Whole(blocks)
      /\ "expr" \notin Between
  BY <1>1, ExprFacts
<1>3. /\ top \in Frames /\ DOMAIN nm = DOMAIN blocks /\ scope \in Seq(Nat)
      /\ top = frames[Len(frames)] /\ Len(frames) \in DOMAIN frames
      /\ FrameOK(Len(blocks), top) /\ Scene(nm, cur, frames, scope)
      /\ Settled(nm, cur, frames, scope, at)
  BY <1>1, BeforeFacts
<1>4. More(nm, nm)
  BY <1>2, KeepsSame, KeepsLists
<1>5. d # NoBlock /\ d \in Nat /\ cur \in Nat /\ top.ctx \in Nat
  BY <1>1, <1>2, <1>3 DEF FrameOK, NoBlock
<1>6. Pending(top) = {d} /\ Fixed(top) = {top.ctx, d} /\ top.ctx # d /\ cur # d
  <2>1. Pending(top) = {d} /\ Fixed(top) = {top.ctx, d}
    BY <1>1, <1>5, PendingIs DEF Fixed
  <2>2. cur \notin Pending(top)
    BY <1>3 DEF Scene
  <2>3. Apart(cur, frames)
    BY <1>3 DEF Settled
  <2>4. top.ctx # d
    BY <1>1, <1>3, <2>3 DEF Apart
  <2> QED
    BY <2>1, <2>2, <2>4
<1>7. nm[top.ctx] = nm[cur] /\ nm[d] = nm[cur]
  BY <1>1, <1>3, <1>6 DEF Settled, Known
<1>8. /\ g \in Frames /\ g.k = "tsecond" /\ g.ctx = top.ctx /\ g.oth = cur /\ g.scope = top.scope
  BY <1>3, <1>5 DEF Frames, FrameKinds
<1>9. top.scope = scope /\ Begins(scope, scope)
  BY <1>1, <1>3, TopScope, BeginsItself DEF Body
<1> HIDE DEF g, d
<1>10. Pending(g) = {cur} /\ Fixed(g) = {top.ctx, cur} /\ Knows(nm, g, scope)
  BY <1>2, <1>8, <1>9, PendingIs DEF Fixed, Knows
<1> HIDE DEF nm
<1>11. Turns(nm, cur, top, scope, nm, d, g, scope, "expr")
  BY <1>1, <1>2, <1>3, <1>5, <1>6, <1>7, <1>8, <1>9, <1>10 DEF Turns, Expr, Body, Forking
<1> QED
  BY <1>1, <1>2, <1>3, <1>4, <1>8, <1>11, GoodTurn DEF Fits, nm

LEMMA KeepsWhole ==
  ASSUME NEW bs \in Seq(Block), NEW bs2, Keeps(bs, bs2), Len(bs2) = Len(bs)
  PROVE  DOMAIN bs2 = DOMAIN bs /\ (Whole(bs) => Whole(bs2))
<1>1. DOMAIN bs2 = DOMAIN bs
  BY DEF Keeps
<1> QED
  BY <1>1, KeepsLists

\* Both branches of a ternary push their value.
PushBoth(bs, p, q) == [bs EXCEPT ![p] = PushStack(@), ![q] = PushStack(@)]

LEMMA BothKeep ==
  ASSUME NEW bs \in Seq(Block), NEW p \in DOMAIN bs, NEW q \in DOMAIN bs, p # q
  PROVE  LET bs2 == PushBoth(bs, p, q)
         IN Keeps(bs, bs2) /\ Len(bs2) = Len(bs) /\ bs2 \in Seq(Block)
<1> DEFINE bs2 == PushBoth(bs, p, q)
           x == PushStack(bs[p])
           y == PushStack(bs[q])
<1>1. bs[p] \in Block /\ bs[q] \in Block
  OBVIOUS
<1>2. x \in Block /\ y \in Block
  BY <1>1, PushFills DEF Fills
<1>3. Kin(x, bs[p]) /\ Kin(y, bs[q])
  BY <1>1, BlockFielded, StackKin
<1>4. bs2 = [bs EXCEPT ![p] = x, ![q] = y]
  BY DEF PushBoth
<1> HIDE DEF x, y, bs2
<1>5. bs2 \in Seq(Block) /\ Len(bs2) = Len(bs)
  BY <1>2, <1>4
<1>6. \A b \in DOMAIN bs : Kin(bs2[b], bs[b])
  BY <1>3, <1>4, KinItself
<1> QED
  BY <1>5, <1>6 DEF Keeps, bs2

LEMMA EndTernaryFits ==
  ASSUME NEW h, Before(h), Well, EndTernary
  PROVE  Fits
<1> DEFINE p == top.oth
           c == top.ctx
           nm == Lists(blocks)
           nm2 == Lists(blocks')
           pushed == PushBoth(blocks, p, cur)
           ps == <<p, cur>>
           merged == TangleBlocks(pushed, c, ps)
           post == Len(merged)
           x == Mirror(PopStack(merged[post], 1), merged[post].stack[1])
<1>1. /\ at = "value" /\ frames # <<>> /\ top.k = "tsecond" /\ scope' = scope
      /\ frames' = Below /\ cur' = post /\ at' = "value"
      /\ blocks' = [merged EXCEPT ![post] = x]
  BY DEF EndTernary, Returned, Waiting, Value, Produce, MergeBlocks, PushBoth
<1>2. /\ cur # NoBlock /\ cur \in DOMAIN blocks /\ blocks \in Seq(Block) /\ Whole(blocks)
      /\ "value" \notin Between
  BY <1>1, ExprFacts
<1>3. /\ top \in Frames /\ DOMAIN nm = DOMAIN blocks
      /\ top = frames[Len(frames)] /\ Len(frames) \in DOMAIN frames
      /\ FrameOK(Len(blocks), top) /\ Scene(nm, cur, frames, scope)
      /\ Settled(nm, cur, frames, scope, at) /\ blocks' \in Seq(Block)
      /\ nm \in Seq(Seq(Nat))
  BY <1>1, BeforeFacts, AfterFacts
<1>4. p # NoBlock /\ p \in DOMAIN blocks /\ c \in DOMAIN blocks
  BY <1>1, <1>2, <1>3 DEF FrameOK, NoBlock
<1>5. p # cur /\ Fixed(top) = {c, p}
  BY <1>1, <1>3, <1>4, PendingIs DEF Scene, Fixed
<1>6. nm[c] = nm[cur] /\ nm[p] = nm[cur]
  BY <1>1, <1>3, <1>5 DEF Settled, Known
<1> HIDE DEF p, c
<1>7. Keeps(blocks, pushed) /\ Len(pushed) = Len(blocks) /\ pushed \in Seq(Block)
  BY <1>2, <1>4, <1>5, BothKeep
<1>8. Blocks(ps) = {p, cur} /\ 1 \in DOMAIN ps
  <2>1. ps \in Seq({p, cur}) /\ Len(ps) = 2 /\ ps[1] = p /\ ps[2] = cur
    OBVIOUS
  <2> HIDE DEF ps
  <2>2. DOMAIN ps = {1, 2}
    BY <2>1, SMTT(30)
  <2> QED
    BY <2>1, <2>2 DEF Blocks
<1> HIDE DEF ps, pushed
<1>9. DOMAIN pushed = DOMAIN blocks /\ Whole(pushed) /\ More(nm, Lists(pushed))
  BY <1>2, <1>7, KeepsWhole, KeepsLists
<1>10. Fitting(pushed, c, ps)
  <2>1. Lists(pushed)[c] = nm[c] /\ Lists(pushed)[p] = nm[p] /\ Lists(pushed)[cur] = nm[cur]
    BY <1>2, <1>3, <1>4, <1>9 DEF More
  <2>2. nm[cur] \in Seq(Nat)
    BY <1>2, <1>3
  <2>3. Begins(nm[cur], nm[cur])
    BY <2>2, BeginsItself
  <2> QED
    BY <1>6, <1>8, <2>1, <2>3 DEF Fitting
<1>11. /\ Keeps(pushed, merged) /\ post \in DOMAIN merged /\ post \notin DOMAIN blocks
       /\ Lists(merged)[post] = Lists(pushed)[c] /\ Whole(merged)
  <2>1. c \in DOMAIN pushed /\ Blocks(ps) \subseteq DOMAIN pushed
    BY <1>2, <1>4, <1>8, <1>9
  <2> DEFINE d == Len(pushed) + 1
  <2>2. /\ Keeps(pushed, merged) /\ Len(merged) = d /\ d \in DOMAIN merged /\ d \notin DOMAIN pushed
        /\ Lists(merged)[d] = Lists(pushed)[c] /\ Whole(merged)
    <3>1. pushed \in Seq(Block) /\ 1 \in DOMAIN ps /\ Whole(pushed)
      BY <1>7, <1>8, <1>9
    <3> QED
      BY ONLY <3>1, <1>10, <2>1, TangleKeeps
  <2> HIDE DEF d, merged
  <2> QED
    BY <1>9, <2>2
<1>12. Kin(x, merged[post])
  <2> DEFINE b == merged[post]
  <2>1. Fields = DOMAIN b
    BY <1>11, BlockFielded DEF Keeps
  <2> HIDE DEF b
  <2>2. Kin(PopStack(b, 1), b)
    BY <2>1, StackKin
  <2>3. Kin(Mirror(PopStack(b, 1), b.stack[1]), PopStack(b, 1))
    BY <2>1, <2>2, KinFields, MirrorKin
  <2> QED
    BY <2>2, <2>3, KinTrans DEF b
<1> HIDE DEF merged, x, post
<1>13. merged \in Seq(Block)
  BY <1>11 DEF Keeps
<1>14. Keeps(merged, blocks') /\ Len(blocks') = Len(merged)
  BY <1>1, <1>3, <1>11, <1>12, <1>13, PutKeeps
<1>15. Keeps(blocks, blocks') /\ Whole(blocks') /\ More(Lists(merged), nm2)
  BY <1>2, <1>7, <1>11, <1>13, <1>14, KeepsTrans, KeepsWhole, KeepsLists
<1>16. More(nm, nm2)
  BY <1>2, <1>15, KeepsLists
<1>17. nm2[post] = nm[cur]
  <2>1. DOMAIN Lists(merged) = DOMAIN merged
    BY DEF Lists
  <2> QED
    BY <1>3, <1>4, <1>6, <1>9, <1>11, <1>15, <2>1 DEF More
<1>18. post # NoBlock
  BY <1>11, <1>13 DEF NoBlock
<1> HIDE DEF nm, nm2
<1> QED
  BY <1>1, <1>2, <1>11, <1>15, <1>16, <1>17, <1>18, GoodLeave DEF Fits, Expr, nm, nm2

\* A call: the return block has the names the caller had.
Invokes(bs, p, r, n, nonvoid, bs2) ==
  /\ p \in DOMAIN bs /\ r \in DOMAIN bs /\ p # r /\ n \in Nat /\ n + 1 <= Len(bs[p].stack)
  /\ DOMAIN bs[r].syms = {} /\ Whole(bs)
  /\ bs2 \in Seq(Block) /\ bs2 = Invoke(bs, p, r, n, nonvoid)

LEMMA InvokeKeeps ==
  ASSUME NEW bs \in Seq(Block), NEW p, NEW r, NEW n, NEW nonvoid, NEW bs2,
         Invokes(bs, p, r, n, nonvoid, bs2)
  PROVE  /\ DOMAIN bs2 = DOMAIN bs /\ Len(bs2) = Len(bs)
         /\ \A b \in DOMAIN bs : b # r => Lists(bs2)[b] = Lists(bs)[b]
         /\ Lists(bs2)[r] = Lists(bs)[p]
         /\ Whole(bs2)
<1>1. PICK x, y : /\ bs2 = [bs EXCEPT ![p] = x, ![r] = y]
                  /\ Kin(x, bs[p])
                  /\ Names(y.syms) = Names(bs[p].syms)
                  /\ y.made = bs[r].made
  <2>1. Invoked(bs, p, r, bs2)
    BY InvokeNames DEF Invokes
  <2> QED
    BY <2>1 DEF Invoked
<1>0. p \in DOMAIN bs /\ r \in DOMAIN bs /\ p # r /\ Whole(bs) /\ bs2 \in Seq(Block)
  BY DEF Invokes
<1>2. DOMAIN bs2 = DOMAIN bs
  BY <1>1
<1>3. Len(bs2) = Len(bs)
  BY <1>0, <1>2
<1>4. bs2[p] = x /\ bs2[r] = y /\ \A b \in DOMAIN bs : b # p /\ b # r => bs2[b] = bs[b]
  BY <1>0, <1>1
<1>5. \A b \in DOMAIN bs : b # r => Lists(bs2)[b] = Lists(bs)[b]
  BY <1>0, <1>1, <1>2, <1>4 DEF Lists, Kin
<1>6. Lists(bs2)[r] = Lists(bs)[p]
  BY <1>0, <1>1, <1>2, <1>4 DEF Lists
<1>7. Whole(bs2)
  BY <1>0, <1>1, <1>2, <1>4 DEF Whole, Kin
<1> QED
  BY <1>2, <1>3, <1>5, <1>6, <1>7

\* A call before its operands: the return block is there.
LEMMA CalledKeeps ==
  ASSUME NEW bs \in Seq(Block), NEW m \in Nat, Whole(bs)
  PROVE  LET bs2 == Append(bs, [EmptyBlock EXCEPT !.par.extra = m])
             r == Len(bs) + 1
         IN /\ Keeps(bs, bs2) /\ Len(bs2) = r /\ Whole(bs2)
            /\ r \in DOMAIN bs2 /\ r \notin DOMAIN bs
            /\ DOMAIN bs2[r].syms = {} /\ Lists(bs2)[r] = <<>>
<1> DEFINE new == [EmptyBlock EXCEPT !.par.extra = m]
           bs2 == Append(bs, new)
           r == Len(bs) + 1
<1>1. new \in Block
  BY ReturnBlock
<1>2. new.syms = <<>> /\ new.made = "ok"
  BY DEF EmptyBlock
<1> HIDE DEF new
<1>3. /\ bs2 \in Seq(Block) /\ Len(bs2) = r /\ r \in DOMAIN bs2 /\ r \notin DOMAIN bs
      /\ \A b \in DOMAIN bs : bs2[b] = bs[b]
      /\ bs2[r] = new /\ DOMAIN bs2 = DOMAIN bs \cup {r}
  BY <1>1
<1> HIDE DEF bs2
<1>4. Keeps(bs, bs2)
  <2>1. \A b \in DOMAIN bs : Kin(bs2[b], bs[b])
    BY <1>3, KinItself
  <2> QED
    BY <1>3, <2>1 DEF Keeps
<1>5. Whole(bs2)
  BY <1>2, <1>3 DEF Whole
<1>6. Lists(bs2)[r] = <<>>
  BY <1>2, <1>3 DEF Lists, Names
<1>7. DOMAIN bs2[r].syms = {}
  BY <1>2, <1>3
<1> QED
  BY <1>3, <1>4, <1>5, <1>6, <1>7 DEF bs2, new

LEMMA CallFits ==
  ASSUME NEW h, Before(h), Well, NEW n \in Nat, NEW nonvoid \in BOOLEAN, Call(n, nonvoid)
  PROVE  Fits
<1> DEFINE r == Len(blocks) + 1
           m == IF nonvoid THEN 2 ELSE 1
           bs == Append(blocks, [EmptyBlock EXCEPT !.par.extra = m])
           g == [Frame("call") EXCEPT !.oth = r, !.n = n + 1, !.post = n, !.done = nonvoid]
           nm == Lists(blocks)
           F == Frame("call")
<1>1. at = "expr" /\ scope' = scope /\ Enter(g) /\ cur' = cur /\ at' = at /\ blocks' = bs
  BY DEF Call, Expression, Produce
<1>2. /\ cur # NoBlock /\ cur \in DOMAIN blocks /\ blocks \in Seq(Block) /\ Whole(blocks)
      /\ "expr" \notin Between
  BY <1>1, ExprFacts
<1>3. m \in Nat
  OBVIOUS
<1> HIDE DEF m
<1>4. /\ Keeps(blocks, bs) /\ Len(bs) = r /\ Whole(bs)
      /\ r \in DOMAIN bs /\ r \notin DOMAIN blocks /\ Lists(bs)[r] = <<>>
  BY <1>2, <1>3, CalledKeeps
<1>5. r \in Nat /\ r # NoBlock /\ n + 1 \in Nat
  BY <1>2 DEF NoBlock
<1> HIDE DEF bs
<1>6. bs \in Seq(Block) /\ More(nm, Lists(bs))
  BY <1>2, <1>4, KeepsLists DEF Keeps
<1>7. Frame("call") \in Frames /\ Frame("call").scope = scope
  BY FrameScope DEF FrameKinds
<1> HIDE DEF F, r
<1>8. g \in Frames /\ g.k = "call" /\ g.scope = scope /\ g.oth = r
  <2>1. F \in Frames /\ F.scope = scope /\ F.k = "call"
    BY <1>7 DEF F, Frame
  <2> DEFINE o == n + 1
  <2>2. o \in Nat
    BY <1>5
  <2> HIDE DEF o
  <2>3. g = [F EXCEPT !.oth = r, !.n = o, !.post = n, !.done = nonvoid]
    BY DEF F, o
  <2> QED
    BY <1>5, <2>1, <2>2, <2>3 DEF Frames
<1> HIDE DEF g
<1>9. Pending(g) = {r}
  BY <1>5, <1>8, PendingIs
<1>10. Good'
  BY <1>1, <1>2, <1>4, <1>6, <1>8, <1>9, GoodEnter DEF Mild, Expr
<1> QED
  BY <1>1, <1>4, <1>10 DEF Fits

\* The last argument: the call goes on in its return block.
LEMMA CallLeaves ==
  ASSUME NEW h, Before(h), Well, at = "value", frames # <<>>, top.k = "call",
         NEW bs, Keeps(blocks, bs), Len(bs) = Len(blocks), Whole(bs),
         NEW n \in Nat, n + 1 <= Len(bs[cur].stack), NEW nonvoid,
         blocks' = Invoke(bs, cur, top.oth, n, nonvoid),
         frames' = Below, cur' = top.oth, at' = "value", scope' = scope
  PROVE  Fits
<1> DEFINE nm == Lists(blocks)
           nm1 == Lists(bs)
           nm2 == Lists(blocks')
           r == top.oth
           fs2 == SubSeq(frames, 1, Len(frames) - 1)
<1>1. /\ Scene(nm, cur, frames, scope) /\ Settled(nm, cur, frames, scope, at)
      /\ Targets(nm, cur, frames) /\ frames \in Seq(Frames) /\ DOMAIN nm = DOMAIN blocks
      /\ top = frames[Len(frames)] /\ scope \in Seq(Nat) /\ Idle(nm, frames)
      /\ Len(frames) \in DOMAIN frames /\ FrameOK(Len(blocks), top) /\ blocks \in Seq(Block)
      /\ Len(nm) = Len(blocks)
  BY BeforeFacts
<1>2. /\ cur # NoBlock /\ cur \in DOMAIN blocks
      /\ "value" \notin Between /\ blocks' \in Seq(Block) /\ frames' = fs2
  BY ExprFacts, AfterFacts DEF Below
<1>3. r \in DOMAIN blocks /\ r # NoBlock
  BY <1>1 DEF FrameOK, NoBlock
<1>4. Pending(top) = {r} /\ r # cur
  BY <1>1, <1>3, PendingIs DEF Scene
<1>5. bs \in Seq(Block) /\ DOMAIN bs = DOMAIN blocks /\ More(nm, nm1)
  BY <1>1, KeepsLists, KeepsWhole DEF Keeps
<1>6. DOMAIN bs[r].syms = {}
  <2>1. nm[r] = <<>>
    BY <1>1 DEF Idle
  <2>2. nm1[r] = <<>>
    BY <1>1, <1>3, <1>5, <2>1 DEF More
  <2>3. Names(bs[r].syms) = <<>>
    BY <1>3, <1>5, <2>2 DEF Lists
  <2> QED
    BY <2>3 DEF Names
<1> HIDE DEF r
<1>7. /\ DOMAIN blocks' = DOMAIN bs /\ Len(blocks') = Len(bs)
      /\ \A b \in DOMAIN bs : b # r => nm2[b] = nm1[b]
      /\ nm2[r] = nm1[cur] /\ Whole(blocks')
  <2>1. Invokes(bs, cur, r, n, nonvoid, blocks')
    BY <1>2, <1>3, <1>4, <1>5, <1>6 DEF r, Invokes
  <2> QED
    BY <1>5, <2>1, InvokeKeeps
<1>8. /\ Len(nm2) = Len(nm) /\ nm2 \in Seq(Seq(Nat)) /\ nm2[r] = nm[cur] /\ nm2[cur] = nm[cur]
      /\ \A b \in DOMAIN nm : b # r => nm2[b] = nm[b]
  <2>1. Len(nm2) = Len(blocks') /\ nm2 \in Seq(Seq(Nat))
    BY <1>2, ListsType
  <2>2. \A b \in DOMAIN nm : b # r => nm2[b] = nm[b]
    BY <1>1, <1>5, <1>7 DEF More
  <2>3. nm1[cur] = nm[cur]
    BY <1>1, <1>2, <1>5 DEF More
  <2> HIDE DEF nm, nm1, nm2
  <2> QED
    BY <1>1, <1>2, <1>4, <1>7, <2>1, <2>2, <2>3
<1> HIDE DEF nm, nm1, nm2
<1>9. Settled(nm2, cur, frames, scope, at)
  <2>1. frames[Len(frames)].k = "call" /\ r = frames[Len(frames)].oth
    BY <1>1 DEF r
  <2> QED
    BY <1>1, <1>8, <2>1, ReturnScopes
<1>10. Scene(nm2, cur, frames, scope) /\ Targets(nm2, cur, frames) /\ More(nm2, nm2)
       /\ cur \in DOMAIN nm2
  BY <1>1, <1>2, <1>8 DEF Scene, Targets, More
<1>11. r \in 0 .. Len(nm2) /\ nm2[r] = nm2[cur]
  BY <1>1, <1>3, <1>8
<1>12. /\ r \in Pending(frames[Len(frames)])
       /\ frames[Len(frames)].k \in Expr
  BY <1>1, <1>4 DEF Expr
<1> DEFINE a2 == "value"
<1>13. a2 \notin Between
  BY <1>2
<1> HIDE DEF a2
<1>14. Settled(nm2, r, fs2, scope, a2) /\ Targets(nm2, r, fs2)
  BY <1>1, <1>2, <1>3, <1>9, <1>10, <1>11, <1>12, <1>13, LeaveScopes
<1>15. Idle(nm2, fs2)
  <2>1. \A i \in DOMAIN fs2 : fs2[i] = frames[i] /\ i \in DOMAIN frames /\ i # Len(frames)
    BY <1>1, BelowFacts
  <2> SUFFICES ASSUME NEW i \in DOMAIN fs2, fs2[i].k = "call"
               PROVE  nm2[fs2[i].oth] = <<>>
    BY DEF Idle
  <2>2. fs2[i] = frames[i] /\ i \in DOMAIN frames /\ i # Len(frames)
    BY <2>1
  <2> HIDE DEF fs2
  <2>3. FrameOK(Len(nm), frames[i]) /\ frames[i].k = "call"
    BY <1>1, <2>2 DEF Scene
  <2>4. frames[i].oth \in DOMAIN nm /\ frames[i].oth # NoBlock
    BY <1>1, <2>3 DEF FrameOK, NoBlock
  <2>5. frames[i].oth \in Pending(frames[i])
    BY <2>3, <2>4, PendingIs
  <2>6. Pending(frames[i]) \cap Pending(frames[Len(frames)]) = {}
    BY <1>1, <2>2 DEF Scene
  <2>7. frames[i].oth # r
    BY <1>12, <2>5, <2>6
  <2>8. nm[frames[i].oth] = <<>>
    BY <1>1, <2>2, <2>3 DEF Idle
  <2> QED
    BY <1>8, <2>2, <2>4, <2>7, <2>8
<1> HIDE DEF fs2
<1>16. Good'
  BY <1>2, <1>14, <1>15 DEF Good, nm2, r, a2
<1> QED
  BY <1>7, <1>16 DEF Fits

LEMMA EndArgumentFits ==
  ASSUME NEW h, Before(h), Well, EndArgument
  PROVE  Fits
<1> DEFINE x == PushStack(blocks[cur])
           bs == [blocks EXCEPT ![cur] = x]
           n == top.post
           nonvoid == top.done
<1>1. /\ at = "value" /\ frames # <<>> /\ top.k = "call" /\ scope' = scope
      /\ IF top.n > 1 THEN /\ Replace([top EXCEPT !.n = top.n - 1])
                           /\ at' = "expr" /\ cur' = cur /\ blocks' = bs
         ELSE /\ frames' = Below /\ cur' = top.oth /\ at' = "value"
              /\ blocks' = Invoke(bs, cur, top.oth, n, nonvoid)
  <2>1. Returned("call") /\ scope' = scope
    BY DEF EndArgument
  <2>2. IF top.n > 1 THEN /\ Replace([top EXCEPT !.n = top.n - 1])
                          /\ at' = "expr" /\ cur' = cur /\ blocks' = bs
        ELSE /\ frames' = Below /\ cur' = top.oth /\ at' = "value"
             /\ blocks' = Invoke(bs, cur, top.oth, n, nonvoid)
    BY DEF EndArgument, Value, Produce
  <2> QED
    BY <2>1, <2>2 DEF Returned, Waiting
<1>2. CASE top.n > 1
  BY <1>1, <1>2, MoreFits
<1>3. CASE ~(top.n > 1)
  <2>1. /\ cur # NoBlock /\ cur \in DOMAIN blocks /\ blocks \in Seq(Block) /\ Whole(blocks)
        /\ Fields = DOMAIN blocks[cur] /\ blocks[cur] \in Block
    BY <1>1, ExprFacts
  <2>2. /\ top \in Frames /\ FrameOK(Len(blocks), top)
        /\ h[Len(frames) - 1] \in Nat
        /\ Len(blocks[cur].stack) = h[Len(frames) - 1] + Pushed(top)
    BY <1>1, TopFacts DEF Before
  <2>3. n \in Nat /\ top.n \in Nat /\ top.n \in 1 .. n + 1
    BY <1>1, <2>2 DEF Frames, FrameOK
  <2>4. Pushed(top) = n
    BY <1>1, <1>3, <2>3 DEF Pushed
  <2>5. Kin(x, blocks[cur]) /\ x \in Block /\ Len(x.stack) = Len(blocks[cur].stack) + 1
    BY <2>1, StackKin, PushFills DEF Fills
  <2>6. n + 1 <= Len(x.stack)
    BY <2>2, <2>3, <2>4, <2>5
  <2> HIDE DEF x
  <2>7. bs \in Seq(Block) /\ Len(bs) = Len(blocks) /\ bs[cur] = x
    BY <2>1, <2>5
  <2>8. bs = [blocks EXCEPT ![cur] = x]
    OBVIOUS
  <2> HIDE DEF bs, n, nonvoid
  <2>9. Keeps(blocks, bs) /\ Whole(bs)
    BY <2>1, <2>5, <2>7, <2>8, PutKeeps, KeepsWhole
  <2>10. /\ frames' = Below /\ cur' = top.oth /\ at' = "value"
         /\ blocks' = Invoke(bs, cur, top.oth, n, nonvoid)
    BY <1>1, <1>3
  <2>11. n + 1 <= Len(bs[cur].stack)
    BY <2>6, <2>7
  <2> QED
    BY <1>1, <2>3, <2>7, <2>9, <2>10, <2>11, CallLeaves
<1> QED
  BY <1>2, <1>3

-----------------------------------------------------------------------------
(* Expressions.                                                            *)

LEMMA ExpressionFits ==
  ASSUME NEW h, Before(h), Outcome, AnExpression
  PROVE  Fits
<1>1. ASSUME ~Well PROVE Fits
  BY <1>1, StoppedFits DEF Outcome
<1>2. ASSUME Well PROVE Fits
  <2>1. CASE Literal
    BY <1>2, <2>1, LiteralFits
  <2>2. CASE \E s \in Visible : Get(s) \/ Set(s) \/ Compound(s) \/ Postfix(s)
    <3>1. PICK s \in Visible : Get(s) \/ Set(s) \/ Compound(s) \/ Postfix(s)
      BY <2>2
    <3>2. s \in Nat
      BY VisibleNat DEF Before
    <3>3. CASE Set(s)
      BY <1>2, <3>3, OperandsFit
    <3> QED
      BY <1>2, <3>1, <3>2, <3>3, GetFits, CompoundFits, PostfixFits
  <2>3. CASE \/ \E n \in 1 .. 2 : Linear(n)
             \/ InstanceOf \/ Ternary
             \/ \E n \in 2 .. 3 : SetElement(n)
             \/ \E n \in 1 .. 2, postfix \in BOOLEAN : UpdateElement(n, postfix)
    BY <1>2, <2>3, OperandsFit
  <2>4. CASE \E n \in 0 .. MaxArgs, nonvoid \in BOOLEAN : Call(n, nonvoid)
    BY <1>2, <2>4, CallFits, BoundsAssumption
  <2> QED
    BY <2>1, <2>2, <2>3, <2>4 DEF AnExpression
<1> QED
  BY <1>1, <1>2

-----------------------------------------------------------------------------
(* Statements.                                                             *)

LEMMA SettledMode ==
  ASSUME NEW nm, NEW c, NEW fs, NEW sc, NEW a \in Between, Settled(nm, c, fs, sc, a),
         NEW a2 \in Between
  PROVE  Settled(nm, c, fs, sc, a2)
BY DEF Settled, Discipline

\* The block being filled has the names in scope.
LEMMA CurrentScope ==
  ASSUME NEW h, Before(h), cur # NoBlock,
         \/ at \in Between
         \/ frames # <<>> /\ top.k \notin Expr /\ top.k # "docond"
  PROVE  Lists(blocks)[cur] = scope
<1>1. /\ Settled(Lists(blocks), cur, frames, scope, at) /\ frames \in Seq(Frames)
  BY BeforeFacts
<1>2. CASE at \in Between
  BY <1>1, <1>2, CurrentList
<1>3. CASE frames # <<>> /\ top.k \notin Expr /\ top.k # "docond"
  <2>1. top = frames[Len(frames)]
    BY <1>3, BeforeFacts
  <2>2. \A i \in 1 .. Len(frames) - 1 : frames[i].k \in Body
    BY <1>1, <1>3, <2>1, Disciplined DEF Settled
  <2>3. \A i \in DOMAIN frames : i \in 1 .. Len(frames) - 1 \/ i = Len(frames)
    BY <1>1, <1>3
  <2>4. "docond" \notin Body
    BY DEF Body
  <2>5. \A i \in DOMAIN frames : frames[i].k # "docond"
    BY <1>3, <2>1, <2>2, <2>3, <2>4
  <2> DEFINE nm == Lists(blocks)
  <2>6. Settled(nm, cur, frames, scope, at) /\ frames \in Seq(Frames) /\ cur # NoBlock
    BY <1>1
  <2> HIDE DEF nm
  <2>7. nm[cur] = scope
    BY ONLY <2>5, <2>6 DEF Settled, Known
  <2> QED
    BY <2>7 DEF nm
<1> QED
  BY <1>2, <1>3

\* A block gets a symbol.
Gets(bs, c, s, ex, ins) == [bs EXCEPT ![c] = AddSymbol(bs[c], s, ex, ins)]

LEMMA AddedList ==
  ASSUME NEW bs \in Seq(Block), NEW c \in DOMAIN bs, NEW s \in Nat, NEW ex \in BOOLEAN,
         NEW ins \in Int, Whole(bs)
  PROVE  LET bs2 == Gets(bs, c, s, ex, ins)
         IN /\ bs2 \in Seq(Block) /\ Len(bs2) = Len(bs) /\ Whole(bs2)
            /\ Lists(bs2)[c] = Append(Lists(bs)[c], s)
            /\ \A b \in DOMAIN bs : b # c => Lists(bs2)[b] = Lists(bs)[b]
<1> DEFINE x == AddSymbol(bs[c], s, ex, ins)
           bs2 == [bs EXCEPT ![c] = x]
<1>1. bs[c] \in Block
  OBVIOUS
<1>2. x \in Block
  BY <1>1, SymbolFills DEF Fills
<1>3. Names(x.syms) = Append(Names(bs[c].syms), s) /\ x.made = bs[c].made
  <2> DEFINE q == bs[c].syms
             e == [s |-> s, ex |-> ex, ins |-> ins]
  <2>1. q \in Seq(Entry) /\ x.syms = Append(q, e) /\ e.s = s /\ x.made = bs[c].made
    BY <1>1 DEF Block, AddSymbol
  <2> HIDE DEF q, e
  <2>2. Names(Append(q, e)) = Append(Names(q), s)
    BY <2>1 DEF Names
  <2> QED
    BY <2>1, <2>2 DEF q
<1> HIDE DEF x
<1>4. bs2 \in Seq(Block) /\ Len(bs2) = Len(bs) /\ DOMAIN bs2 = DOMAIN bs
      /\ bs2[c] = x /\ \A b \in DOMAIN bs : b # c => bs2[b] = bs[b]
  BY <1>2
<1> HIDE DEF bs2
<1>5. Whole(bs2)
  BY <1>3, <1>4 DEF Whole
<1>6. Lists(bs2)[c] = Append(Lists(bs)[c], s)
  BY <1>3, <1>4 DEF Lists
<1>7. \A b \in DOMAIN bs : b # c => Lists(bs2)[b] = Lists(bs)[b]
  BY <1>4 DEF Lists
<1> QED
  BY <1>4, <1>5, <1>6, <1>7 DEF bs2, x, Gets

LEMMA ClauseFits ==
  ASSUME Well, NEW fs \in Seq(Frames), NEW bs \in Seq(Block), Whole(bs), Len(bs) = Len(blocks),
         cur \in 0 .. Len(blocks), \A i \in DOMAIN fs : FrameOK(Len(bs), fs[i]),
         NEW sc \in Seq(Nat), scope' = sc, Settled(Lists(bs), cur, fs, sc, "stmt"),
         NEW kind \in Between, NEW more \in BOOLEAN, AfterClause(fs, kind, more, cur, bs)
  PROVE  Fits
<1>1. blocks' = bs
  BY DEF AfterClause, Done, Produce
<1>2. CASE more
  <2>1. frames' = fs /\ cur' = cur /\ at' = kind
    BY <1>2 DEF AfterClause
  <2>2. Settled(Lists(bs), cur, fs, sc, kind)
    BY SettledMode DEF Between
  <2>3. Good'
    BY <1>1, <2>1, <2>2, BetweenGood
  <2> QED
    BY <1>1, <2>3 DEF Fits
<1>3. CASE ~more
  <2>1. Done(fs, cur, bs)
    BY <1>3 DEF AfterClause
  <2>2. cur \in 0 .. Len(bs)
    OBVIOUS
  <2>3. Good'
    BY <2>1, <2>2, DoneScopes
  <2> QED
    BY <1>1, <2>3 DEF Fits
<1> QED
  BY <1>2, <1>3

LEMMA DefineBareFits ==
  ASSUME NEW h, Before(h), Well, NEW more \in BOOLEAN, DefineBare(more)
  PROVE  Fits
<1> DEFINE s == symbols'
           no == FALSE
           zero == 0
           bs == Gets(blocks, cur, s, no, zero)
           nm == Lists(blocks)
           nm2 == Lists(bs)
           sc == Append(scope, s)
<1>1. /\ at \in Between /\ cur # NoBlock /\ scope' = sc /\ s = symbols + 1
      /\ AfterClause(frames, "defining", more, cur, bs)
  BY DEF DefineBare, StartsClause, Between, Gets
<1>2. s \in Nat /\ scope \in Seq(Nat)
  BY <1>1 DEF Before, Types
<1>3. /\ Scene(nm, cur, frames, scope) /\ Settled(nm, cur, frames, scope, at)
      /\ frames \in Seq(Frames) /\ blocks \in Seq(Block) /\ Whole(blocks)
      /\ cur \in 0 .. Len(blocks) /\ cur \in DOMAIN blocks /\ DOMAIN nm = DOMAIN blocks
      /\ Len(nm) = Len(blocks) /\ \A i \in DOMAIN frames : FrameOK(Len(blocks), frames[i])
  BY <1>1, BeforeFacts
<1> HIDE DEF s
<1>4. /\ bs \in Seq(Block) /\ Len(bs) = Len(blocks) /\ Whole(bs)
      /\ nm2[cur] = Append(nm[cur], s)
      /\ \A b \in DOMAIN nm : b # cur => nm2[b] = nm[b]
  <2>1. no \in BOOLEAN /\ zero \in Int /\ blocks \in Seq(Block) /\ cur \in DOMAIN blocks
        /\ Whole(blocks)
    BY <1>3
  <2> HIDE DEF no, zero
  <2>2. /\ bs \in Seq(Block) /\ Len(bs) = Len(blocks) /\ Whole(bs)
        /\ nm2[cur] = Append(nm[cur], s)
        /\ \A b \in DOMAIN blocks : b # cur => nm2[b] = nm[b]
    BY ONLY <1>2, <2>1, AddedList
  <2> QED
    BY <1>3, <2>2
<1> HIDE DEF bs
<1>5. nm2 \in Seq(Seq(Nat)) /\ Len(nm2) = Len(nm)
  BY <1>3, <1>4, ListsType
<1> HIDE DEF nm, nm2
<1>6. Settled(nm2, cur, frames, sc, at)
  BY <1>1, <1>2, <1>3, <1>4, <1>5, AddScopes
<1>7. sc \in Seq(Nat)
  BY <1>2
<1> HIDE DEF sc
<1>8. Settled(nm2, cur, frames, sc, "stmt") /\ "defining" \in Between
  BY <1>1, <1>6, SettledMode DEF Between
<1> QED
  BY <1>1, <1>3, <1>4, <1>7, <1>8, ClauseFits DEF nm2

LEMMA EndClauseFits ==
  ASSUME NEW h, Before(h), Well, NEW k \in {"define", "let"}, NEW mode \in Between,
         NEW more \in BOOLEAN, EndClause(k, mode, more)
  PROVE  Fits
<1> DEFINE s == top.sym
           ex == TRUE
           ins == LastInstruction(blocks[cur])
           bs == Gets(blocks, cur, s, ex, ins)
           nm == Lists(blocks)
           nm2 == Lists(bs)
           sc == Append(scope, s)
           fs == SubSeq(frames, 1, Len(frames) - 1)
           a == "stmt"
<1>1. /\ at = "value" /\ frames # <<>> /\ top.k \in {"define", "let"} /\ scope' = sc
      /\ AfterClause(fs, mode, more, cur, bs)
  BY DEF EndClause, Returned, Waiting, Gets, Below
<1>2. /\ cur # NoBlock /\ cur \in DOMAIN blocks /\ blocks \in Seq(Block) /\ Whole(blocks)
      /\ blocks[cur] \in Block /\ a \in Between
  BY <1>1, ExprFacts DEF Between
<1>3. /\ Scene(nm, cur, frames, scope) /\ Settled(nm, cur, frames, scope, at)
      /\ Targets(nm, cur, frames)
      /\ frames \in Seq(Frames) /\ DOMAIN nm = DOMAIN blocks /\ scope \in Seq(Nat)
      /\ cur \in 0 .. Len(blocks) /\ top = frames[Len(frames)] /\ top \in Frames
      /\ Len(nm) = Len(blocks) /\ \A i \in DOMAIN frames : FrameOK(Len(blocks), frames[i])
      /\ nm \in Seq(Seq(Nat))
  BY <1>1, BeforeFacts
<1>4. top.k \notin Expr /\ top.k \notin Body /\ top.k # "docond"
  BY <1>1 DEF Expr, Body
<1>5. nm[cur] = scope /\ top.scope = scope
  BY <1>1, <1>2, <1>4, CurrentScope, TopScope
<1>6. s \in Nat /\ ex \in BOOLEAN /\ ins \in Int
  BY <1>2, <1>3, ParamCountNat DEF Frames
<1>7. /\ fs \in Seq(Frames) /\ \A i \in DOMAIN fs : fs[i] = frames[i] /\ i \in DOMAIN frames
  BY <1>1, <1>3, BelowFacts
<1>8. More(nm, nm)
  BY <1>3 DEF More
<1> HIDE DEF s, ex, ins, a
<1>9. /\ bs \in Seq(Block) /\ Len(bs) = Len(blocks) /\ Whole(bs)
      /\ nm2[cur] = Append(nm[cur], s)
      /\ \A b \in DOMAIN nm : b # cur => nm2[b] = nm[b]
  <2>1. /\ bs \in Seq(Block) /\ Len(bs) = Len(blocks) /\ Whole(bs)
        /\ nm2[cur] = Append(nm[cur], s)
        /\ \A b \in DOMAIN blocks : b # cur => nm2[b] = nm[b]
    BY ONLY <1>2, <1>6, AddedList
  <2> QED
    BY <1>3, <2>1
<1> HIDE DEF bs
<1>10. nm2 \in Seq(Seq(Nat)) /\ Len(nm2) = Len(nm)
  BY <1>3, <1>9, ListsType
<1> HIDE DEF nm, nm2
<1>11. Settled(nm, cur, fs, scope, a)
  <2>1. /\ cur \in 0 .. Len(nm) /\ frames[Len(frames)].k \notin Expr
        /\ scope = frames[Len(frames)].scope /\ nm[cur] = scope
    BY <1>3, <1>4, <1>5
  <2> QED
    BY <1>1, <1>2, <1>3, <1>8, <2>1, LeaveScopes
<1>12. Scene(nm, cur, fs, scope)
  <2>1. /\ nm \in Seq(Seq(Nat)) /\ cur \in 0 .. Len(nm) /\ scope \in Seq(Nat)
        /\ \A i \in DOMAIN frames : FrameOK(Len(nm), frames[i])
        /\ \A i \in DOMAIN frames : cur \notin Pending(frames[i])
        /\ \A i, j \in DOMAIN frames : i # j => Pending(frames[i]) \cap Pending(frames[j]) = {}
    BY <1>3 DEF Scene
  <2> HIDE DEF fs
  <2> QED
    BY <1>7, <2>1 DEF Scene
<1> HIDE DEF fs
<1>13. Settled(nm2, cur, fs, sc, a)
  BY <1>2, <1>6, <1>9, <1>10, <1>11, <1>12, AddScopes
<1>14. sc \in Seq(Nat)
  BY <1>3, <1>6
<1> HIDE DEF sc
<1>15. \A i \in DOMAIN fs : FrameOK(Len(bs), fs[i])
  BY <1>3, <1>7, <1>9
<1> QED
  BY <1>1, <1>3, <1>7, <1>9, <1>13, <1>14, <1>15, ClauseFits DEF nm2, a

LEMMA EnterFits ==
  ASSUME NEW h, Before(h), Well, at \in Between, cur # NoBlock, NEW g \in Frames, Enter(g),
         g.k \in {"define", "let", "discard", "if", "return"}, g.scope = scope,
         UNCHANGED <<blocks, cur, scope>>, at' = "expr"
  PROVE  Fits /\ Calm
<1>1. /\ blocks \in Seq(Block) /\ Whole(blocks)
  BY BeforeFacts
<1>2. More(Lists(blocks), Lists(blocks'))
  BY <1>1, KeepsSame, KeepsLists
<1>3. /\ Pending(g) = {} /\ g.k \in Mild /\ g.k \notin Expr /\ g.k # "compound" /\ g.k # "call"
      /\ "expr" \notin Between
  BY PendingIs DEF Mild, Expr, Between
<1>4. Good'
  BY <1>2, <1>3, GoodEnter
<1>5. Calm
  <2>1. cur \in DOMAIN blocks
    BY BeforeFacts
  <2>2. Kin(blocks[cur], blocks[cur]) /\ [blocks EXCEPT ![cur] = blocks[cur]] = blocks
    BY <1>1, <2>1, KinItself
  <2> QED
    BY <1>3, <2>2 DEF Calm
<1> QED
  BY <1>1, <1>4, <1>5 DEF Fits

LEMMA WaitsFit ==
  ASSUME NEW h, Before(h), Well,
         DefineValue \/ Let \/ ExpressionStatement \/ If \/ Return
  PROVE  Fits /\ Calm
<1>1. CASE DefineValue \/ Let
  <2>1. PICK k \in {"define", "let"} :
          /\ at \in Between /\ cur # NoBlock /\ Enter([Frame(k) EXCEPT !.sym = symbols'])
          /\ UNCHANGED <<blocks, cur, scope>> /\ at' = "expr" /\ symbols' = symbols + 1
    BY <1>1 DEF DefineValue, Let, StartsClause, Between
  <2> DEFINE s == symbols'
             F == Frame(k)
             g == [F EXCEPT !.sym = s]
  <2>2. s \in Nat
    BY <2>1 DEF Before, Types
  <2>3. F \in Frames /\ F.k = k /\ F.scope = scope
    BY FrameScope DEF FrameKinds
  <2>4. Enter(g)
    BY <2>1
  <2> HIDE DEF F, s
  <2>5. g \in Frames /\ g.k = k /\ g.scope = scope
    BY <2>2, <2>3, WithSym
  <2> HIDE DEF g
  <2> QED
    BY <2>1, <2>4, <2>5, EnterFits
<1>2. CASE ExpressionStatement \/ If \/ Return
  <2>1. PICK k \in {"discard", "if", "return"} :
          /\ at \in Between /\ cur # NoBlock /\ Enter(Frame(k))
          /\ UNCHANGED <<blocks, cur, scope>> /\ at' = "expr"
    BY <1>2 DEF ExpressionStatement, If, Return, Waits, Statement, Between
  <2> DEFINE g == Frame(k)
  <2>2. g \in Frames /\ g.k = k /\ g.scope = scope
    BY FrameScope DEF FrameKinds
  <2> HIDE DEF g
  <2> QED
    BY <2>1, <2>2, EnterFits DEF g
<1> QED
  BY <1>1, <1>2

LEMMA ForkFacts ==
  ASSUME NEW h, Before(h), Statement("block") \/ Statement("while") \/ Statement("do"),
         blocks' = ForkBlock(blocks, cur)
  PROVE  LET d == Len(blocks) + 1
             nm2 == Lists(blocks')
         IN /\ at \in Between /\ cur # NoBlock /\ cur \in DOMAIN blocks
            /\ d # NoBlock /\ d \notin DOMAIN blocks /\ d \in Nat /\ cur \in Nat /\ cur # d
            /\ nm2[d] = scope /\ nm2[cur] = scope /\ Begins(scope, scope)
            /\ More(Lists(blocks), nm2) /\ Whole(blocks')
<1> DEFINE d == Len(blocks) + 1
           nm2 == Lists(blocks')
           nm == Lists(blocks)
<1>1. at \in Between /\ cur # NoBlock
  BY DEF Statement, Between
<1>2. /\ cur \in DOMAIN blocks /\ blocks \in Seq(Block) /\ Whole(blocks)
      /\ scope \in Seq(Nat) /\ DOMAIN nm = DOMAIN blocks
  BY <1>1, BeforeFacts
<1>3. /\ Keeps(blocks, blocks') /\ d \notin DOMAIN blocks /\ Whole(blocks')
      /\ nm2[d] = nm[cur]
  <2> DEFINE bs == ForkBlock(blocks, cur)
  <2>1. Keeps(blocks, bs) /\ d \notin DOMAIN blocks /\ Whole(bs) /\ Lists(bs)[d] = nm[cur]
    BY ONLY <1>2, ForkKeeps
  <2> QED
    BY <2>1
<1>4. nm[cur] = scope
  BY <1>1, CurrentScope
<1>5. More(nm, nm2)
  BY <1>2, <1>3, KeepsLists
<1>6. nm2[cur] = scope
  BY <1>2, <1>4, <1>5 DEF More
<1>7. d # NoBlock /\ d \in Nat /\ cur \in Nat
  BY <1>2 DEF NoBlock
<1>8. Begins(scope, scope)
  BY <1>2, BeginsItself
<1> HIDE DEF nm, nm2
<1> QED
  BY <1>1, <1>2, <1>3, <1>4, <1>5, <1>6, <1>7, <1>8 DEF nm, nm2

LEMMA NestedFits ==
  ASSUME NEW h, Before(h), Well, Nested
  PROVE  Fits
<1> DEFINE F == Frame("block")
           g == [F EXCEPT !.ctx = cur]
           d == Len(blocks) + 1
           nm2 == Lists(blocks')
<1>1. /\ Statement("block") /\ Enter(g) /\ cur' = d /\ at' = "stmt" /\ scope' = scope
      /\ blocks' = ForkBlock(blocks, cur)
  BY DEF Nested, Produce
<1>2. /\ at \in Between /\ cur # NoBlock /\ cur \in DOMAIN blocks
      /\ d # NoBlock /\ d \notin DOMAIN blocks /\ d \in Nat /\ cur \in Nat /\ cur # d
      /\ nm2[d] = scope /\ nm2[cur] = scope /\ Begins(scope, scope)
      /\ More(Lists(blocks), nm2) /\ Whole(blocks')
  BY <1>1, ForkFacts
<1>3. F \in Frames /\ F.k = "block" /\ F.scope = scope
  BY FrameScope DEF FrameKinds
<1> HIDE DEF F, d
<1>4. g \in Frames /\ g.k = "block" /\ g.scope = scope /\ g.ctx = cur
  BY <1>2, <1>3 DEF Frames
<1> HIDE DEF g
<1>5. Pending(g) = {} /\ Fixed(g) = {cur}
  BY <1>4, PendingIs DEF Fixed
<1> HIDE DEF nm2
<1>6. Knows(nm2, g, scope)
  BY <1>2, <1>4, <1>5 DEF Knows
<1>7. Good'
  BY <1>1, <1>2, <1>4, <1>5, <1>6, GoodFork DEF nm2, Between
<1> QED
  BY <1>2, <1>7 DEF Fits

LEMMA WhileFits ==
  ASSUME NEW h, Before(h), Well, While
  PROVE  Fits
<1> DEFINE F == Frame("while")
           d == Len(blocks) + 1
           g == [F EXCEPT !.oth = d]
           nm2 == Lists(blocks')
<1>1. /\ Statement("while") /\ Enter(g) /\ cur' = d /\ at' = "expr" /\ scope' = scope
      /\ blocks' = ForkBlock(blocks, cur)
  BY DEF While, Produce
<1>2. /\ at \in Between /\ cur # NoBlock /\ cur \in DOMAIN blocks
      /\ d # NoBlock /\ d \notin DOMAIN blocks /\ d \in Nat /\ cur \in Nat /\ cur # d
      /\ nm2[d] = scope /\ nm2[cur] = scope /\ Begins(scope, scope)
      /\ More(Lists(blocks), nm2) /\ Whole(blocks')
  BY <1>1, ForkFacts
<1>3. F \in Frames /\ F.k = "while" /\ F.scope = scope
  BY FrameScope DEF FrameKinds
<1> HIDE DEF F, d
<1>4. g \in Frames /\ g.k = "while" /\ g.scope = scope /\ g.oth = d
  BY <1>2, <1>3 DEF Frames
<1> HIDE DEF g
<1>5. Pending(g) = {} /\ Fixed(g) = {}
  BY <1>4, PendingIs DEF Fixed
<1> HIDE DEF nm2
<1>6. Knows(nm2, g, scope)
  BY <1>2, <1>4, <1>5 DEF Knows
<1>7. Good'
  BY <1>1, <1>2, <1>4, <1>5, <1>6, GoodFork DEF nm2, Between
<1> QED
  BY <1>2, <1>7 DEF Fits

LEMMA DoWhileFits ==
  ASSUME NEW h, Before(h), Well, DoWhile
  PROVE  Fits
<1> DEFINE F == Frame("do")
           d == Len(blocks) + 1
           g == [F EXCEPT !.par = cur, !.oth = d, !.ctx = d, !.prev = d]
           nm2 == Lists(blocks')
<1>1. /\ Statement("do") /\ Enter(g) /\ cur' = d /\ at' = "stmt" /\ scope' = scope
      /\ blocks' = ForkBlock(blocks, cur)
  BY DEF DoWhile, Produce
<1>2. /\ at \in Between /\ cur # NoBlock /\ cur \in DOMAIN blocks
      /\ d # NoBlock /\ d \notin DOMAIN blocks /\ d \in Nat /\ cur \in Nat /\ cur # d
      /\ nm2[d] = scope /\ nm2[cur] = scope /\ Begins(scope, scope)
      /\ More(Lists(blocks), nm2) /\ Whole(blocks')
  BY <1>1, ForkFacts
<1>3. F \in Frames /\ F.k = "do" /\ F.scope = scope
  BY FrameScope DEF FrameKinds
<1>9. F.brk = <<>> /\ F.cont = <<>>
  BY DEF Frame
<1> HIDE DEF F, d
<1>4. /\ g \in Frames /\ g.k = "do" /\ g.scope = scope /\ g.par = cur /\ g.oth = d /\ g.ctx = d
      /\ g.prev = d /\ g.brk = <<>> /\ g.cont = <<>>
  BY <1>2, <1>3, <1>9 DEF Frames
<1> HIDE DEF g
<1>10. Blocks(g.brk) = {} /\ Blocks(g.cont) = {}
  BY <1>4 DEF Blocks
<1>5. Pending(g) = {} /\ Fixed(g) = {cur}
  BY <1>4, <1>10, PendingIs DEF Fixed
<1> HIDE DEF nm2
<1>6. Knows(nm2, g, scope)
  BY <1>2, <1>4, <1>5, <1>10 DEF Knows
<1>7. Good'
  BY <1>1, <1>2, <1>4, <1>5, <1>6, GoodFork DEF nm2, Between
<1> QED
  BY <1>2, <1>7 DEF Fits

LEMMA ListedFields ==
  ASSUME NEW f \in Frames, NEW s \in Seq(Nat),
         NEW g, g = [f EXCEPT !.brk = s] \/ g = [f EXCEPT !.cont = s]
  PROVE  /\ g.k = f.k /\ g.scope = f.scope /\ g.par = f.par /\ g.oth = f.oth /\ g.ctx = f.ctx
         /\ g.prev = f.prev /\ g.done = f.done
         /\ (g.brk = s /\ g.cont = f.cont) \/ (g.cont = s /\ g.brk = f.brk)
<1>1. CASE g = [f EXCEPT !.brk = s]
  BY <1>1 DEF Frames
<1>2. CASE g = [f EXCEPT !.cont = s]
  BY <1>2 DEF Frames
<1> QED
  BY <1>1, <1>2

LEMMA ControlFits ==
  ASSUME NEW h, Before(h), Well, NEW k, NEW i, Control(k, i)
  PROVE  Fits
<1> DEFINE nm == Lists(blocks)
           n == Len(blocks)
<1>1. /\ at = "stmt" /\ cur # NoBlock /\ i \in DOMAIN frames /\ cur' = NoBlock /\ at' = "stmt"
      /\ scope' = scope /\ at \in Between
  BY DEF Control, Statement, Between
<1>2. /\ Scene(nm, cur, frames, scope) /\ Settled(nm, cur, frames, scope, at)
      /\ Targets(nm, cur, frames) /\ frames \in Seq(Frames) /\ blocks \in Seq(Block)
      /\ Whole(blocks) /\ cur \in DOMAIN blocks /\ frames' \in Seq(Frames)
      /\ n \in Nat /\ cur \in 1 .. n /\ FrameOK(n, frames[i]) /\ frames[i] \in Frames
      /\ cur \notin Pending(frames[i])
  <2>1. /\ Scene(nm, cur, frames, scope) /\ Settled(nm, cur, frames, scope, at)
        /\ Targets(nm, cur, frames) /\ frames \in Seq(Frames) /\ blocks \in Seq(Block)
        /\ Whole(blocks) /\ cur \in DOMAIN blocks /\ frames' \in Seq(Frames)
        /\ FrameOK(n, frames[i])
    BY <1>1, BeforeFacts, AfterFacts
  <2>2. cur \notin Pending(frames[i])
    BY <1>1, <2>1 DEF Scene
  <2> HIDE DEF nm
  <2> QED
    BY <1>1, <2>1, <2>2
<1>3. CASE frames[i].k = "do"
  <2> DEFINE f == frames[i]
             s == IF k = "break" THEN <<cur>> \o f.brk ELSE <<cur>> \o f.cont
             g == IF k = "break" THEN [f EXCEPT !.brk = <<cur>> \o f.brk]
                                 ELSE [f EXCEPT !.cont = <<cur>> \o f.cont]
  <2>1. blocks' = blocks /\ frames' = [frames EXCEPT ![i] = g]
    BY <1>1, <1>2, <1>3 DEF Control, Produce
  <2>2. /\ FrameOK(n, f) /\ f.k = "do" /\ f \in Frames /\ cur \notin Pending(f)
    BY <1>2, <1>3
  <2>3. f.brk \in Seq(1 .. n) /\ f.cont \in Seq(1 .. n)
    BY <2>2 DEF FrameOK
  <2>4. \/ g = [f EXCEPT !.brk = <<cur>> \o f.brk]
        \/ g = [f EXCEPT !.cont = <<cur>> \o f.cont]
    OBVIOUS
  <2>5. s \in Seq(Nat) /\ (g = [f EXCEPT !.brk = s] \/ g = [f EXCEPT !.cont = s])
    <3>1. <<cur>> \o f.brk \in Seq(1 .. n) /\ <<cur>> \o f.cont \in Seq(1 .. n)
      BY <1>2, <2>3
    <3>2. s \in Seq(Nat)
      BY <1>2, <3>1
    <3> QED
      BY <3>2
  <2>6. \A b : /\ b \in Blocks(<<cur>> \o f.brk) <=> b = cur \/ b \in Blocks(f.brk)
               /\ b \in Blocks(<<cur>> \o f.cont) <=> b = cur \/ b \in Blocks(f.cont)
    <3> DEFINE T == 1 .. n
    <3>1. cur \in T /\ f.brk \in Seq(T) /\ f.cont \in Seq(T)
      BY <1>2, <2>3
    <3> HIDE DEF T, f
    <3> QED
      BY ONLY <3>1, Prepend
  <2> HIDE DEF f
  <2>7. g \in Frames
    <3> HIDE DEF g, n, s
    <3> QED
      BY <1>2, <2>2, <2>4, ListedFrame
  <2>8. IF k = "break" THEN g.brk = <<cur>> \o f.brk /\ g.cont = f.cont
                       ELSE g.cont = <<cur>> \o f.cont /\ g.brk = f.brk
    BY <2>2 DEF Frames
  <2>9. /\ Blocks(g.brk) \subseteq Blocks(f.brk) \cup {cur}
        /\ Blocks(g.cont) \subseteq Blocks(f.cont) \cup {cur}
    BY <2>6, <2>8
  <2> HIDE DEF g, s
  <2>10. /\ g.k = f.k /\ g.scope = f.scope /\ g.par = f.par /\ g.oth = f.oth /\ g.ctx = f.ctx
         /\ g.prev = f.prev /\ g.done = f.done
    BY <2>2, <2>5, ListedFields
  <2> DEFINE fs2 == frames'
  <2>11. fs2 = [frames EXCEPT ![i] = g]
    BY <2>1
  <2>12. Settled(nm, cur, frames, scope, "stmt")
    BY <1>1, <1>2
  <2> HIDE DEF nm, fs2
  <2>13. Settled(nm, NoBlock, fs2, scope, "stmt")
    BY <1>1, <1>2, <1>3, <2>2, <2>7, <2>9, <2>10, <2>11, <2>12, ControlScopes DEF f
  <2>14. Good'
    BY <1>1, <1>2, <2>1, <2>13, BetweenGood DEF nm, fs2
  <2> QED
    BY <1>2, <2>1, <2>14 DEF Fits
<1>4. CASE frames[i].k = "wbody"
  <2> DEFINE d == IF k = "break" THEN frames[i].post ELSE frames[i].oth
             bs == JoinBlocks(blocks, {cur}, d)
             nm2 == Lists(blocks')
             c2 == NoBlock
             a2 == "stmt"
  <2>1. blocks' = bs /\ frames' = frames
    BY <1>4 DEF Control, Produce
  <2>2. d \in DOMAIN blocks /\ {cur} \in SUBSET DOMAIN blocks
    BY <1>2, <1>4 DEF FrameOK
  <2> HIDE DEF d
  <2>3. Keeps(blocks, bs) /\ Len(bs) = Len(blocks)
    BY ONLY <1>2, <2>2, JoinKeeps
  <2>4. Whole(blocks') /\ More(nm, nm2)
    BY <1>2, <2>1, <2>3, KeepsWhole, KeepsLists
  <2>5. c2 \in 0 .. Len(nm2) /\ c2 = NoBlock /\ a2 \in Between
    BY <1>1, AfterFacts DEF Between
  <2> HIDE DEF nm, nm2, c2, a2
  <2>6. Settled(nm2, c2, frames, scope, a2) /\ Targets(nm2, c2, frames)
    BY <1>1, <1>2, <2>4, <2>5, StayScopes
  <2>7. Good'
    BY <1>1, <1>2, <2>1, <2>5, <2>6, BetweenGood DEF nm2, a2
  <2> QED
    BY <2>4, <2>7 DEF Fits
<1> QED
  BY <1>3, <1>4 DEF Control

LEMMA LeaveFitting ==
  ASSUME NEW h, Before(h), frames # <<>>, top.k \notin Expr,
         NEW bs, Keeps(blocks, bs), Whole(bs), NEW c, Done(Below, c, bs), c \in 0 .. Len(bs),
         c = NoBlock \/ c = cur \/ c \notin DOMAIN blocks \/ c \in Pending(top),
         scope' = top.scope, c # NoBlock => Lists(bs)[c] = top.scope
  PROVE  Fits
<1>1. Good'
  BY DoneLeave
<1>2. blocks' = bs
  BY DEF Done, Produce
<1> QED
  BY <1>1, <1>2 DEF Fits

\* The end of the statement joins the blocks ps, in a block with the names from
\* before it.
LEMMA TangleFits ==
  ASSUME NEW h, Before(h), frames # <<>>, top.k \notin Expr,
         NEW c \in DOMAIN blocks, NEW ps, Blocks(ps) \subseteq DOMAIN blocks, 1 \in DOMAIN ps,
         Lists(blocks)[c] = top.scope, \A b \in Blocks(ps) : Begins(top.scope, Lists(blocks)[b]),
         Done(Below, Len(blocks) + 1, TangleBlocks(blocks, c, ps)), scope' = top.scope
  PROVE  Fits
<1> DEFINE d == Len(blocks) + 1
           bs == TangleBlocks(blocks, c, ps)
<1>1. blocks \in Seq(Block) /\ Whole(blocks)
  BY BeforeFacts
<1>2. Fitting(blocks, c, ps)
  BY DEF Fitting
<1>3. /\ Keeps(blocks, bs) /\ Len(bs) = d /\ d \in DOMAIN bs /\ d \notin DOMAIN blocks
      /\ Lists(bs)[d] = Lists(blocks)[c] /\ Whole(bs)
  <2>1. c \in DOMAIN blocks /\ Blocks(ps) \subseteq DOMAIN blocks /\ 1 \in DOMAIN ps
    OBVIOUS
  <2> QED
    BY ONLY <1>1, <1>2, <2>1, TangleKeeps
<1>4. d \in 0 .. Len(bs)
  BY <1>1, <1>3
<1> HIDE DEF bs, d
<1>5. Lists(bs)[d] = top.scope /\ Done(Below, d, bs)
  BY <1>3 DEF bs, d
<1> QED
  BY <1>3, <1>4, <1>5, LeaveFitting

LEMMA EndExpressionFits ==
  ASSUME NEW h, Before(h), EndExpression
  PROVE  Fits
<1>1. /\ at = "value" /\ frames # <<>> /\ top.k = "discard" /\ scope' = scope
      /\ Done(Below, cur, blocks)
  BY DEF EndExpression, Returned, Waiting
<1>2. /\ cur # NoBlock /\ blocks \in Seq(Block) /\ Whole(blocks) /\ cur \in 0 .. Len(blocks)
  BY <1>1, ExprFacts, BeforeFacts
<1>3. top.k \notin Expr /\ top.k \notin Body /\ top.k # "docond"
  BY <1>1 DEF Expr, Body
<1>4. Lists(blocks)[cur] = scope /\ top.scope = scope
  BY <1>1, <1>2, <1>3, CurrentScope, TopScope
<1>5. Keeps(blocks, blocks)
  BY <1>2, KeepsSame
<1> QED
  BY <1>1, <1>2, <1>3, <1>4, <1>5, LeaveFitting

LEMMA EndReturnFits ==
  ASSUME NEW h, Before(h), Well, EndReturn
  PROVE  Fits
<1> DEFINE args == <<LastInstruction(blocks[cur])>>
           x == ReturnTail(blocks[cur], args)
           bs == [blocks EXCEPT ![cur] = x]
           c == NoBlock
<1>1. /\ at = "value" /\ frames # <<>> /\ top.k = "return" /\ scope' = scope
      /\ Done(Below, c, bs)
  BY DEF EndReturn, Returned, Waiting
<1>2. /\ cur \in DOMAIN blocks /\ blocks \in Seq(Block) /\ Whole(blocks)
      /\ Fields = DOMAIN blocks[cur] /\ blocks[cur] \in Block
  BY <1>1, ExprFacts
<1>3. top.k \notin Expr /\ top.k \notin Body
  BY <1>1 DEF Expr, Body
<1>4. top.scope = scope
  BY <1>1, <1>3, TopScope
<1>5. Kin(x, blocks[cur])
  <2> DEFINE b == blocks[cur]
             r == Emit(b, "unwrap", <<0>>)
             t == [OpenTail EXCEPT !.type = "return", !.first = LastInstruction(r),
                                   !.args = <<0>> \o args]
  <2>1. x = [r EXCEPT !.tail = t]
    BY DEF ReturnTail
  <2>2. Fields = DOMAIN b
    BY <1>2
  <2> HIDE DEF b
  <2>3. Kin(r, b)
    BY <2>2, EmitKin
  <2>4. Fields = DOMAIN r
    BY <2>2, <2>3, KinFields
  <2> HIDE DEF t, r, x
  <2>5. Kin(x, r)
    BY <2>1, <2>4, TailKin
  <2> QED
    BY <2>3, <2>5, KinTrans DEF b
<1> HIDE DEF x
<1>6. bs \in Seq(Block)
  BY <1>1, AfterFacts DEF Done, Produce
<1>7. bs = [blocks EXCEPT ![cur] = x]
  OBVIOUS
<1> HIDE DEF bs
<1>8. Keeps(blocks, bs) /\ Whole(bs)
  BY <1>2, <1>5, <1>6, <1>7, PutKeeps, KeepsWhole
<1>9. c = NoBlock /\ c \in 0 .. Len(bs)
  BY <1>6 DEF NoBlock
<1> HIDE DEF c
<1> QED
  BY <1>1, <1>3, <1>4, <1>8, <1>9, LeaveFitting

LEMMA BodyFacts ==
  ASSUME NEW h, Before(h), NEW k, EndsBody(k)
  PROVE  /\ frames # <<>> /\ top.k = k /\ at = "stmt" /\ at \in Between
         /\ top \in Frames /\ FrameOK(Len(blocks), top) /\ blocks \in Seq(Block) /\ Whole(blocks)
         /\ Knows(Lists(blocks), top, scope) /\ Begins(top.scope, scope)
         /\ top.scope \in Seq(Nat) /\ scope \in Seq(Nat)
         /\ cur # NoBlock => cur \in DOMAIN blocks /\ Lists(blocks)[cur] = scope
         /\ Keeps(blocks, blocks) /\ cur \notin Pending(top)
<1>1. frames # <<>> /\ top.k = k /\ at = "stmt" /\ at \in Between
  BY DEF EndsBody, Between
<1>2. /\ top \in Frames /\ FrameOK(Len(blocks), top) /\ blocks \in Seq(Block) /\ Whole(blocks)
      /\ scope \in Seq(Nat) /\ (cur # NoBlock => cur \in DOMAIN blocks)
      /\ Scene(Lists(blocks), cur, frames, scope)
      /\ top = frames[Len(frames)] /\ Len(frames) \in DOMAIN frames
  BY <1>1, BeforeFacts
<1>3. cur # NoBlock => Lists(blocks)[cur] = scope
  BY <1>1, CurrentScope
<1>4. cur \notin Pending(top)
  BY <1>2 DEF Scene
<1> QED
  BY <1>1, <1>2, <1>3, <1>4, TopScope, KeepsSame

LEMMA EndsBlocks ==
  ASSUME NEW a, NEW b, Ends(a, b) # <<>>
  PROVE  /\ 1 \in DOMAIN Ends(a, b)
         /\ \A x \in Blocks(Ends(a, b)) : x # NoBlock /\ (x = a \/ x = b)
<1>1. PICK c, d : /\ c \in {a, b} \ {NoBlock} /\ d \in {a, b} \ {NoBlock}
                  /\ Ends(a, b) = <<c>> \/ Ends(a, b) = <<c, d>>
  BY DEF Ends
<1>2. 1 \in DOMAIN <<c>> /\ 1 \in DOMAIN <<c, d>>
  OBVIOUS
<1>3. \A i \in DOMAIN <<c>> : <<c>>[i] = c
  OBVIOUS
<1>4. \A i \in DOMAIN <<c, d>> : <<c, d>>[i] \in {c, d}
  <2> DEFINE s == <<c, d>>
  <2>1. s \in Seq({c, d})
    OBVIOUS
  <2> HIDE DEF s
  <2>2. \A i \in DOMAIN s : s[i] \in {c, d}
    BY <2>1
  <2> QED
    BY <2>2 DEF s
<1> QED
  BY <1>1, <1>2, <1>3, <1>4 DEF Blocks

LEMMA EndElseFits ==
  ASSUME NEW h, Before(h), EndElse
  PROVE  Fits
<1> DEFINE ps == Ends(top.oth, cur)
           nm == Lists(blocks)
           c == NoBlock
<1>1. /\ EndsBody("else") /\ scope' = top.scope
      /\ IF ps = <<>> THEN Done(Below, c, blocks)
         ELSE Done(Below, Len(blocks) + 1, TangleBlocks(blocks, top.ctx, ps))
  BY DEF EndElse
<1>2. /\ frames # <<>> /\ top.k = "else"
      /\ FrameOK(Len(blocks), top) /\ blocks \in Seq(Block) /\ Whole(blocks)
      /\ Knows(nm, top, scope) /\ Begins(top.scope, scope)
      /\ cur # NoBlock => cur \in DOMAIN blocks /\ nm[cur] = scope
      /\ Keeps(blocks, blocks)
  BY <1>1, BodyFacts
<1>3. top.k \notin Expr
  BY <1>2 DEF Expr
<1>4. c = NoBlock /\ c \in 0 .. Len(blocks)
  BY <1>2 DEF NoBlock
<1>5. CASE ps = <<>>
  <2>1. Done(Below, c, blocks)
    BY <1>1, <1>5
  <2> HIDE DEF c
  <2> QED
    BY <1>1, <1>2, <1>3, <1>4, <2>1, LeaveFitting
<1>6. CASE ps # <<>>
  <2>1. /\ 1 \in DOMAIN ps
        /\ \A x \in Blocks(ps) : x # NoBlock /\ (x = top.oth \/ x = cur)
    BY <1>6, EndsBlocks
  <2> HIDE DEF ps
  <2>2. top.ctx \in DOMAIN blocks /\ (top.oth # NoBlock => top.oth \in DOMAIN blocks)
    BY <1>2 DEF FrameOK, NoBlock
  <2>3. nm[top.ctx] = top.scope /\ (top.oth # NoBlock => Begins(top.scope, nm[top.oth]))
    BY <1>2 DEF Knows, Fixed
  <2> HIDE DEF nm
  <2>4. /\ Blocks(ps) \subseteq DOMAIN blocks
        /\ \A b \in Blocks(ps) : Begins(top.scope, nm[b])
    BY <1>2, <2>1, <2>2, <2>3
  <2>5. Done(Below, Len(blocks) + 1, TangleBlocks(blocks, top.ctx, ps))
    BY <1>1, <1>6
  <2> QED
    BY <1>1, <1>2, <1>3, <2>1, <2>2, <2>3, <2>4, <2>5, TangleFits DEF nm
<1> QED
  BY <1>5, <1>6

LEMMA EndNestedFits ==
  ASSUME NEW h, Before(h), EndNested
  PROVE  Fits
<1> DEFINE nm == Lists(blocks)
           ps == <<cur>>
<1>1. /\ EndsBody("block") /\ scope' = top.scope
      /\ IF cur = NoBlock THEN status' = "crashed" /\ blocks' = blocks
         ELSE Done(Below, Len(blocks) + 1, TangleBlocks(blocks, top.ctx, ps))
  BY DEF EndNested, RejoinBlock
<1>2. /\ frames # <<>> /\ top.k = "block"
      /\ FrameOK(Len(blocks), top) /\ blocks \in Seq(Block) /\ Whole(blocks)
      /\ Knows(nm, top, scope) /\ Begins(top.scope, scope)
      /\ cur # NoBlock => cur \in DOMAIN blocks /\ nm[cur] = scope
  BY <1>1, BodyFacts
<1>3. CASE cur = NoBlock
  BY <1>1, <1>3, StoppedFits
<1>4. CASE cur # NoBlock
  <2>1. Blocks(ps) = {cur} /\ 1 \in DOMAIN ps
    BY <1>2, <1>4, FittingSelf
  <2> HIDE DEF ps
  <2>2. top.ctx \in DOMAIN blocks /\ top.k \notin Expr
    BY <1>2 DEF FrameOK, Expr
  <2>3. nm[top.ctx] = top.scope
    BY <1>2 DEF Knows, Fixed
  <2> HIDE DEF nm
  <2>4. Blocks(ps) \subseteq DOMAIN blocks /\ \A b \in Blocks(ps) : Begins(top.scope, nm[b])
    BY <1>2, <1>4, <2>1
  <2>5. Done(Below, Len(blocks) + 1, TangleBlocks(blocks, top.ctx, ps))
    BY <1>1, <1>4
  <2> QED
    BY <1>1, <1>2, <2>1, <2>2, <2>3, <2>4, <2>5, TangleFits DEF nm
<1> QED
  BY <1>3, <1>4

LEMMA EndWhileFits ==
  ASSUME NEW h, Before(h), EndWhile
  PROVE  Fits
<1> DEFINE nm == Lists(blocks)
           S == {cur} \ {NoBlock}
           d == top.oth
           c == top.post
           bs == JoinBlocks(blocks, S, d)
<1>1. EndsBody("wbody") /\ scope' = top.scope /\ Done(Below, c, bs)
  BY DEF EndWhile
<1>2. /\ frames # <<>> /\ top.k = "wbody"
      /\ FrameOK(Len(blocks), top) /\ blocks \in Seq(Block) /\ Whole(blocks)
      /\ Knows(nm, top, scope)
      /\ cur # NoBlock => cur \in DOMAIN blocks
  BY <1>1, BodyFacts
<1>3. d \in DOMAIN blocks /\ c \in DOMAIN blocks /\ c # NoBlock /\ top.k \notin Expr
  BY <1>2 DEF FrameOK, NoBlock, Expr
<1>4. nm[c] = top.scope /\ c \in Pending(top)
  BY <1>2, <1>3, PendingIs DEF Knows, Fixed
<1>5. S \in SUBSET DOMAIN blocks
  BY <1>2
<1> HIDE DEF S, d, c
<1>6. Keeps(blocks, bs) /\ Len(bs) = Len(blocks)
  BY ONLY <1>2, <1>3, <1>5, JoinKeeps
<1> HIDE DEF bs
<1>7. Whole(bs) /\ More(nm, Lists(bs))
  BY <1>2, <1>6, KeepsWhole, KeepsLists
<1>8. DOMAIN nm = DOMAIN blocks
  BY BeforeFacts
<1>9. Lists(bs)[c] = top.scope /\ c \in 0 .. Len(bs)
  BY <1>2, <1>3, <1>4, <1>6, <1>7, <1>8 DEF More
<1> QED
  BY <1>1, <1>2, <1>3, <1>4, <1>6, <1>7, <1>9, LeaveFitting

LEMMA EndIfConditionFits ==
  ASSUME NEW h, Before(h), Well, EndIfCondition
  PROVE  Fits
<1> DEFINE d == Len(blocks) + 1
           e == Len(blocks) + 2
           F == Frame("then")
           g == [F EXCEPT !.ctx = cur, !.oth = e]
           nm == Lists(blocks)
           nm2 == Lists(blocks')
<1>1. /\ at = "value" /\ frames # <<>> /\ top.k = "if" /\ scope' = scope
      /\ Replace(g) /\ cur' = d /\ at' = "stmt" /\ blocks' = BranchInto(blocks, cur)
  BY DEF EndIfCondition, Returned, Waiting, Produce
<1>2. /\ cur # NoBlock /\ cur \in DOMAIN blocks /\ blocks \in Seq(Block) /\ Whole(blocks)
      /\ "stmt" \in Between
  BY <1>1, ExprFacts DEF Between
<1>3. /\ top \in Frames /\ DOMAIN nm = DOMAIN blocks /\ scope \in Seq(Nat)
  BY <1>1, BeforeFacts
<1>4. /\ Keeps(blocks, blocks') /\ Whole(blocks')
      /\ d \in DOMAIN blocks' /\ e \in DOMAIN blocks' /\ d \notin DOMAIN blocks /\ e \notin DOMAIN blocks
      /\ nm2[d] = nm[cur] /\ nm2[e] = nm[cur]
  BY <1>1, <1>2, BranchIntoKeeps
<1>5. More(nm, nm2)
  BY <1>2, <1>4, KeepsLists
<1>6. d # NoBlock /\ e # NoBlock /\ e # d /\ e \in Nat /\ cur \in Nat
  BY <1>2 DEF NoBlock
<1>7. /\ g \in Frames /\ g.k = "then" /\ g.ctx = cur /\ g.oth = e /\ g.scope = scope
  <2>1. F \in Frames /\ F.k = "then" /\ F.scope = scope
    BY <1>3 DEF Frames, FrameKinds, Frame
  <2> HIDE DEF F, e
  <2> QED
    BY <1>6, <2>1 DEF Frames
<1>8. top.scope = scope /\ Begins(scope, scope)
  BY <1>1, <1>3, TopScope, BeginsItself DEF Body
<1>9. nm[cur] = scope
  BY <1>1, <1>2, CurrentScope DEF Expr
<1> HIDE DEF g, d, e
<1>10. nm2[cur] = nm[cur] /\ cur # d /\ cur # e
  BY <1>2, <1>3, <1>4, <1>5 DEF More
<1> HIDE DEF nm, nm2
<1>11. Pending(g) = {e} /\ Fixed(g) = {cur, e} /\ Knows(nm2, g, scope)
  BY <1>4, <1>6, <1>7, <1>8, <1>9, <1>10, PendingIs DEF Fixed, Knows
<1>12. Turns(nm, cur, top, scope, nm2, d, g, scope, "stmt")
  BY <1>1, <1>2, <1>3, <1>4, <1>6, <1>7, <1>8, <1>9, <1>10, <1>11 DEF Turns, Expr, Body
<1> QED
  BY <1>1, <1>3, <1>4, <1>5, <1>7, <1>12, GoodTurn DEF Fits, nm, nm2

LEMMA EndThenFits ==
  ASSUME NEW h, Before(h), Well, EndThen
  PROVE  Fits
<1> DEFINE d == top.oth
           g == [top EXCEPT !.k = "else", !.oth = cur]
           nm == Lists(blocks)
           s == top.scope
<1>1. /\ EndsBody("then") /\ Replace(g) /\ cur' = d /\ scope' = s
      /\ blocks' = blocks /\ at' = at
  BY DEF EndThen
<1>2. /\ frames # <<>> /\ top.k = "then" /\ at = "stmt" /\ at \in Between
      /\ top \in Frames /\ FrameOK(Len(blocks), top) /\ blocks \in Seq(Block) /\ Whole(blocks)
      /\ Knows(nm, top, scope) /\ Begins(s, scope) /\ s \in Seq(Nat)
      /\ cur # NoBlock => cur \in DOMAIN blocks /\ nm[cur] = scope
      /\ Keeps(blocks, blocks) /\ cur \notin Pending(top)
  BY <1>1, BodyFacts
<1>3. /\ DOMAIN nm = DOMAIN blocks /\ cur \in Nat /\ Settled(nm, cur, frames, scope, at)
      /\ top = frames[Len(frames)] /\ Len(frames) \in DOMAIN frames
  BY <1>2, BeforeFacts
<1>4. More(nm, nm)
  BY <1>2, KeepsLists
<1>5. top.ctx \in DOMAIN blocks /\ d \in DOMAIN blocks /\ d # NoBlock
  BY <1>2 DEF FrameOK, NoBlock
<1>6. Pending(top) = {d} /\ Fixed(top) = {top.ctx, d}
  BY <1>2, <1>5, PendingIs DEF Fixed
<1>7. top.ctx # d
  BY <1>2, <1>3 DEF Settled, Apart
<1>8. nm[d] = s /\ nm[top.ctx] = s
  BY <1>2, <1>6 DEF Knows
<1>9. /\ g \in Frames /\ g.k = "else" /\ g.ctx = top.ctx /\ g.oth = cur /\ g.scope = s
  BY <1>2, <1>3 DEF Frames, FrameKinds
<1>10. Begins(s, s)
  BY <1>2, BeginsItself
<1> HIDE DEF g, d, s
<1>11. Pending(g) = {cur} \ {NoBlock} /\ Fixed(g) = {top.ctx}
  BY <1>9, PendingIs DEF Fixed
<1> HIDE DEF nm
<1>12. Knows(nm, g, s)
  BY <1>2, <1>8, <1>9, <1>10, <1>11 DEF Knows
<1>13. Turns(nm, cur, top, scope, nm, d, g, s, "stmt")
  BY <1>2, <1>5, <1>6, <1>7, <1>8, <1>9, <1>10, <1>11, <1>12 DEF Turns, Expr, Body, Forking, s
<1> QED
  BY <1>1, <1>2, <1>4, <1>9, <1>13, GoodTurn DEF Fits, nm

LEMMA EndWhileConditionFits ==
  ASSUME NEW h, Before(h), Well, EndWhileCondition
  PROVE  Fits
<1> DEFINE d == Len(blocks) + 1
           e == Len(blocks) + 2
           g == [top EXCEPT !.k = "wbody", !.post = e]
           nm == Lists(blocks)
           nm2 == Lists(blocks')
           o == top.oth
<1>1. /\ at = "value" /\ frames # <<>> /\ top.k = "while" /\ scope' = scope
      /\ Replace(g) /\ cur' = d /\ at' = "stmt" /\ blocks' = BranchInto(blocks, cur)
  BY DEF EndWhileCondition, Returned, Waiting, Produce
<1>2. /\ cur # NoBlock /\ cur \in DOMAIN blocks /\ blocks \in Seq(Block) /\ Whole(blocks)
      /\ "stmt" \in Between
  BY <1>1, ExprFacts DEF Between
<1>3. /\ top \in Frames /\ DOMAIN nm = DOMAIN blocks /\ scope \in Seq(Nat)
      /\ FrameOK(Len(blocks), top)
  BY <1>1, BeforeFacts
<1>4. /\ Keeps(blocks, blocks') /\ Whole(blocks')
      /\ d \in DOMAIN blocks' /\ e \in DOMAIN blocks' /\ d \notin DOMAIN blocks /\ e \notin DOMAIN blocks
      /\ nm2[d] = nm[cur] /\ nm2[e] = nm[cur]
  BY <1>1, <1>2, BranchIntoKeeps
<1>5. More(nm, nm2)
  BY <1>2, <1>4, KeepsLists
<1>6. d # NoBlock /\ e # NoBlock /\ e # d /\ e \in Nat /\ cur \in Nat
  BY <1>2 DEF NoBlock
<1>7. /\ g \in Frames /\ g.k = "wbody" /\ g.post = e /\ g.oth = o /\ g.scope = top.scope
  BY <1>3, <1>6 DEF Frames, FrameKinds
<1>8. top.scope = scope /\ Begins(scope, scope) /\ Knows(nm, top, scope)
  BY <1>1, <1>3, TopScope, BeginsItself DEF Body
<1>9. nm[cur] = scope /\ nm[o] = scope /\ o \in DOMAIN blocks
  <2>1. nm[cur] = scope
    BY <1>1, <1>2, CurrentScope DEF Expr
  <2> QED
    BY <1>1, <1>3, <1>8, <2>1 DEF Knows, FrameOK
<1> HIDE DEF g, d, e, o
<1>10. nm2[o] = scope /\ o # d
  BY <1>2, <1>3, <1>4, <1>5, <1>9 DEF More
<1> HIDE DEF nm, nm2
<1>11. Pending(g) = {e} /\ Fixed(g) = {o, e} /\ Knows(nm2, g, scope)
  BY <1>4, <1>6, <1>7, <1>8, <1>9, <1>10, PendingIs DEF Fixed, Knows
<1>12. Turns(nm, cur, top, scope, nm2, d, g, scope, "stmt")
  BY <1>1, <1>2, <1>3, <1>4, <1>6, <1>7, <1>8, <1>9, <1>10, <1>11 DEF Turns, Expr, Body
<1> QED
  BY <1>1, <1>3, <1>4, <1>5, <1>7, <1>12, GoodTurn DEF Fits, nm, nm2

\* The condition of a do-while begins: the block it goes on in has the names of
\* the block loop_trigger chose, with which every block that continues begins.
LEMMA ConditionFits ==
  ASSUME NEW h, Before(h), Well, EndsBody("do"), scope' = top.scope,
         NEW cont, cont = IF cur = NoBlock THEN top.cont ELSE <<cur>> \o top.cont,
         cont # <<>>, Replace([top EXCEPT !.k = "docond", !.cont = cont]),
         cur' = Len(blocks) + 1, at' = "expr", blocks' = TangleBlocks(blocks, top.ctx, cont)
  PROVE  Fits
<1> DEFINE d == Len(blocks) + 1
           g == [top EXCEPT !.k = "docond", !.cont = cont]
           nm == Lists(blocks)
           nm2 == Lists(blocks')
           s == top.scope
           c == top.ctx
<1>1. /\ frames # <<>> /\ top.k = "do" /\ at = "stmt" /\ at \in Between
      /\ top \in Frames /\ FrameOK(Len(blocks), top) /\ blocks \in Seq(Block) /\ Whole(blocks)
      /\ Knows(nm, top, scope) /\ Begins(s, scope) /\ s \in Seq(Nat)
      /\ cur # NoBlock => cur \in DOMAIN blocks /\ nm[cur] = scope
      /\ cur \notin Pending(top)
  BY BodyFacts
<1>2. Ready(blocks, cur, frames, at, h)
  BY DEF Before
<1>3. /\ cont \in Seq(DOMAIN blocks)
      /\ \A b : b \in Blocks(cont) <=> b \in Only(cur) \/ b \in Blocks(top.cont)
  BY <1>1, <1>2, ContinueList
<1>4. /\ c \in DOMAIN blocks /\ top.par \in DOMAIN blocks /\ top.oth \in DOMAIN blocks
      /\ top.brk \in Seq(DOMAIN blocks)
      /\ \A b \in Blocks(top.brk) : b # NoBlock /\ b # cur
  BY <1>1, <1>2, DoFacts
<1>5. Blocks(cont) \subseteq DOMAIN blocks /\ 1 \in DOMAIN cont /\ cont \in Seq(Nat)
  <2> DEFINE D == DOMAIN blocks
  <2>1. cont \in Seq(D) /\ cont # <<>>
    BY <1>3
  <2>2. cont \in Seq(Nat)
    BY <1>1, <1>3, ListNat
  <2> HIDE DEF D
  <2>3. 1 \in DOMAIN cont /\ Blocks(cont) \subseteq D
    BY ONLY <2>1, ListFacts
  <2> QED
    BY <2>2, <2>3 DEF D
<1>6. Fitting(blocks, c, cont)
  <2>1. ASSUME NEW b \in Blocks(cont)
        PROVE  Begins(nm[c], nm[b])
    <3>1. CASE b \in Blocks(top.cont)
      BY <1>1, <3>1 DEF Knows
    <3>2. CASE b = cur /\ cur # NoBlock
      BY <1>1, <3>2 DEF Knows
    <3> QED
      BY <1>3, <2>1, <3>1, <3>2 DEF Only
  <2> QED
    BY <2>1 DEF Fitting
<1>7. Begins(s, nm[c])
  BY <1>1 DEF Knows
<1>8. /\ Keeps(blocks, blocks') /\ Len(blocks') = d /\ d \in DOMAIN blocks' /\ d \notin DOMAIN blocks
      /\ nm2[d] = nm[c] /\ Whole(blocks')
  <2> HIDE DEF c, d
  <2>1. LET bs2 == TangleBlocks(blocks, c, cont)
        IN /\ Keeps(blocks, bs2) /\ Len(bs2) = Len(blocks) + 1
           /\ Len(blocks) + 1 \in DOMAIN bs2 /\ Len(blocks) + 1 \notin DOMAIN blocks
           /\ Lists(bs2)[Len(blocks) + 1] = Lists(blocks)[c] /\ Whole(bs2)
    BY ONLY <1>1, <1>4, <1>5, <1>6, TangleKeeps
  <2> QED
    BY <2>1 DEF c, d
<1>9. More(nm, nm2) /\ DOMAIN nm = DOMAIN blocks
  BY <1>1, <1>8, KeepsLists, BeforeFacts
<1>10. /\ g \in Frames /\ g.k = "docond" /\ g.oth = top.oth /\ g.par = top.par /\ g.brk = top.brk
       /\ g.scope = s
  BY <1>1, <1>5 DEF Frames, FrameKinds
<1>11. d # NoBlock /\ cur # d /\ Begins(s, s)
  BY <1>1, <1>8, BeginsItself DEF NoBlock
<1>12. Begins(s, nm2[d]) /\ "expr" \notin Between
  BY <1>7, <1>8 DEF Between
<1> HIDE DEF g, d, s
<1>13. Blocks(top.brk) \subseteq DOMAIN blocks
  BY <1>4 DEF Blocks
<1>14. nm2[top.par] = s /\ Begins(s, nm2[top.oth]) /\ \A b \in Blocks(top.brk) : Begins(s, nm2[b])
  <2>1. /\ nm[top.par] = s /\ Begins(s, nm[top.oth])
        /\ \A b \in Blocks(top.brk) : Begins(s, nm[b])
    BY <1>1 DEF Knows, Fixed, s
  <2> HIDE DEF nm, nm2
  <2> QED
    BY <1>4, <1>9, <1>13, <2>1 DEF More
<1> HIDE DEF nm, nm2
<1>15. Pending(g) \subseteq Pending(top) /\ Fixed(g) = {top.par} /\ top.par # d
  BY <1>1, <1>4, <1>8, <1>10, PendingIs DEF Fixed
<1>16. Knows(nm2, g, s)
  BY <1>10, <1>11, <1>14, <1>15 DEF Knows
<1>17. Turns(nm, cur, top, scope, nm2, d, g, s, "expr")
  BY <1>1, <1>8, <1>9, <1>10, <1>11, <1>12, <1>15, <1>16 DEF Turns, Expr, Body, s
<1>18. Replace(g) /\ cur' = d /\ scope' = s
  BY DEF g, d, s
<1> QED
  BY <1>1, <1>8, <1>9, <1>10, <1>17, <1>18, GoodTurn DEF Fits, nm, nm2

LEMMA EndDoBodyFits ==
  ASSUME NEW h, Before(h), Well, EndDoBody
  PROVE  Fits
<1> DEFINE cont == IF cur = NoBlock THEN top.cont ELSE <<cur>> \o top.cont
           none == NoBlock
<1>1. EndsBody("do") /\ scope' = top.scope
  BY DEF EndDoBody
<1>2. /\ frames # <<>> /\ top.k = "do" /\ top.k \notin Expr
      /\ blocks \in Seq(Block) /\ Whole(blocks)
      /\ Knows(Lists(blocks), top, scope) /\ Keeps(blocks, blocks)
  BY <1>1, BodyFacts DEF Expr
<1>3. Ready(blocks, cur, frames, at, h)
  BY DEF Before
<1>4. cont = IF cur = NoBlock THEN top.cont ELSE <<cur>> \o top.cont
  OBVIOUS
<1>5. CASE cont # <<>>
  <2>1. /\ Replace([top EXCEPT !.k = "docond", !.cont = cont])
        /\ cur' = Len(blocks) + 1 /\ at' = "expr"
        /\ blocks' = TangleBlocks(blocks, top.ctx, cont)
    BY <1>5 DEF EndDoBody, Produce
  <2> HIDE DEF cont
  <2> QED
    BY <1>1, <1>4, <1>5, <2>1, ConditionFits, Zenon
<1>6. CASE cont = <<>> /\ top.brk # <<>>
  <2> DEFINE ps == top.brk
             c == top.par
  <2>1. Done(Below, Len(blocks) + 1, TangleBlocks(blocks, c, ps))
    BY <1>6 DEF EndDoBody
  <2>2. c \in DOMAIN blocks /\ ps \in Seq(DOMAIN blocks) /\ ps # <<>>
    BY <1>2, <1>3, <1>6, DoFacts
  <2>3. 1 \in DOMAIN ps /\ Blocks(ps) \subseteq DOMAIN blocks
    BY <2>2, ListFacts
  <2>4. Lists(blocks)[c] = top.scope /\ \A b \in Blocks(ps) : Begins(top.scope, Lists(blocks)[b])
    BY <1>2 DEF Knows, Fixed
  <2> HIDE DEF ps, c
  <2> QED
    BY <1>1, <1>2, <2>1, <2>2, <2>3, <2>4, TangleFits
<1>7. CASE cont = <<>> /\ top.brk = <<>>
  <2>1. Done(Below, none, blocks)
    BY <1>7 DEF EndDoBody
  <2>2. none = NoBlock /\ none \in 0 .. Len(blocks)
    BY <1>2 DEF NoBlock
  <2> HIDE DEF none
  <2> QED
    BY <1>1, <1>2, <2>1, <2>2, LeaveFitting
<1> QED
  BY <1>5, <1>6, <1>7

LEMMA EndDoConditionFits ==
  ASSUME NEW h, Before(h), Well, EndDoCondition
  PROVE  Fits
<1> DEFINE r == Len(blocks) + 1
           e == Len(blocks) + 2
           p == top.par
           brk == top.brk
           o == top.oth
           bs == WeaveBlocks(blocks, p, brk, cur)
           S == {r}
           bs2 == JoinBlocks(bs, S, o)
           nm == Lists(blocks)
<1>1. /\ at = "value" /\ frames # <<>> /\ top.k = "docond" /\ scope' = scope
      /\ Done(Below, r + 1, bs2)
  BY DEF EndDoCondition, Returned, Waiting
<1>2. /\ cur # NoBlock /\ cur \in DOMAIN blocks /\ blocks \in Seq(Block) /\ Whole(blocks)
      /\ Ready(blocks, cur, frames, at, h) /\ DOMAIN nm = DOMAIN blocks
      /\ Settled(nm, cur, frames, scope, at) /\ frames \in Seq(Frames)
  BY <1>1, ExprFacts, BeforeFacts DEF Before
<1>3. /\ p \in DOMAIN blocks /\ o \in DOMAIN blocks /\ brk \in Seq(DOMAIN blocks)
  BY <1>1, <1>2, DoFacts
<1>4. /\ top.k \notin Expr /\ top.scope = scope /\ Knows(nm, top, scope)
  BY <1>1, TopScope DEF Expr, Body
<1>5. Fitting(blocks, p, <<cur>> \o brk)
  <2>1. nm[p] = scope /\ \A b \in Blocks(brk) : Begins(scope, nm[b])
    BY <1>1, <1>4 DEF Knows, Fixed
  <2>2. Begins(scope, nm[cur])
    BY <1>2, CurrentList
  <2>3. \A b : b \in Blocks(<<cur>> \o brk) <=> b = cur \/ b \in Blocks(brk)
    BY <1>2, <1>3, Prepend
  <2> HIDE DEF nm, brk, p
  <2> QED
    BY <2>1, <2>2, <2>3 DEF Fitting, nm
<1>6. nm[p] = scope
  BY <1>1, <1>4 DEF Knows, Fixed
<1> HIDE DEF p, brk, o
<1>7. /\ Keeps(blocks, bs) /\ Len(bs) = e
      /\ r \in DOMAIN bs /\ e \in DOMAIN bs /\ e \notin DOMAIN blocks
      /\ Lists(bs)[e] = scope /\ Whole(bs)
  <2>1. LET x == WeaveBlocks(blocks, p, brk, cur)
        IN /\ Keeps(blocks, x) /\ Len(x) = Len(blocks) + 2
           /\ Len(blocks) + 1 \in DOMAIN x /\ Len(blocks) + 2 \in DOMAIN x
           /\ Len(blocks) + 2 \notin DOMAIN blocks
           /\ Lists(x)[Len(blocks) + 2] = Lists(blocks)[p] /\ Whole(x)
    BY ONLY <1>2, <1>3, <1>5, WeaveKeeps
  <2> QED
    BY <1>6, <2>1
<1>8. r + 1 = e /\ e \in Nat
  BY <1>2
<1> HIDE DEF r, e
<1>9. bs \in Seq(Block) /\ S \in SUBSET DOMAIN bs /\ o \in DOMAIN bs
  BY <1>2, <1>3, <1>7 DEF Keeps
<1> HIDE DEF bs, S
<1>10. Keeps(bs, bs2) /\ Len(bs2) = Len(bs)
  BY ONLY <1>9, JoinKeeps
<1> HIDE DEF bs2
<1>11. Keeps(blocks, bs2) /\ Whole(bs2) /\ More(Lists(bs), Lists(bs2))
  BY <1>2, <1>7, <1>9, <1>10, KeepsTrans, KeepsWhole, KeepsLists
<1>12. Lists(bs2)[e] = scope /\ e \in 0 .. Len(bs2)
  BY <1>7, <1>8, <1>9, <1>10, <1>11, ListsType DEF More
<1> QED
  BY <1>1, <1>4, <1>7, <1>8, <1>10, <1>11, <1>12, LeaveFitting

-----------------------------------------------------------------------------
(* Every step.                                                             *)

LEMMA StatementFits ==
  ASSUME NEW h, Before(h), Outcome, AStatement
  PROVE  Fits
<1>1. ASSUME ~Well PROVE Fits
  BY <1>1, StoppedFits DEF Outcome
<1>2. ASSUME Well PROVE Fits
  <2>1. ASSUME NEW more \in BOOLEAN, DefineBare(more) PROVE Fits
    BY <1>2, <2>1, DefineBareFits
  <2>2. CASE DefineValue \/ Let \/ ExpressionStatement \/ If \/ Return
    BY <1>2, <2>2, WaitsFit
  <2>3. CASE Nested
    BY <1>2, <2>3, NestedFits
  <2>4. CASE While
    BY <1>2, <2>4, WhileFits
  <2>5. CASE DoWhile
    BY <1>2, <2>5, DoWhileFits
  <2>6. CASE DoWhileOnStaleLists
    <3>1. status' # "running" /\ blocks' = blocks
      BY <2>6 DEF DoWhileOnStaleLists
    <3> QED
      BY <3>1, StoppedFits
  <2>7. ASSUME NEW k, NEW i, Control(k, i) PROVE Fits
    BY <1>2, <2>7, ControlFits
  <2> QED
    BY <2>1, <2>2, <2>3, <2>4, <2>5, <2>6, <2>7 DEF AStatement
<1> QED
  BY <1>1, <1>2

LEMMA ReturnsFit ==
  ASSUME NEW h, Before(h), Outcome, Returns
  PROVE  Fits
<1>1. ASSUME ~Well PROVE Fits
  BY <1>1, StoppedFits DEF Outcome
<1>2. ASSUME Well PROVE Fits
  <2>1. ASSUME NEW more \in BOOLEAN, EndDefine(more) \/ EndLet(more) PROVE Fits
    <3>1. PICK k \in {"define", "let"}, mode \in Between : EndClause(k, mode, more)
      BY <2>1 DEF EndDefine, EndLet, Between
    <3> QED
      BY <1>2, <3>1, EndClauseFits
  <2>2. CASE EndExpression \/ EndElse \/ EndNested \/ EndWhile
    BY <2>2, EndExpressionFits, EndElseFits, EndNestedFits, EndWhileFits
  <2>3. CASE EndReturn \/ EndIfCondition \/ EndThen \/ EndWhileCondition
    BY <1>2, <2>3, EndReturnFits, EndIfConditionFits, EndThenFits, EndWhileConditionFits
  <2>4. CASE EndDoBody \/ EndDoCondition
    BY <1>2, <2>4, EndDoBodyFits, EndDoConditionFits
  <2>5. CASE EndSet \/ EndCompound \/ EndOperand \/ EndInstanceOf
    BY <1>2, <2>5, EndSetFits, EndCompoundFits, EndOperandFits, EndInstanceOfFits
  <2>6. CASE EndElement \/ EndTarget \/ EndUpdate
    BY <1>2, <2>6, EndElementFits, EndTargetFits, EndUpdateFits
  <2>7. CASE EndTernaryCondition \/ EndTernaryFirst \/ EndTernary
    BY <1>2, <2>7, EndTernaryConditionFits, EndTernaryFirstFits, EndTernaryFits
  <2>8. CASE EndArgument
    BY <1>2, <2>8, EndArgumentFits
  <2> QED
    BY <2>1, <2>2, <2>3, <2>4, <2>5, <2>6, <2>7, <2>8 DEF Returns
<1> QED
  BY <1>1, <1>2

LEMMA EndUnitFits ==
  ASSUME NEW h, Before(h), EndUnit
  PROVE  Fits
<1>1. /\ blocks \in Seq(Block) /\ Whole(blocks) /\ unit \in {"top", "void", "value"}
      /\ cur # NoBlock => cur \in DOMAIN blocks /\ blocks[cur] \in Block
  BY BeforeFacts, UnitsAssumption DEF Before, Types
<1>2. status' # "running"
  BY <1>1 DEF EndUnit
<1>3. blocks' = blocks \/ (cur # NoBlock
        /\ \E x : blocks' = [blocks EXCEPT ![cur] = x] /\ x.made = blocks[cur].made)
  <2>1. CASE cur # NoBlock /\ unit = "top"
    <3> DEFINE x == [blocks[cur] EXCEPT !.final = TRUE]
    <3>1. x.made = blocks[cur].made
      BY <1>1, <2>1 DEF Block
    <3>2. blocks' = [blocks EXCEPT ![cur] = x]
      BY <1>1, <2>1 DEF EndUnit
    <3> HIDE DEF x
    <3> QED
      BY <2>1, <3>1, <3>2
  <2>2. CASE cur # NoBlock /\ unit = "void"
    <3> DEFINE x == ReturnTail(blocks[cur], <<>>)
    <3>1. x.made = blocks[cur].made
      <4> DEFINE b == blocks[cur]
                 r == Emit(b, "unwrap", <<0>>)
      <4>1. b \in Block
        BY <1>1, <2>2
      <4> HIDE DEF b
      <4>2. r.made = b.made /\ DOMAIN r = DOMAIN b
        BY <4>1 DEF Emit, Block
      <4>3. x.made = r.made
        BY <4>2 DEF ReturnTail, b
      <4> QED
        BY <4>2, <4>3 DEF b
    <3>2. blocks' = [blocks EXCEPT ![cur] = x]
      BY <1>1, <2>2 DEF EndUnit
    <3> HIDE DEF x
    <3> QED
      BY <2>2, <3>1, <3>2
  <2>3. CASE cur = NoBlock \/ unit = "value"
    BY <1>1, <2>3 DEF EndUnit
  <2> QED
    BY <1>1, <2>1, <2>2, <2>3
<1>4. Whole(blocks')
  BY <1>1, <1>3 DEF Whole
<1> QED
  BY <1>2, <1>4 DEF Fits

-----------------------------------------------------------------------------
(* The invariant holds.                                                    *)

Agreed == Inner /\ (status = "running" => Good) /\ Whole(blocks)

LEMMA AgreedInit ==
  ASSUME Init
  PROVE  Agreed
<1>1. Inner
  BY InnerInit
<1>2. PICK params \in 0 .. (IF unit = "top" THEN 0 ELSE MaxParams) :
        /\ blocks = <<StartBlock(unit, params)>>
        /\ scope = [q \in 1 .. params |-> q]
  BY DEF Init
<1>3. params \in Nat /\ (unit = "top" => params = 0)
  BY <1>2, BoundsAssumption
<1>4. cur = 1 /\ frames = <<>> /\ at = "stmt"
  BY DEF Init
<1> DEFINE b == StartBlock(unit, params)
<1>5. Names(b.syms) = scope /\ b.made = "ok"
  <2>1. CASE unit = "top"
    BY <1>2, <1>3, <2>1 DEF StartBlock, EmptyBlock, Names
  <2>2. CASE unit # "top"
    BY <1>2, <2>2 DEF StartBlock, EmptyBlock, Names
  <2> QED
    BY <2>1, <2>2
<1> HIDE DEF b
<1>6. blocks = <<b>> /\ scope \in Seq(Nat) /\ blocks \in Seq(Block)
  BY <1>1, <1>2 DEF b, Inner
<1>7. DOMAIN blocks = {1} /\ blocks[1] = b
  BY <1>6
<1>8. Whole(blocks)
  BY <1>5, <1>7 DEF Whole
<1> DEFINE nm == Lists(blocks)
<1>9. nm[cur] = scope /\ Begins(scope, scope)
  BY <1>4, <1>5, <1>6, <1>7, BeginsItself DEF Lists
<1> HIDE DEF nm
<1>10. DOMAIN frames = {} /\ at \in Between
  BY <1>4 DEF Between
<1>11. Settled(nm, cur, frames, scope, at)
  BY <1>4, <1>9, <1>10 DEF Settled, Discipline, Apart, Known, Chain
<1>12. Targets(nm, cur, frames) /\ Idle(nm, frames)
  BY <1>10 DEF Targets, Idle
<1> QED
  BY <1>1, <1>8, <1>11, <1>12 DEF Agreed, Good, nm

LEMMA NextRuns ==
  ASSUME Next, ~HeapBroken, ~Over
  PROVE  status = "running" /\ (AStatement \/ AnExpression \/ Returns \/ EndUnit)
<1>1. AStatement \/ AnExpression \/ AnEnd
  BY DEF Next
<1>2. status = "running"
  BY <1>1, Zenon DEF AStatement, AnExpression, AnEnd, DefineBare, DefineValue, Let,
     ExpressionStatement, If, Return, Waits, Nested, While, DoWhile, DoWhileOnStaleLists,
     Control, StartsClause, Statement, Starts, Literal, Get, Set, Compound, Postfix, Linear,
     InstanceOf, SetElement, UpdateElement, Ternary, Call, Operand, Expression,
     EndDefine, EndLet, EndClause, EndExpression, EndReturn, EndIfCondition, EndThen, EndElse,
     EndNested, EndWhileCondition, EndWhile, EndDoBody, EndDoCondition, EndSet, EndCompound,
     EndOperand, EndInstanceOf, EndElement, EndTarget, EndUpdate, EndTernaryCondition,
     EndTernaryFirst, EndTernary, EndArgument, EndUnit, Returned, EndsBody
<1>3. AnEnd => Returns \/ EndUnit
  BY SMTT(30) DEF AnEnd, Returns
<1> QED
  BY <1>1, <1>2, <1>3

LEMMA AgreedStep ==
  ASSUME Agreed, [Next]_vars
  PROVE  Agreed'
<1>1. Inner'
  BY InnerStep DEF Agreed
<1>2. CASE UNCHANGED vars
  <2>1. /\ blocks' = blocks /\ cur' = cur /\ frames' = frames /\ scope' = scope /\ at' = at
        /\ status' = status
    BY <1>2 DEF vars
  <2>2. Good => Good'
    BY <2>1 DEF Good
  <2> QED
    BY <1>1, <2>1, <2>2 DEF Agreed, Whole
<1>3. CASE HeapBroken
  BY <1>1, <1>3 DEF Agreed, HeapBroken, Stop, Whole
<1>4. CASE status = "running" /\ (AStatement \/ AnExpression \/ Returns \/ EndUnit)
  <2>1. PICK h : Ready(blocks, cur, frames, at, h)
    BY <1>4 DEF Agreed, Inner
  <2>2. Types
    BY <1>4 DEF Agreed, Inner, Types
  <2>3. Before(h)
    BY <1>4, <2>1, <2>2 DEF Before, Agreed
  <2>4. Fits
    BY <1>4, <2>1, <2>2, <2>3, StatementOutcome, StatementFits, ExpressionOutcome,
       ExpressionFits, ReturnsOutcome, ReturnsFit, EndUnitFits
  <2> QED
    BY <1>1, <2>4 DEF Agreed, Fits
<1>5. CASE Next /\ ~HeapBroken /\ ~Over
  BY <1>4, <1>5, NextRuns
<1> QED
  BY <1>2, <1>3, <1>5 DEF Over

-----------------------------------------------------------------------------
(* What follows from it.                                                   *)

\* The block being filled has the names analysis has in scope, in its order, at
\* every point of the walk: generate_expression never looks for a name that
\* child_block lost or that an inner body left behind.
THEOREM ScopesAgree == Spec => []ScopeAgrees
<1>1. ASSUME Agreed, status = "running", cur # NoBlock
      PROVE  LET known == Names(blocks[cur].syms)
             IN /\ Len(scope) <= Len(known) /\ SubSeq(known, 1, Len(scope)) = scope
                /\ Len(scope) < Len(known) => \E i \in DOMAIN frames : frames[i].k = "docond"
  <2>1. /\ Settled(Lists(blocks), cur, frames, scope, at) /\ blocks \in Seq(Block)
        /\ frames \in Seq(Frames) /\ scope \in Seq(Nat) /\ cur \in DOMAIN blocks
    <3>1. cur \in DOMAIN blocks
      BY <1>1 DEF Agreed, Inner, NoBlock
    <3> QED
      BY <1>1, <3>1 DEF Agreed, Inner, Good
  <2> DEFINE known == Names(blocks[cur].syms)
  <2>2. Lists(blocks)[cur] = known /\ known \in Seq(Nat)
    BY <2>1, ListsType
  <2>3. /\ Begins(scope, known)
        /\ (\A i \in DOMAIN frames : frames[i].k # "docond") => known = scope
    <3> DEFINE nm == Lists(blocks)
    <3>1. Settled(nm, cur, frames, scope, at) /\ nm[cur] = known
      BY <2>1, <2>2
    <3> HIDE DEF nm, known
    <3>2. frames \in Seq(Frames) /\ Settled(nm, cur, frames, scope, at)
      BY <2>1, <3>1
    <3>3. /\ cur # NoBlock => Begins(scope, nm[cur])
          /\ cur # NoBlock /\ (\A i \in DOMAIN frames : frames[i].k # "docond")
               => nm[cur] = scope
      BY ONLY <3>2, CurrentList
    <3> QED
      BY ONLY <1>1, <3>1, <3>3
  <2> HIDE DEF known
  <2>4. SubSeq(known, 1, Len(scope)) = scope
    <3> DEFINE t == SubSeq(known, 1, Len(scope))
    <3>1. Len(scope) \in Nat /\ Len(known) \in Nat /\ Len(scope) <= Len(known)
      BY <2>1, <2>2, <2>3 DEF Begins
    <3>2. t \in Seq(Nat) /\ Len(t) = Len(scope) /\ \A q \in 1 .. Len(scope) : t[q] = known[q]
      BY <2>2, <3>1
    <3>3. \A q \in 1 .. Len(scope) : known[q] = scope[q]
      BY <2>3 DEF Begins
    <3> HIDE DEF t
    <3>4. t \in [1 .. Len(scope) -> Nat] /\ scope \in [1 .. Len(scope) -> Nat]
          /\ \A q \in 1 .. Len(scope) : t[q] = scope[q]
      BY <2>1, <3>2, <3>3
    <3>5. t = scope
      BY ONLY <3>4
    <3> QED
      BY <3>5 DEF t
  <2> QED
    BY <2>1, <2>2, <2>3, <2>4 DEF Begins, known
<1>2. Agreed => ScopeAgrees
  BY <1>1 DEF ScopeAgrees
<1> QED
  BY <1>2, AgreedInit, AgreedStep, PTL DEF Spec

\* child_block never meets a parent whose list of symbols is shorter than the
\* context's: the assertion of its debug build holds of every program.
THEOREM ContextsArePrefixes == Spec => []ContextIsPrefix
<1>1. Agreed => ContextIsPrefix
  BY DEF Agreed, Whole, ContextIsPrefix
<1> QED
  BY <1>1, AgreedInit, AgreedStep, PTL DEF Spec
-----------------------------------------------------------------------------
(* The arguments of the tails: the inductive invariant.                     *)

\* The blocks a loop goes back to, and the one after it.
Loops(f) ==
  IF f.k \in {"while", "do", "docond"} THEN {f.oth}
  ELSE IF f.k = "wbody" THEN {f.oth, f.post}
  ELSE {}

\* The blocks a call will go on with or join; the one an invocation returns to
\* has nothing in it before the invocation.
Rests(f) == IF f.k = "call" THEN {} ELSE Pending(f)

Refers(f) == Fixed(f) \cup Own(f) \cup Rests(f)

\* A block whose parameters are those of the first n variables that have a
\* value, and the return struct.
Steady(b, n) ==
  b.par.stk = 0 /\ b.par.extra = 0 /\ b.accRet = b.par.ret /\ b.par.live \subseteq 1 .. n

\* Whatever is joined to a loop has a value for its parameters: the current
\* block, and all that the calls from the loop's on keep.
Laden(bs, c, fs) ==
  \A i \in DOMAIN fs : \A d \in Loops(fs[i]) :
    /\ Steady(bs[d], Len(fs[i].scope))
    /\ c # NoBlock => bs[d].par.live \subseteq With(bs[c].syms)
    /\ \A j \in DOMAIN fs : j >= i =>
         \A b \in Rests(fs[j]) : bs[d].par.live \subseteq With(bs[b].syms)

\* Every block of a function that generation goes on with, or takes as the
\* context of another, has the return struct.
Returning(bs, c, fs, u) ==
  u # "top" => /\ c # NoBlock => bs[c].hasRet
               /\ \A i \in DOMAIN fs : \A b \in Refers(fs[i]) : bs[b].hasRet

\* No parameter of a block loses its value; only functions have the struct.
Sound(bs, u) ==
  \A b \in DOMAIN bs : /\ bs[b].par.live \subseteq With(bs[b].syms)
                       /\ bs[b].hasRet \/ bs[b].par.ret => u # "top"

\* The tail of x passes what y takes.
Fit(x, y) ==
  /\ x.tail.live = y.par.live
  /\ \A q \in y.par.live : /\ q \in With(x.syms) /\ q \in DOMAIN y.syms
                           /\ x.syms[q].s = y.syms[q].s
  /\ y.par.ret => x.hasRet

Flow(bs, b) ==
  \A d \in Leads(bs[b]) : d \in DOMAIN bs /\ (bs[b].tail.inject = "ok" => Fit(bs[b], bs[d]))

Flows(bs) == \A b \in DOMAIN bs : Flow(bs, b)

Fed(bs, c, fs, u) ==
  Sound(bs, u) /\ Flows(bs) /\ Laden(bs, c, fs) /\ Returning(bs, c, fs, u)

-----------------------------------------------------------------------------
(* A step in general.                                                      *)

LEMMA LoopsDomain ==
  ASSUME NEW n \in Nat, NEW f, FrameOK(n, f)
  PROVE  Loops(f) \subseteq 1 .. n /\ Rests(f) \subseteq 1 .. n /\ Refers(f) \subseteq 1 .. n
<1>1. Fixed(f) \subseteq 1 .. n /\ Own(f) \subseteq 1 .. n /\ Pending(f) \subseteq 1 .. n
  BY RefsDomain, PendingDomain
<1>2. Loops(f) \subseteq 1 .. n
  BY DEF Loops, FrameOK
<1> QED
  BY <1>1, <1>2 DEF Rests, Refers

\* The blocks of bs keep their parameters and values and get symbols at most at
\* the end of the list; each new one has values for its parameters.
Grown(bs, bs2, u) ==
  /\ bs2 \in Seq(Block) /\ Len(bs) <= Len(bs2)
  /\ \A b \in DOMAIN bs :
       /\ bs2[b].par = bs[b].par /\ bs2[b].accRet = bs[b].accRet
       /\ With(bs[b].syms) \subseteq With(bs2[b].syms)
       /\ Begins(Lists(bs)[b], Lists(bs2)[b])
       /\ bs[b].hasRet => bs2[b].hasRet
       /\ bs2[b].hasRet => u # "top"
  /\ \A b \in DOMAIN bs2 \ DOMAIN bs :
       /\ bs2[b].par.live \subseteq With(bs2[b].syms)
       /\ bs2[b].hasRet \/ bs2[b].par.ret => u # "top"

LEMMA GrownSound ==
  ASSUME NEW bs, NEW bs2, NEW u, Sound(bs, u), Grown(bs, bs2, u)
  PROVE  Sound(bs2, u)
BY DEF Sound, Grown

LEMMA FitGrows ==
  ASSUME NEW bs \in Seq(Block), NEW bs2, NEW u, Grown(bs, bs2, u), NEW x, NEW d \in DOMAIN bs,
         Fit(x, bs[d])
  PROVE  Fit(x, bs2[d]) /\ d \in DOMAIN bs2
<1>1. bs2 \in Seq(Block) /\ d \in DOMAIN bs2
  BY DEF Grown
<1>2. /\ Lists(bs)[d] = Names(bs[d].syms) /\ Lists(bs2)[d] = Names(bs2[d].syms)
      /\ DOMAIN Names(bs[d].syms) = DOMAIN bs[d].syms
      /\ DOMAIN Names(bs2[d].syms) = DOMAIN bs2[d].syms
      /\ Names(bs[d].syms) \in Seq(Nat) /\ Names(bs2[d].syms) \in Seq(Nat)
  BY <1>1, ListsType
<1>3. \A q \in DOMAIN bs[d].syms : q \in DOMAIN bs2[d].syms /\ bs2[d].syms[q].s = bs[d].syms[q].s
  <2> DEFINE s == Names(bs[d].syms)
             t == Names(bs2[d].syms)
  <2>1. Begins(s, t) /\ s \in Seq(Nat) /\ t \in Seq(Nat)
    BY <1>2 DEF Grown
  <2>2. \A q \in DOMAIN bs[d].syms : s[q] = bs[d].syms[q].s
    BY DEF Names
  <2>3. \A q \in DOMAIN bs2[d].syms : t[q] = bs2[d].syms[q].s
    BY DEF Names
  <2>4. DOMAIN s = DOMAIN bs[d].syms /\ DOMAIN t = DOMAIN bs2[d].syms
    BY <1>2
  <2> HIDE DEF s, t
  <2>5. \A q \in DOMAIN s : q \in DOMAIN t /\ t[q] = s[q]
    <3>1. DOMAIN s = 1 .. Len(s) /\ DOMAIN t = 1 .. Len(t) /\ Len(s) \in Nat /\ Len(t) \in Nat
      BY <2>1
    <3> QED
      BY <2>1, <3>1 DEF Begins
  <2> QED
    BY <2>2, <2>3, <2>4, <2>5
<1>4. bs2[d].par = bs[d].par
  BY DEF Grown
<1> QED
  BY <1>1, <1>3, <1>4 DEF Fit

LEMMA FlowsGrow ==
  ASSUME NEW bs \in Seq(Block), NEW bs2, NEW u, Flows(bs), Grown(bs, bs2, u),
         \A b \in DOMAIN bs : ~Open(bs, b) => bs2[b] = bs[b],
         \A b \in DOMAIN bs2 : (b \in DOMAIN bs => Open(bs, b)) => Flow(bs2, b)
  PROVE  Flows(bs2)
<1>1. ASSUME NEW b \in DOMAIN bs, ~Open(bs, b)
      PROVE  Flow(bs2, b)
  <2>1. bs2[b] = bs[b] /\ Flow(bs, b)
    BY <1>1 DEF Flows
  <2>2. ASSUME NEW d \in Leads(bs2[b])
        PROVE  d \in DOMAIN bs2 /\ (bs2[b].tail.inject = "ok" => Fit(bs2[b], bs2[d]))
    <3>1. d \in DOMAIN bs /\ (bs[b].tail.inject = "ok" => Fit(bs[b], bs[d]))
      BY <2>1, <2>2 DEF Flow
    <3>2. d \in DOMAIN bs2
      <4>1. bs2 \in Seq(Block) /\ Len(bs) <= Len(bs2)
        BY DEF Grown
      <4> QED
        BY <3>1, <4>1
    <3> QED
      BY <2>1, <3>1, <3>2, FitGrows
  <2> QED
    BY <2>2 DEF Flow
<1> QED
  BY <1>1 DEF Flows

\* A block without a tail leads nowhere.
LEMMA OpenFlow ==
  ASSUME NEW bs, NEW b, bs[b].tail.type \notin {"goto", "branch"}
  PROVE  Flow(bs, b)
BY DEF Flow, Leads

\* The current block and those the call above the first k keeps.
Sources(c, fs, k) == Only(c) \cup IF Len(fs) = k + 1 THEN Rests(fs[k + 1]) ELSE {}

\* All of these have a value for the variables at the positions in live.
Carried(bs, S, live) == \A b \in S : live \subseteq With(bs[b].syms)

\* The first k calls stay, the one above them may be replaced, added or removed.
Above(fs, k, fs2) ==
  /\ k \in Nat /\ k <= Len(fs) /\ Len(fs) <= k + 1
  /\ fs2 \in Seq(Frames) /\ k <= Len(fs2) /\ Len(fs2) <= k + 1
  /\ \A i \in 1 .. k : fs2[i] = fs[i]

LEMMA AboveIndex ==
  ASSUME NEW fs \in Seq(Frames), NEW k, NEW fs2, Above(fs, k, fs2)
  PROVE  /\ \A i \in 1 .. k : i \in DOMAIN fs /\ i \in DOMAIN fs2 /\ fs2[i] = fs[i]
         /\ \A i \in DOMAIN fs : i \in 1 .. k \/ (Len(fs) = k + 1 /\ i = k + 1)
         /\ \A i \in DOMAIN fs2 : i \in 1 .. k \/ (Len(fs2) = k + 1 /\ i = k + 1)
         /\ Len(fs) = k + 1 => k + 1 \in DOMAIN fs
         /\ Len(fs2) = k + 1 => k + 1 \in DOMAIN fs2
         /\ \A i \in 1 .. k : i <= k + 1 /\ i < k + 1 /\ ~(i >= k + 1)
<1>1. DOMAIN fs = 1 .. Len(fs) /\ DOMAIN fs2 = 1 .. Len(fs2)
  BY DEF Above
<1>2. k \in Nat /\ Len(fs) \in {k, k + 1} /\ Len(fs2) \in {k, k + 1}
  BY DEF Above
<1>3. \A i \in 1 .. k : fs2[i] = fs[i]
  BY DEF Above
<1>4. /\ \A i \in 1 .. k : i \in 1 .. k + 1
      /\ \A i \in 1 .. k + 1 : i \in 1 .. k \/ i = k + 1
      /\ k + 1 \in 1 .. k + 1 /\ k # k + 1
  BY <1>2
<1>5. DOMAIN fs = 1 .. k \/ (Len(fs) = k + 1 /\ DOMAIN fs = 1 .. k + 1)
  BY <1>1, <1>2, Zenon
<1>6. DOMAIN fs2 = 1 .. k \/ (Len(fs2) = k + 1 /\ DOMAIN fs2 = 1 .. k + 1)
  BY <1>1, <1>2, Zenon
<1>7. (Len(fs) = k + 1 => DOMAIN fs = 1 .. k + 1) /\ (Len(fs2) = k + 1 => DOMAIN fs2 = 1 .. k + 1)
  BY <1>1
<1>8. \A i \in 1 .. k : i <= k + 1 /\ i < k + 1 /\ ~(i >= k + 1)
  BY <1>2
<1> QED
  BY <1>3, <1>4, <1>5, <1>6, <1>7, <1>8, Zenon

\* The variables in scope where the i-th call began are among those in scope
\* above the first k.
LEMMA ScopesBelow ==
  ASSUME NEW fs \in Seq(Frames), NEW sc \in Seq(Nat), Chain(fs, sc),
         NEW k \in Nat, k <= Len(fs), Len(fs) <= k + 1, NEW i \in 1 .. k
  PROVE  Len(fs[i].scope) <= Len(Up(fs, sc, k))
<1>1. i \in DOMAIN fs /\ i \in Nat
  OBVIOUS
<1>2. CASE k = Len(fs)
  BY <1>1, <1>2 DEF Chain, Begins, Up
<1>3. CASE Len(fs) = k + 1
  <2>1. k + 1 \in DOMAIN fs /\ i < k + 1 /\ k # Len(fs)
    BY <1>3
  <2> QED
    BY <1>1, <2>1 DEF Chain, Begins, Up
<1> QED
  BY <1>2, <1>3

LEMMA LadenMove ==
  ASSUME NEW bs \in Seq(Block), NEW c, NEW fs \in Seq(Frames),
         \A i \in DOMAIN fs : FrameOK(Len(bs), fs[i]),
         Laden(bs, c, fs), NEW sc \in Seq(Nat), Chain(fs, sc),
         NEW k, NEW fs2, Above(fs, k, fs2),
         NEW bs2, NEW u, Grown(bs, bs2, u), NEW c2,
         \A live \in SUBSET (1 .. Len(Up(fs, sc, k))) :
           Carried(bs, Sources(c, fs, k), live) => Carried(bs2, Sources(c2, fs2, k), live),
         Len(fs2) = k + 1 => \A d \in Loops(fs2[k + 1]) :
           Steady(bs2[d], Len(fs2[k + 1].scope))
             /\ Carried(bs2, Sources(c2, fs2, k), bs2[d].par.live)
  PROVE  Laden(bs2, c2, fs2)
<1>1. /\ \A i \in 1 .. k : i \in DOMAIN fs /\ i \in DOMAIN fs2 /\ fs2[i] = fs[i]
      /\ \A i \in DOMAIN fs : i \in 1 .. k \/ (Len(fs) = k + 1 /\ i = k + 1)
      /\ \A i \in DOMAIN fs2 : i \in 1 .. k \/ (Len(fs2) = k + 1 /\ i = k + 1)
      /\ Len(fs) = k + 1 => k + 1 \in DOMAIN fs
      /\ \A i \in 1 .. k : i <= k + 1 /\ i < k + 1 /\ ~(i >= k + 1)
  BY AboveIndex
<1>2. \A i \in 1 .. k : Loops(fs[i]) \subseteq DOMAIN bs /\ Rests(fs[i]) \subseteq DOMAIN bs
  <2>1. Len(bs) \in Nat /\ DOMAIN bs = 1 .. Len(bs)
    OBVIOUS
  <2> QED
    BY <1>1, <2>1, LoopsDomain
<1> SUFFICES ASSUME NEW i \in DOMAIN fs2, NEW d \in Loops(fs2[i])
             PROVE  /\ Steady(bs2[d], Len(fs2[i].scope))
                    /\ c2 # NoBlock => bs2[d].par.live \subseteq With(bs2[c2].syms)
                    /\ \A j \in DOMAIN fs2 : j >= i =>
                         \A b \in Rests(fs2[j]) : bs2[d].par.live \subseteq With(bs2[b].syms)
  BY DEF Laden
<1>3. CASE Len(fs2) = k + 1 /\ i = k + 1
  BY <1>1, <1>3 DEF Carried, Sources, Only
<1>4. CASE i \in 1 .. k
  <2> DEFINE live == bs[d].par.live
             n == Len(fs[i].scope)
             m == Len(Up(fs, sc, k))
  <2>1. d \in Loops(fs[i]) /\ i \in DOMAIN fs /\ fs2[i] = fs[i] /\ d \in DOMAIN bs
    BY <1>1, <1>2, <1>4
  <2>2. bs2[d].par = bs[d].par /\ bs2[d].accRet = bs[d].accRet
    BY <2>1 DEF Grown
  <2>3. Steady(bs[d], n)
    BY <2>1 DEF Laden
  <2>4. Steady(bs2[d], n)
    BY <2>2, <2>3 DEF Steady
  <2>5. live \subseteq 1 .. m
    <3>1. n <= m /\ live \subseteq 1 .. n
      BY <1>4, <2>3, ScopesBelow, Zenon DEF Above, Steady
    <3>2. n \in Nat /\ m \in Nat
      <4>1. fs[i] \in Frames
        BY <2>1
      <4>2. fs[i].scope \in Seq(Nat)
        BY <4>1 DEF Frames
      <4>3. k \in Nat /\ (k # Len(fs) => Len(fs) = k + 1)
        BY DEF Above
      <4>4. k # Len(fs) => fs[k + 1] \in Frames
        BY <1>1, <4>3
      <4>5. Up(fs, sc, k) \in Seq(Nat)
        BY <4>4 DEF Up, Frames
      <4> QED
        BY <4>2, <4>5
    <3> HIDE DEF n, m, live
    <3> QED
      BY <3>1, <3>2
  <2>6. Carried(bs, Sources(c, fs, k), live)
    <3>1. c # NoBlock => live \subseteq With(bs[c].syms)
      BY <2>1 DEF Laden
    <3>2. Len(fs) = k + 1 => \A b \in Rests(fs[k + 1]) : live \subseteq With(bs[b].syms)
      <4>1. Len(fs) = k + 1 => k + 1 \in DOMAIN fs /\ k + 1 >= i
        BY <1>1, <1>4 DEF Above
      <4> QED
        BY <2>1, <4>1 DEF Laden
    <3> QED
      BY <3>1, <3>2 DEF Carried, Sources, Only
  <2>7. Carried(bs2, Sources(c2, fs2, k), live)
    BY <2>5, <2>6
  <2>8. c2 # NoBlock => live \subseteq With(bs2[c2].syms)
    BY <2>7 DEF Carried, Sources, Only
  <2>9. ASSUME NEW j \in DOMAIN fs2, j >= i, NEW b \in Rests(fs2[j])
        PROVE  live \subseteq With(bs2[b].syms)
    <3>1. CASE j \in 1 .. k
      <4>1. j \in DOMAIN fs /\ fs2[j] = fs[j] /\ b \in DOMAIN bs
        BY <1>1, <1>2, <2>9, <3>1
      <4>2. live \subseteq With(bs[b].syms)
        BY <2>1, <2>9, <4>1 DEF Laden
      <4> QED
        BY <4>1, <4>2, Zenon DEF Grown
    <3>2. CASE Len(fs2) = k + 1 /\ j = k + 1
      BY <2>7, <2>9, <3>2 DEF Carried, Sources
    <3> QED
      BY <1>1, <3>1, <3>2
  <2>10. bs2[d].par.live = live
    BY <2>2
  <2> HIDE DEF live, n
  <2> QED
    BY <2>1, <2>4, <2>8, <2>9, <2>10 DEF n
<1> QED
  BY <1>1, <1>3, <1>4

LEMMA ReturningMove ==
  ASSUME NEW bs \in Seq(Block), NEW c, NEW fs \in Seq(Frames),
         \A i \in DOMAIN fs : FrameOK(Len(bs), fs[i]),
         NEW u, Returning(bs, c, fs, u),
         NEW k, NEW fs2, Above(fs, k, fs2),
         NEW bs2, Grown(bs, bs2, u), NEW c2,
         u # "top" =>
           /\ c2 # NoBlock => bs2[c2].hasRet
           /\ Len(fs2) = k + 1 => \A b \in Refers(fs2[k + 1]) : bs2[b].hasRet
  PROVE  Returning(bs2, c2, fs2, u)
<1>1. /\ \A i \in 1 .. k : i \in DOMAIN fs /\ i \in DOMAIN fs2 /\ fs2[i] = fs[i]
      /\ \A i \in DOMAIN fs2 : i \in 1 .. k \/ (Len(fs2) = k + 1 /\ i = k + 1)
  BY AboveIndex
<1>2. \A i \in 1 .. k : Refers(fs[i]) \subseteq DOMAIN bs
  <2>1. Len(bs) \in Nat /\ DOMAIN bs = 1 .. Len(bs)
    OBVIOUS
  <2> QED
    BY <1>1, <2>1, LoopsDomain
<1>3. ASSUME u # "top", NEW i \in DOMAIN fs2, NEW b \in Refers(fs2[i])
      PROVE  bs2[b].hasRet
  <2>1. CASE i \in 1 .. k
    <3>1. i \in DOMAIN fs /\ b \in Refers(fs[i]) /\ b \in DOMAIN bs
      BY <1>1, <1>2, <1>3, <2>1
    <3>2. bs[b].hasRet
      BY <1>3, <3>1 DEF Returning
    <3> QED
      BY <3>1, <3>2 DEF Grown
  <2> QED
    BY <1>1, <1>3, <2>1
<1> QED
  BY <1>3 DEF Returning

\* Those the step may go on with or take as the context of another.
Named(c, fs, k) == Only(c) \cup IF Len(fs) = k + 1 THEN Refers(fs[k + 1]) ELSE {}

\* The block x has a value for each of the first m variables that all blocks of
\* S have a value for.
Heir(bs, x, S, m) == \A live \in SUBSET (1 .. m) : Carried(bs, S, live) => live \subseteq With(x.syms)

LEMMA OldHeir ==
  ASSUME NEW bs, NEW bs2, NEW u, Grown(bs, bs2, u), NEW S, NEW b \in S, b \in DOMAIN bs, NEW m
  PROVE  Heir(bs, bs2[b], S, m)
BY Zenon DEF Heir, Carried, Grown

\* A loop the call above the first k has begun before.
LEMMA LoopStays ==
  ASSUME NEW bs, NEW c, NEW fs, Laden(bs, c, fs), NEW k \in Nat, Len(fs) = k + 1,
         k + 1 \in DOMAIN fs, NEW d \in Loops(fs[k + 1])
  PROVE  /\ Steady(bs[d], Len(fs[k + 1].scope))
         /\ bs[d].par.live \subseteq 1 .. Len(fs[k + 1].scope)
         /\ Carried(bs, Sources(c, fs, k), bs[d].par.live)
<1>1. k + 1 >= k + 1
  OBVIOUS
<1> QED
  BY <1>1 DEF Laden, Carried, Sources, Only, Steady

\* What a step does for the values that are passed on: the blocks it goes on
\* with or keeps have those that all it had before had.
Passes(bs, c, fs, sc, k, bs2, c2, fs2, u) ==
  /\ Above(fs, k, fs2)
  /\ Grown(bs, bs2, u)
  /\ \A b \in Sources(c2, fs2, k) : Heir(bs, bs2[b], Sources(c, fs, k), Len(Up(fs, sc, k)))
  /\ Len(fs2) = k + 1 => \A d \in Loops(fs2[k + 1]) :
       \/ Len(fs) = k + 1 /\ d \in Loops(fs[k + 1]) /\ fs2[k + 1].scope = fs[k + 1].scope
       \/ /\ Steady(bs2[d], Len(fs2[k + 1].scope))
          /\ Carried(bs2, Sources(c2, fs2, k), bs2[d].par.live)
  /\ u # "top" => \A b \in Named(c2, fs2, k) : b \in Named(c, fs, k) \/ bs2[b].hasRet

LEMMA LadenPasses ==
  ASSUME NEW bs \in Seq(Block), NEW c, NEW fs \in Seq(Frames),
         \A i \in DOMAIN fs : FrameOK(Len(bs), fs[i]),
         Laden(bs, c, fs), NEW sc \in Seq(Nat), Chain(fs, sc),
         NEW k, NEW fs2, NEW bs2, NEW u, NEW c2, Passes(bs, c, fs, sc, k, bs2, c2, fs2, u)
  PROVE  Laden(bs2, c2, fs2)
<1> DEFINE m == Len(Up(fs, sc, k))
<1>1. Above(fs, k, fs2) /\ Grown(bs, bs2, u) /\ k \in Nat
  BY DEF Passes, Above
<1>2. ASSUME NEW live \in SUBSET (1 .. m), Carried(bs, Sources(c, fs, k), live)
      PROVE  Carried(bs2, Sources(c2, fs2, k), live)
  BY <1>2, Zenon DEF Passes, Carried, Heir
<1>3. ASSUME Len(fs2) = k + 1, NEW d \in Loops(fs2[k + 1])
      PROVE  /\ Steady(bs2[d], Len(fs2[k + 1].scope))
             /\ Carried(bs2, Sources(c2, fs2, k), bs2[d].par.live)
  <2>1. CASE Len(fs) = k + 1 /\ d \in Loops(fs[k + 1]) /\ fs2[k + 1].scope = fs[k + 1].scope
    <3>1. k + 1 \in DOMAIN fs
      BY <1>1, <2>1, AboveIndex
    <3>2. d \in DOMAIN bs
      <4>1. Len(bs) \in Nat /\ DOMAIN bs = 1 .. Len(bs) /\ FrameOK(Len(bs), fs[k + 1])
        BY <3>1
      <4> QED
        BY <2>1, <4>1, LoopsDomain
    <3>3. /\ Steady(bs[d], Len(fs[k + 1].scope))
          /\ bs[d].par.live \subseteq 1 .. Len(fs[k + 1].scope)
          /\ Carried(bs, Sources(c, fs, k), bs[d].par.live)
      BY <1>1, <2>1, <3>1, LoopStays, Zenon
    <3>4. bs2[d].par = bs[d].par /\ bs2[d].accRet = bs[d].accRet
      BY <1>1, <3>2 DEF Grown
    <3>5. Up(fs, sc, k) = fs[k + 1].scope
      BY <1>1, <2>1 DEF Up
    <3>6. Carried(bs2, Sources(c2, fs2, k), bs[d].par.live)
      BY <1>2, <3>3, <3>5
    <3> QED
      BY <2>1, <3>3, <3>4, <3>6 DEF Steady
  <2> QED
    BY <1>3, <2>1 DEF Passes
<1> QED
  BY <1>1, <1>2, <1>3, LadenMove, Zenon

LEMMA ReturningPasses ==
  ASSUME NEW bs \in Seq(Block), NEW c, NEW fs \in Seq(Frames), c \in 0 .. Len(bs),
         \A i \in DOMAIN fs : FrameOK(Len(bs), fs[i]),
         NEW u, Returning(bs, c, fs, u), NEW sc,
         NEW k, NEW fs2, NEW bs2, NEW c2, Passes(bs, c, fs, sc, k, bs2, c2, fs2, u)
  PROVE  Returning(bs2, c2, fs2, u)
<1>1. Above(fs, k, fs2) /\ Grown(bs, bs2, u) /\ k \in Nat
  BY DEF Passes, Above
<1>2. ASSUME u # "top", NEW b \in Named(c2, fs2, k)
      PROVE  bs2[b].hasRet
  <2>1. CASE b \in Only(c)
    <3>1. b \in DOMAIN bs /\ bs[b].hasRet
      BY <1>2, <2>1 DEF Returning, Only, NoBlock
    <3> QED
      BY <1>1, <3>1 DEF Grown
  <2>2. CASE Len(fs) = k + 1 /\ b \in Refers(fs[k + 1])
    <3>1. k + 1 \in DOMAIN fs
      BY <1>1, <2>2, AboveIndex
    <3>2. b \in DOMAIN bs
      <4>1. Len(bs) \in Nat /\ DOMAIN bs = 1 .. Len(bs) /\ FrameOK(Len(bs), fs[k + 1])
        BY <3>1
      <4> QED
        BY <2>2, <4>1, LoopsDomain
    <3>3. bs[b].hasRet
      BY <1>2, <2>2, <3>1 DEF Returning
    <3> QED
      BY <1>1, <3>2, <3>3 DEF Grown
  <2> QED
    BY <1>2, <2>1, <2>2 DEF Passes, Named
<1>3. u # "top" =>
        /\ c2 # NoBlock => bs2[c2].hasRet
        /\ Len(fs2) = k + 1 => \A b \in Refers(fs2[k + 1]) : bs2[b].hasRet
  BY <1>2 DEF Named, Only
<1> QED
  BY <1>1, <1>3, ReturningMove

\* A step gives the blocks of S their tails and adds n blocks.
LEMMA EffectFlows ==
  ASSUME NEW bs \in Seq(Block), NEW bs2, NEW S \in SUBSET DOMAIN bs, NEW n \in Nat,
         Effect(bs, bs2, S, n), \A b \in S : Open(bs, b) /\ Flow(bs2, b)
  PROVE  /\ \A b \in DOMAIN bs : ~Open(bs, b) => bs2[b] = bs[b]
         /\ \A b \in DOMAIN bs2 : (b \in DOMAIN bs => Open(bs, b)) => Flow(bs2, b)
<1>1. \A b \in DOMAIN bs : ~Open(bs, b) => bs2[b] = bs[b]
  BY DEF Effect
<1>2. ASSUME NEW b \in DOMAIN bs2, b \in DOMAIN bs => Open(bs, b), b \notin S
      PROVE  Flow(bs2, b)
  <2>1. bs2[b].tail.type = "open"
    BY <1>2 DEF Effect, Open
  <2> QED
    BY <2>1, OpenFlow
<1> QED
  BY <1>1, <1>2

LEMMA FedMove ==
  ASSUME NEW h, Before(h), NEW u, Fed(blocks, cur, frames, u),
         NEW k, NEW bs2, NEW c2, NEW fs2, Passes(blocks, cur, frames, scope, k, bs2, c2, fs2, u),
         \A b \in DOMAIN blocks : ~Open(blocks, b) => bs2[b] = blocks[b],
         \A b \in DOMAIN bs2 : (b \in DOMAIN blocks => Open(blocks, b)) => Flow(bs2, b)
  PROVE  Fed(bs2, c2, fs2, u)
<1>1. /\ blocks \in Seq(Block) /\ frames \in Seq(Frames) /\ scope \in Seq(Nat)
      /\ \A i \in DOMAIN frames : FrameOK(Len(blocks), frames[i])
      /\ cur \in 0 .. Len(blocks) /\ Chain(frames, scope)
  BY BeforeFacts DEF Settled
<1>2. Sound(blocks, u) /\ Flows(blocks) /\ Laden(blocks, cur, frames) /\ Returning(blocks, cur, frames, u)
  BY DEF Fed
<1>3. Grown(blocks, bs2, u)
  BY DEF Passes
<1>4. Sound(bs2, u)
  BY <1>2, <1>3, GrownSound
<1>5. Flows(bs2)
  BY <1>1, <1>2, <1>3, FlowsGrow
<1>6. Laden(bs2, c2, fs2)
  BY <1>1, <1>2, LadenPasses
<1>7. Returning(bs2, c2, fs2, u)
  BY <1>1, <1>2, ReturningPasses, Zenon
<1> QED
  BY <1>4, <1>5, <1>6, <1>7 DEF Fed

\* What loop_trigger writes down.
LEMMA TriggerFed ==
  ASSUME NEW bs, NEW c, c # NoBlock, NEW fs \in Seq(Frames), fs # <<>>, fs[Len(fs)].k = "do",
         NEW u, Fed(bs, c, fs, u)
  PROVE  Fed(bs, c, [fs EXCEPT ![Len(fs)] = LoopTrigger(fs[Len(fs)], c)], u)
<1> DEFINE n == Len(fs)
           f == fs[n]
           g == LoopTrigger(f, c)
           fs2 == [fs EXCEPT ![n] = g]
<1>1. n \in DOMAIN fs /\ f \in Frames /\ f.k = "do"
  OBVIOUS
<1>2. /\ g.k = "do" /\ g.oth = f.oth /\ g.scope = f.scope /\ g.par = f.par
      /\ g.brk = f.brk /\ g.cont = f.cont
      /\ g.ctx \in {f.ctx, f.prev} /\ g.prev \in {f.prev, c}
  BY <1>1 DEF LoopTrigger, Frames
<1>3. /\ DOMAIN fs2 = DOMAIN fs /\ fs2[n] = g
      /\ \A i \in DOMAIN fs : i # n => fs2[i] = fs[i]
  BY <1>1
<1> HIDE DEF g, fs2, f
<1>4. Loops(g) = Loops(f) /\ Rests(g) = Rests(f)
  <2>1. f.k = "do"
    BY <1>1
  <2> QED
    BY <1>2, <2>1 DEF Loops, Rests, Pending
<1>5. \A b \in Refers(g) : b \in Refers(f) \/ b = c
  <2>1. f.k = "do"
    BY <1>1
  <2> QED
    BY <1>2, <1>4, <2>1 DEF Refers, Fixed, Own
<1>6. \A i \in DOMAIN fs : /\ Loops(fs2[i]) = Loops(fs[i]) /\ Rests(fs2[i]) = Rests(fs[i])
                           /\ fs2[i].scope = fs[i].scope
                           /\ \A b \in Refers(fs2[i]) : b \in Refers(fs[i]) \/ b = c
  BY <1>2, <1>3, <1>4, <1>5 DEF f
<1>7. Laden(bs, c, fs2)
  BY <1>3, <1>6 DEF Fed, Laden
<1>8. Returning(bs, c, fs2, u)
  BY <1>3, <1>6 DEF Fed, Returning
<1> QED
  BY <1>7, <1>8 DEF Fed, fs2, g, f

LEMMA DoneFed ==
  ASSUME NEW fs \in Seq(Frames), NEW c, NEW bs, Done(fs, c, bs), NEW u, Fed(bs, c, fs, u)
  PROVE  Fed(blocks', cur', frames', u)
<1>1. blocks' = bs /\ cur' = c
  BY DEF Done, Produce
<1>2. CASE fs # <<>> /\ fs[Len(fs)].k = "do" /\ c # NoBlock
  <2>1. frames' = [fs EXCEPT ![Len(fs)] = LoopTrigger(fs[Len(fs)], c)]
    BY <1>2 DEF Done
  <2> QED
    BY <1>1, <1>2, <2>1, TriggerFed, Zenon
<1>3. CASE ~(fs # <<>> /\ fs[Len(fs)].k = "do" /\ c # NoBlock)
  <2>1. frames' = fs
    BY <1>3 DEF Done
  <2> QED
    BY <1>1, <2>1
<1> QED
  BY <1>2, <1>3

-----------------------------------------------------------------------------
(* The ways a step treats the stack of calls.                              *)

LEMMA EnterAbove ==
  ASSUME NEW fs \in Seq(Frames), NEW g \in Frames, NEW c, NEW sc
  PROVE  LET k == Len(fs)
             fs2 == Append(fs, g)
         IN /\ Above(fs, k, fs2) /\ Len(fs2) = k + 1 /\ Len(fs) # k + 1
            /\ fs2[k + 1] = g /\ Up(fs, sc, k) = sc
            /\ Sources(c, fs, k) = Only(c) /\ Named(c, fs, k) = Only(c)
            /\ Sources(c, fs2, k) = Only(c) \cup Rests(g)
            /\ Named(c, fs2, k) = Only(c) \cup Refers(g)
<1> DEFINE k == Len(fs)
           fs2 == Append(fs, g)
<1>1. k \in Nat /\ Len(fs2) = k + 1 /\ Len(fs) # k + 1 /\ fs2 \in Seq(Frames) /\ fs2[k + 1] = g
      /\ \A i \in 1 .. k : fs2[i] = fs[i]
  OBVIOUS
<1>2. Above(fs, k, fs2)
  <2>1. k <= k /\ k <= k + 1 /\ k + 1 <= k + 1
    BY <1>1
  <2> QED
    BY <1>1, <2>1 DEF Above
<1> HIDE DEF fs2
<1> QED
  BY <1>1, <1>2 DEF Up, Sources, Named, fs2

LEMMA StayAbove ==
  ASSUME NEW fs \in Seq(Frames), NEW c, NEW sc
  PROVE  LET k == Len(fs)
         IN /\ Above(fs, k, fs) /\ Len(fs) # k + 1 /\ Up(fs, sc, k) = sc
            /\ Sources(c, fs, k) = Only(c) /\ Named(c, fs, k) = Only(c)
<1> DEFINE k == Len(fs)
<1>1. k \in Nat /\ k # k + 1 /\ k <= k /\ k <= k + 1
  OBVIOUS
<1> QED
  BY <1>1 DEF Above, Up, Sources, Named

LEMMA TopAbove ==
  ASSUME NEW fs \in Seq(Frames), fs # <<>>, NEW c, NEW sc
  PROVE  LET k == Len(fs) - 1
             f == fs[Len(fs)]
         IN /\ Len(fs) = k + 1 /\ k + 1 \in DOMAIN fs /\ fs[k + 1] = f /\ f \in Frames
            /\ Up(fs, sc, k) = f.scope
            /\ Sources(c, fs, k) = Only(c) \cup Rests(f)
            /\ Named(c, fs, k) = Only(c) \cup Refers(f)
BY BelowFacts DEF Up, Sources, Named

LEMMA LeaveAbove ==
  ASSUME NEW fs \in Seq(Frames), fs # <<>>, NEW c
  PROVE  LET k == Len(fs) - 1
             fs2 == SubSeq(fs, 1, k)
         IN /\ Above(fs, k, fs2) /\ Len(fs2) # k + 1
            /\ Sources(c, fs2, k) = Only(c) /\ Named(c, fs2, k) = Only(c)
<1> DEFINE k == Len(fs) - 1
           fs2 == SubSeq(fs, 1, k)
<1>1. /\ k \in Nat /\ k <= Len(fs) /\ Len(fs) <= k + 1
      /\ fs2 \in Seq(Frames) /\ Len(fs2) # k + 1 /\ k <= Len(fs2) /\ Len(fs2) <= k + 1
      /\ \A i \in 1 .. k : fs2[i] = fs[i]
  BY BelowFacts
<1> HIDE DEF k, fs2
<1>2. Above(fs, k, fs2) /\ Len(fs2) # k + 1
      /\ Sources(c, fs2, k) = Only(c) /\ Named(c, fs2, k) = Only(c)
  BY <1>1 DEF Above, Sources, Named
<1> QED
  BY <1>2 DEF k, fs2

LEMMA SwapAbove ==
  ASSUME NEW fs \in Seq(Frames), fs # <<>>, NEW c, NEW g \in Frames
  PROVE  LET k == Len(fs) - 1
             fs2 == Append(SubSeq(fs, 1, k), g)
         IN /\ Above(fs, k, fs2) /\ Len(fs2) = k + 1 /\ fs2[k + 1] = g
            /\ Sources(c, fs2, k) = Only(c) \cup Rests(g)
            /\ Named(c, fs2, k) = Only(c) \cup Refers(g)
<1> DEFINE k == Len(fs) - 1
           below == SubSeq(fs, 1, k)
           fs2 == Append(below, g)
<1>1. /\ k \in Nat /\ k <= Len(fs) /\ Len(fs) <= k + 1
      /\ below \in Seq(Frames) /\ Len(below) = k
      /\ \A i \in 1 .. k : below[i] = fs[i] /\ i \in DOMAIN below
  BY BelowFacts
<1> HIDE DEF k, below
<1>2. fs2 \in Seq(Frames) /\ Len(fs2) = k + 1 /\ fs2[k + 1] = g
      /\ \A i \in 1 .. k : fs2[i] = fs[i]
  BY <1>1
<1>3. k <= k + 1 /\ k + 1 <= k + 1
  BY <1>1
<1> HIDE DEF fs2
<1>4. Above(fs, k, fs2)
  BY <1>1, <1>2, <1>3 DEF Above
<1>5. Sources(c, fs2, k) = Only(c) \cup Rests(g) /\ Named(c, fs2, k) = Only(c) \cup Refers(g)
  BY <1>2 DEF Sources, Named
<1> QED
  BY <1>2, <1>4, <1>5 DEF k, below, fs2

-----------------------------------------------------------------------------
(* Steps that fill the current block.                                      *)

\* What a step must leave behind.
Feeds ==
  /\ Sound(blocks', unit) /\ Flows(blocks')
  /\ status' = "running" =>
       Laden(blocks', cur', frames') /\ Returning(blocks', cur', frames', unit)

LEMMA FedFeeds ==
  ASSUME Fed(blocks', cur', frames', unit)
  PROVE  Feeds
BY DEF Fed, Feeds

LEMMA StoppedFeeds ==
  ASSUME NEW c, NEW fs, Fed(blocks, c, fs, unit), blocks' = blocks, status' # "running"
  PROVE  Feeds
BY DEF Fed, Feeds

\* The new blocks have values for their parameters.
Fresher(bs, bs2, u) ==
  \A b \in DOMAIN bs2 \ DOMAIN bs : /\ bs2[b].par.live \subseteq With(bs2[b].syms)
                                    /\ bs2[b].hasRet \/ bs2[b].par.ret => u # "top"

LEMMA KeepsGrown ==
  ASSUME NEW bs \in Seq(Block), NEW bs2, Keeps(bs, bs2), NEW u, Sound(bs, u), Fresher(bs, bs2, u)
  PROVE  Grown(bs, bs2, u)
<1>1. bs2 \in Seq(Block) /\ Len(bs) <= Len(bs2)
  BY DEF Keeps
<1>2. ASSUME NEW b \in DOMAIN bs
      PROVE  /\ bs2[b].par = bs[b].par /\ bs2[b].accRet = bs[b].accRet
             /\ With(bs[b].syms) \subseteq With(bs2[b].syms)
             /\ Begins(Lists(bs)[b], Lists(bs2)[b])
             /\ bs[b].hasRet => bs2[b].hasRet
             /\ bs2[b].hasRet => u # "top"
  <2>1. Kin(bs2[b], bs[b])
    BY DEF Keeps
  <2>2. Lists(bs2)[b] = Lists(bs)[b] /\ Lists(bs)[b] \in Seq(Nat)
    <3>1. b \in DOMAIN bs2
      BY <1>1
    <3> QED
      BY <1>1, <2>1, <3>1, ListsType DEF Kin
  <2>3. Begins(Lists(bs)[b], Lists(bs2)[b])
    BY <2>2, BeginsItself
  <2> QED
    BY <2>1, <2>3 DEF Kin, Sound
<1> QED
  BY <1>1, <1>2, Zenon DEF Grown, Fresher

LEMMA CurOpen ==
  ASSUME Well, cur' # NoBlock
  PROVE  Open(blocks', cur') /\ cur' \in DOMAIN blocks' /\ blocks' \in Seq(Block)
<1>1. PICK h : Ready(blocks', cur', frames', at', h)
  BY DEF Well, EndsWell
<1> DEFINE bs == blocks'
           c == cur'
           fs == frames'
<1>2. Shape(bs, c, fs) /\ c # NoBlock
  BY <1>1 DEF Ready
<1> HIDE DEF bs, c, fs
<1>3. c \in DOMAIN bs /\ bs \in Seq(Block)
  BY <1>2 DEF Shape, NoBlock
<1>4. c \in Held(c, fs, 0)
  BY <1>2 DEF Held
<1>5. Open(bs, c)
  BY <1>2, <1>3, <1>4 DEF Shape
<1> QED
  BY <1>3, <1>5 DEF bs, c

LEMMA MildRefers ==
  ASSUME NEW f, f.k \in Mild
  PROVE  Loops(f) = {} /\ Rests(f) = {} /\ Refers(f) = {}
<1>1. Fixed(f) = {} /\ Own(f) = {}
  BY MildFrame
<1>2. Loops(f) = {} /\ Rests(f) = {}
  BY DEF Mild, Loops, Rests, Pending
<1> QED
  BY <1>1, <1>2 DEF Refers

\* The calls as a step that only fills the current block may leave them.
Mildly(fs2) ==
  \/ fs2 = frames
  \/ frames # <<>> /\ fs2 = Below
  \/ \E g \in Frames : g.k \in Mild /\ ( \/ fs2 = Append(frames, g)
                                         \/ frames # <<>> /\ fs2 = Append(Below, g))

LEMMA MildPasses ==
  ASSUME NEW h, Before(h), NEW u, cur # NoBlock, NEW bs2, Grown(blocks, bs2, u),
         NEW fs2, Mildly(fs2)
  PROVE  \E k : Passes(blocks, cur, frames, scope, k, bs2, cur, fs2, u)
<1>1. frames \in Seq(Frames) /\ cur \in DOMAIN blocks
  BY BeforeFacts
<1>2. ASSUME NEW k, NEW S, S = Sources(cur, frames, k), cur \in S, NEW m
      PROVE  Heir(blocks, bs2[cur], S, m)
  BY <1>1, <1>2, OldHeir
<1>3. Only(cur) = {cur}
  BY DEF Only
<1>4. CASE fs2 = frames
  <2> DEFINE k == Len(frames)
  <2>1. /\ Above(frames, k, frames) /\ Len(frames) # k + 1
        /\ Sources(cur, frames, k) = Only(cur) /\ Named(cur, frames, k) = Only(cur)
    BY <1>1, StayAbove
  <2> HIDE DEF k
  <2> QED
    BY <1>2, <1>3, <1>4, <2>1 DEF Passes
<1>5. CASE frames # <<>> /\ fs2 = Below
  <2> DEFINE k == Len(frames) - 1
  <2>1. /\ Above(frames, k, fs2) /\ Len(fs2) # k + 1
        /\ Sources(cur, fs2, k) = Only(cur) /\ Named(cur, fs2, k) = Only(cur)
    BY <1>1, <1>5, LeaveAbove DEF Below
  <2>2. /\ Sources(cur, frames, k) = Only(cur) \cup Rests(frames[Len(frames)])
        /\ Named(cur, frames, k) = Only(cur) \cup Refers(frames[Len(frames)])
    BY <1>1, <1>5, TopAbove
  <2> HIDE DEF k
  <2> QED
    BY <1>2, <1>3, <2>1, <2>2 DEF Passes
<1>6. ASSUME NEW g \in Frames, g.k \in Mild, fs2 = Append(frames, g)
      PROVE  \E k : Passes(blocks, cur, frames, scope, k, bs2, cur, fs2, u)
  <2> DEFINE k == Len(frames)
  <2>1. /\ Above(frames, k, fs2) /\ Len(fs2) = k + 1 /\ Len(frames) # k + 1
        /\ fs2[k + 1] = g /\ Sources(cur, frames, k) = Only(cur) /\ Named(cur, frames, k) = Only(cur)
        /\ Sources(cur, fs2, k) = Only(cur) \cup Rests(g)
        /\ Named(cur, fs2, k) = Only(cur) \cup Refers(g)
    BY <1>1, <1>6, EnterAbove
  <2>2. Loops(g) = {} /\ Rests(g) = {} /\ Refers(g) = {}
    BY <1>6, MildRefers
  <2> HIDE DEF k
  <2> QED
    BY <1>2, <1>3, <2>1, <2>2 DEF Passes
<1>7. ASSUME NEW g \in Frames, g.k \in Mild, frames # <<>>, fs2 = Append(Below, g)
      PROVE  \E k : Passes(blocks, cur, frames, scope, k, bs2, cur, fs2, u)
  <2> DEFINE k == Len(frames) - 1
  <2>1. /\ Above(frames, k, fs2) /\ Len(fs2) = k + 1 /\ fs2[k + 1] = g
        /\ Sources(cur, fs2, k) = Only(cur) \cup Rests(g)
        /\ Named(cur, fs2, k) = Only(cur) \cup Refers(g)
    BY <1>1, <1>7, SwapAbove, Zenon DEF Below
  <2>2. /\ Sources(cur, frames, k) = Only(cur) \cup Rests(frames[Len(frames)])
        /\ Named(cur, frames, k) = Only(cur) \cup Refers(frames[Len(frames)])
    BY <1>1, <1>7, TopAbove, Zenon
  <2>3. Loops(g) = {} /\ Rests(g) = {} /\ Refers(g) = {}
    BY <1>7, MildRefers
  <2> HIDE DEF k
  <2> QED
    BY <1>2, <1>3, <2>1, <2>2, <2>3 DEF Passes
<1> QED
  BY <1>4, <1>5, <1>6, <1>7 DEF Mildly

LEMMA FillFed ==
  ASSUME NEW h, Before(h), NEW u, Fed(blocks, cur, frames, u), Well, cur # NoBlock, cur' = cur,
         NEW x, blocks' = [blocks EXCEPT ![cur] = x], Grown(blocks, blocks', u),
         NEW fs2, Mildly(fs2)
  PROVE  Fed(blocks', cur, fs2, u)
<1> DEFINE bs2 == blocks'
<1>1. PICK k : Passes(blocks, cur, frames, scope, k, bs2, cur, fs2, u)
  BY MildPasses
<1>2. \A b \in DOMAIN blocks : ~Open(blocks, b) => bs2[b] = blocks[b]
  BY DEF Well, EndsWell
<1>3. Open(bs2, cur)
  BY CurOpen
<1>4. DOMAIN bs2 = DOMAIN blocks /\ \A b \in DOMAIN blocks : b # cur => bs2[b] = blocks[b]
  OBVIOUS
<1> HIDE DEF bs2
<1>5. \A b \in DOMAIN bs2 : (b \in DOMAIN blocks => Open(blocks, b)) => Open(bs2, b)
  BY <1>3, <1>4 DEF Open
<1>6. \A b \in DOMAIN bs2 : (b \in DOMAIN blocks => Open(blocks, b)) => Flow(bs2, b)
  BY <1>5, OpenFlow DEF Open
<1>7. Fed(bs2, cur, fs2, u)
  BY <1>1, <1>2, <1>6, FedMove
<1> QED
  BY <1>7 DEF bs2

LEMMA CalmFeeds ==
  ASSUME NEW h, Before(h), Fed(blocks, cur, frames, unit), Well, Calm
  PROVE  Feeds
<1>1. CASE blocks' = blocks /\ status' # "running"
  BY <1>1, StoppedFeeds
<1>2. CASE ~(blocks' = blocks /\ status' # "running")
  <2>1. PICK x : Kin(x, blocks[cur]) /\ blocks' = [blocks EXCEPT ![cur] = x]
    BY <1>2 DEF Calm
  <2>2. cur # NoBlock /\ cur' = cur
    BY <1>2 DEF Calm
  <2> DEFINE fs2 == frames'
             bs2 == blocks'
  <2>3. Mildly(fs2)
    BY <1>2 DEF Calm, Mildly, Enter, Replace
  <2>4. blocks \in Seq(Block) /\ cur \in DOMAIN blocks /\ bs2 \in Seq(Block)
    BY <2>2, BeforeFacts, AfterFacts
  <2>5. Keeps(blocks, bs2) /\ Len(bs2) = Len(blocks)
    BY <2>1, <2>4, PutKeeps, Zenon
  <2>6. Fresher(blocks, bs2, unit)
    BY <2>4, <2>5 DEF Fresher
  <2>7. Grown(blocks, bs2, unit)
    BY <2>4, <2>5, <2>6, KeepsGrown DEF Fed
  <2>8. Fed(blocks', cur, frames', unit)
    BY <2>1, <2>2, <2>3, <2>7, FillFed, Zenon
  <2> QED
    BY <2>2, <2>8, FedFeeds
<1> QED
  BY <1>1, <1>2

\* A block gets a symbol.
LEMMA GetsGrown ==
  ASSUME NEW bs \in Seq(Block), Whole(bs), NEW c \in DOMAIN bs, NEW s \in Nat, NEW ex \in BOOLEAN,
         NEW ins \in Int, NEW u, Sound(bs, u)
  PROVE  Grown(bs, Gets(bs, c, s, ex, ins), u)
<1> DEFINE x == AddSymbol(bs[c], s, ex, ins)
           bs2 == Gets(bs, c, s, ex, ins)
<1>1. /\ bs2 \in Seq(Block) /\ Len(bs2) = Len(bs)
      /\ Lists(bs2)[c] = Append(Lists(bs)[c], s)
      /\ \A b \in DOMAIN bs : b # c => Lists(bs2)[b] = Lists(bs)[b]
  BY AddedList
<1>2. bs2[c] = x /\ \A b \in DOMAIN bs : b # c => bs2[b] = bs[b]
  BY DEF Gets
<1>3. /\ x.par = bs[c].par /\ x.accRet = bs[c].accRet /\ x.hasRet = bs[c].hasRet
      /\ With(bs[c].syms) \subseteq With(x.syms)
  <2>1. bs[c] \in Block
    OBVIOUS
  <2> DEFINE q == bs[c].syms
             e == [s |-> s, ex |-> ex, ins |-> ins]
  <2>2. q \in Seq(Entry) /\ x.syms = Append(q, e) /\ x.par = bs[c].par
        /\ x.accRet = bs[c].accRet /\ x.hasRet = bs[c].hasRet
    BY <2>1 DEF Block, AddSymbol
  <2> HIDE DEF q, e
  <2>3. With(q) \subseteq With(Append(q, e))
    BY <2>2 DEF With
  <2> QED
    BY <2>2, <2>3 DEF q
<1> HIDE DEF x, bs2
<1>4. \A b \in DOMAIN bs : Begins(Lists(bs)[b], Lists(bs2)[b])
  <2>1. \A b \in DOMAIN bs : Lists(bs)[b] \in Seq(Nat)
    BY ListsType
  <2> QED
    BY <1>1, <2>1, BeginsItself, BeginsAppend, Zenon
<1>5. ASSUME NEW b \in DOMAIN bs
      PROVE  /\ bs2[b].par = bs[b].par /\ bs2[b].accRet = bs[b].accRet
             /\ With(bs[b].syms) \subseteq With(bs2[b].syms)
             /\ bs[b].hasRet => bs2[b].hasRet
             /\ bs2[b].hasRet => u # "top"
  BY <1>2, <1>3 DEF Sound
<1>6. DOMAIN bs2 = DOMAIN bs
  BY <1>1
<1>7. Len(bs) <= Len(bs2)
  <2>1. Len(bs) \in Nat
    OBVIOUS
  <2> QED
    BY <1>1, <2>1
<1>8. DOMAIN bs2 \ DOMAIN bs = {}
  BY <1>6
<1>9. Grown(bs, bs2, u)
  BY <1>1, <1>4, <1>5, <1>7, <1>8, Zenon DEF Grown
<1> QED
  BY <1>9 DEF bs2

LEMMA ClauseFeeds ==
  ASSUME NEW h, Before(h), Fed(blocks, cur, frames, unit), Well, cur # NoBlock,
         NEW s \in Nat, NEW ex \in BOOLEAN, NEW ins \in Int,
         NEW fs, fs = frames \/ (frames # <<>> /\ fs = Below), NEW kind, NEW more \in BOOLEAN,
         AfterClause(fs, kind, more, cur, Gets(blocks, cur, s, ex, ins))
  PROVE  Feeds
<1> DEFINE x == AddSymbol(blocks[cur], s, ex, ins)
           bs == Gets(blocks, cur, s, ex, ins)
<1>1. blocks' = bs /\ cur' = cur
  BY DEF AfterClause, Done, Produce
<1>2. blocks' = [blocks EXCEPT ![cur] = x]
  BY <1>1 DEF Gets
<1>3. Grown(blocks, blocks', unit)
  <2>1. blocks \in Seq(Block) /\ Whole(blocks) /\ cur \in DOMAIN blocks /\ Sound(blocks, unit)
    BY BeforeFacts DEF Fed
  <2>2. Grown(blocks, bs, unit)
    BY <2>1, GetsGrown DEF bs
  <2> QED
    BY <1>1, <2>2
<1>4. fs \in Seq(Frames)
  <2>1. frames \in Seq(Frames)
    BY BeforeFacts
  <2>2. frames # <<>> => Below \in Seq(Frames)
    BY <2>1, BelowFacts DEF Below
  <2> QED
    BY <2>1, <2>2
<1>5. Mildly(fs)
  BY DEF Mildly
<1> HIDE DEF x, bs
<1>6. Fed(bs, cur, fs, unit)
  BY <1>1, <1>2, <1>3, <1>5, FillFed, Zenon
<1>7. CASE more
  <2>1. frames' = fs
    BY <1>7 DEF AfterClause
  <2> QED
    BY <1>1, <1>6, <2>1, FedFeeds
<1>8. CASE ~more
  <2>1. Done(fs, cur, bs)
    BY <1>8 DEF AfterClause, bs
  <2> QED
    BY <1>4, <1>6, <2>1, DoneFed, FedFeeds
<1> QED
  BY <1>7, <1>8

LEMMA DefineBareFeeds ==
  ASSUME NEW h, Before(h), Fed(blocks, cur, frames, unit), Well, NEW more \in BOOLEAN,
         DefineBare(more)
  PROVE  Feeds
<1> DEFINE s == symbols'
           no == FALSE
           zero == 0
<1>1. /\ cur # NoBlock /\ s = symbols + 1
      /\ AfterClause(frames, "defining", more, cur, Gets(blocks, cur, s, no, zero))
  BY DEF DefineBare, StartsClause, Gets
<1>2. s \in Nat /\ no \in BOOLEAN /\ zero \in Int
  BY <1>1 DEF Before, Types
<1> HIDE DEF s, no, zero
<1> QED
  BY <1>1, <1>2, ClauseFeeds

LEMMA EndClauseFeeds ==
  ASSUME NEW h, Before(h), Fed(blocks, cur, frames, unit), Well, NEW k, NEW mode,
         NEW more \in BOOLEAN, EndClause(k, mode, more)
  PROVE  Feeds
<1> DEFINE s == top.sym
           ex == TRUE
           ins == LastInstruction(blocks[cur])
<1>1. /\ at = "value" /\ frames # <<>>
      /\ AfterClause(Below, mode, more, cur, Gets(blocks, cur, s, ex, ins))
  BY DEF EndClause, Returned, Waiting, Gets
<1>2. cur # NoBlock /\ blocks[cur] \in Block
  BY <1>1, ExprFacts
<1>3. top \in Frames
  BY <1>1, BeforeFacts
<1>4. s \in Nat /\ ex \in BOOLEAN /\ ins \in Int
  BY <1>2, <1>3, ParamCountNat DEF Frames
<1> HIDE DEF s, ex, ins
<1> QED
  BY <1>1, <1>2, <1>4, ClauseFeeds

LEMMA EndExpressionFeeds ==
  ASSUME NEW h, Before(h), Fed(blocks, cur, frames, unit), Well, EndExpression
  PROVE  Feeds
<1>1. at = "value" /\ frames # <<>> /\ Done(Below, cur, blocks)
  BY DEF EndExpression, Returned, Waiting
<1>2. cur # NoBlock /\ cur' = cur /\ blocks' = blocks
  BY <1>1, ExprFacts DEF Done, Produce
<1>3. blocks \in Seq(Block) /\ cur \in DOMAIN blocks /\ frames \in Seq(Frames)
  BY <1>2, BeforeFacts
<1>4. blocks' = [blocks EXCEPT ![cur] = blocks[cur]]
  BY <1>2, <1>3
<1>5. Grown(blocks, blocks', unit)
  BY <1>2, <1>3, KeepsSame, KeepsGrown DEF Fed, Fresher
<1>6. Mildly(Below)
  BY <1>1 DEF Mildly
<1>7. Fed(blocks, cur, Below, unit)
  BY <1>2, <1>4, <1>5, <1>6, FillFed, Zenon
<1>8. Below \in Seq(Frames)
  BY <1>1, <1>3, BelowFacts DEF Below
<1> QED
  BY <1>1, <1>7, <1>8, DoneFed, FedFeeds

-----------------------------------------------------------------------------
(* What the tails that the operations write pass on.                       *)

\* The block x may be joined to y: y has values for its parameters and no other,
\* or its stack and its return struct leave no room for another, and x has them
\* too.
Suits(x, y) ==
  /\ y.par.live \subseteq With(y.syms)
  /\ \/ With(y.syms) = y.par.live
     \/ y.par.stk = 0 /\ y.par.extra = 0 /\ y.accRet = y.par.ret
  /\ \A q \in y.par.live : q \in With(x.syms) /\ x.syms[q].s = y.syms[q].s
  /\ y.par.ret => x.hasRet

\* The tail that is written with InjectParams passes what y takes.
LEMMA InjectFits ==
  ASSUME NEW x \in Block, NEW y \in Block, Suits(x, y), InjectParams(x, y).inject = "ok"
  PROVE  InjectParams(x, y).live = y.par.live
<1> DEFINE live == y.par.live
           all == With(y.syms)
           count == One(y.accRet) + Cardinality(all) + Len(y.stack)
<1>1. live \subseteq all
  BY DEF Suits
<1>2. y.par \in Params /\ y.stack \in Seq(Int) /\ y.syms \in Seq(Entry) /\ y.accRet \in BOOLEAN
  BY DEF Block
<1>3. IsFiniteSet(live) /\ y.par.stk \in Nat /\ y.par.extra \in Nat /\ y.par.ret \in BOOLEAN
  BY <1>2 DEF Params, Positions
<1>4. IsFiniteSet(all)
  <2>1. all \in SUBSET DOMAIN y.syms
    BY DEF With
  <2> QED
    BY <1>2, <2>1, LiveIsFinite DEF Positions
<1>5. Cardinality(live) \in Nat /\ Cardinality(all) \in Nat
  BY <1>3, <1>4, FS_CardinalityType
<1>6. One(y.par.ret) \in Nat /\ One(y.accRet) \in Nat /\ Len(y.stack) \in Nat
  BY <1>2, <1>3 DEF One
<1>7. ParamCount(y) = One(y.par.ret) + Cardinality(live) + y.par.stk + y.par.extra
  BY DEF ParamCount
<1>8. CASE ParamCount(y) = 0
  <2>1. InjectParams(x, y).live = {}
    BY <1>8 DEF InjectParams
  <2>2. Cardinality(live) = 0
    <3> HIDE DEF live
    <3> QED
      BY <1>3, <1>5, <1>6, <1>7, <1>8
  <2>3. live = {}
    BY <1>3, <2>2, FS_EmptySet
  <2> QED
    BY <2>1, <2>3
<1>9. CASE ParamCount(y) # 0
  <2>1. InjectParams(x, y).live = all /\ count <= ParamCount(y)
    <3> HIDE DEF live
    <3>1. ~(count > ParamCount(y))
      BY <1>9 DEF InjectParams
    <3>2. count \in Int /\ ParamCount(y) \in Int
      BY <1>3, <1>5, <1>6, <1>7
    <3>3. InjectParams(x, y).live = all
      BY <1>9 DEF InjectParams
    <3> HIDE DEF count
    <3> QED
      BY <3>1, <3>2, <3>3
  <2>2. CASE all = live
    BY <2>1, <2>2
  <2>3. CASE y.par.stk = 0 /\ y.par.extra = 0 /\ y.accRet = y.par.ret
    <3>1. Cardinality(all) <= Cardinality(live)
      <4> HIDE DEF live, all
      <4> QED
        BY <1>3, <1>5, <1>6, <1>7, <2>1, <2>3
    <3>2. Cardinality(live) <= Cardinality(all)
      BY <1>1, <1>4, FS_Subset
    <3>3. Cardinality(all) = Cardinality(live)
      <4> HIDE DEF live, all
      <4> QED
        BY <1>5, <3>1, <3>2
    <3>4. all = live
      <4> HIDE DEF live, all
      <4> QED
        BY <1>1, <1>4, <3>3, FS_Subset
    <3> QED
      BY <2>1, <3>4
  <2> QED
    BY <2>2, <2>3 DEF Suits
<1> QED
  BY <1>8, <1>9

\* What a block passes depends on its names, its values and its tail.
LEMMA FitKin ==
  ASSUME NEW b, NEW x, Kin(x, b), NEW y, NEW z, Kin(z, y), Suits(b, y), x.tail.live = y.par.live
  PROVE  Fit(x, z)
<1>1. z.par = y.par /\ (b.hasRet => x.hasRet) /\ With(b.syms) \subseteq With(x.syms)
      /\ With(y.syms) \subseteq With(z.syms)
  BY DEF Kin
<1>2. ASSUME NEW u, NEW v, Kin(v, u), NEW q \in DOMAIN u.syms
      PROVE  q \in DOMAIN v.syms /\ v.syms[q].s = u.syms[q].s
  <2>1. Names(v.syms) = Names(u.syms)
    BY <1>2 DEF Kin
  <2>2. DOMAIN v.syms = DOMAIN u.syms
    BY <2>1 DEF Names
  <2>3. Names(v.syms)[q] = v.syms[q].s /\ Names(u.syms)[q] = u.syms[q].s
    BY <2>2 DEF Names
  <2> QED
    BY <2>1, <2>2, <2>3
<1>3. ASSUME NEW q \in y.par.live
      PROVE  /\ q \in With(x.syms) /\ q \in DOMAIN z.syms
             /\ x.syms[q].s = z.syms[q].s
  <2>1. q \in With(b.syms) /\ q \in With(y.syms) /\ b.syms[q].s = y.syms[q].s
    BY <1>3 DEF Suits
  <2>2. q \in DOMAIN b.syms /\ q \in DOMAIN y.syms
    BY <2>1 DEF With
  <2>3. x.syms[q].s = b.syms[q].s /\ z.syms[q].s = y.syms[q].s /\ q \in DOMAIN z.syms
    BY <1>2, <2>2
  <2> QED
    BY <1>1, <2>1, <2>3
<1>4. y.par.ret => x.hasRet
  BY <1>1 DEF Suits
<1> QED
  BY <1>1, <1>3, <1>4 DEF Fit

\* What join_blocks writes leads to d, and fits it.
LEMMA JoinToFits ==
  ASSUME NEW b \in Block, NEW d \in Nat, NEW y \in Block
  PROVE  LET x == JoinTo(b, d, y)
         IN /\ Kin(x, b) /\ Leads(x) = {d}
            /\ Suits(b, y) /\ x.tail.inject = "ok" => x.tail.live = y.par.live
<1> DEFINE r == AddBlockref(b, d)
           i == InjectParams(b, y)
           t == [type |-> "goto", cond |-> 0, first |-> LastInstruction(r),
                 second |-> 0, live |-> i.live, args |-> i.args, inject |-> i.inject]
           x == JoinTo(b, d, y)
<1>1. x = [r EXCEPT !.tail = t]
  BY DEF JoinTo
<1>2. r \in Block
  BY AddBlockrefBlock
<1>3. b.code \in Seq(Instruction) /\ r.par = b.par
      /\ r.code = Append(b.code, Instr("ref", <<>>, d))
  BY DEF Block, AddBlockref
<1>4. ParamCount(r) \in Nat
  BY <1>2, ParamCountNat
<1>5. x.tail = t /\ x.code = r.code /\ x.par = r.par
  <2> HIDE DEF t, r
  <2> QED
    BY <1>1, <1>2 DEF Block
<1>6. Ref(x, x.tail.first) = d
  <2>1. Ref(x, x.tail.first) = r.code[LastInstruction(r) - ParamCount(r) + 1].to
    <3>1. ParamCount(x) = ParamCount(r)
      BY <1>5 DEF ParamCount
    <3>2. x.tail.first = LastInstruction(r)
      BY <1>5
    <3> HIDE DEF x, r, t
    <3> QED
      BY <1>5, <3>1, <3>2 DEF Ref
  <2>2. LastInstruction(r) - ParamCount(r) + 1 = Len(b.code) + 1
    <3>1. Len(r.code) = Len(b.code) + 1 /\ Len(b.code) \in Nat
      BY <1>3
    <3> HIDE DEF r
    <3> QED
      BY <1>4, <3>1 DEF LastInstruction, NextInstruction
  <2>3. r.code[Len(b.code) + 1] = Instr("ref", <<>>, d)
    <3> HIDE DEF r
    <3> QED
      BY <1>3
  <2>4. Instr("ref", <<>>, d).to = d
    BY DEF Instr
  <2> HIDE DEF r
  <2> QED
    BY <2>1, <2>2, <2>3, <2>4
<1>7. Leads(x) = {d}
  <2>1. x.tail.type = "goto"
    BY <1>5
  <2> HIDE DEF x
  <2> QED
    BY <1>6, <2>1 DEF Leads
<1>8. x.tail.live = i.live /\ x.tail.inject = i.inject
  BY <1>5
<1>9. Suits(b, y) /\ x.tail.inject = "ok" => x.tail.live = y.par.live
  BY <1>8, InjectFits, Zenon
<1> QED
  BY <1>7, <1>9, JoinToKin

LEMMA JoinFlow ==
  ASSUME NEW bs \in Seq(Block), NEW S \in SUBSET DOMAIN bs, NEW d \in DOMAIN bs,
         NEW b \in S, Suits(bs[b], bs[d])
  PROVE  Flow(JoinBlocks(bs, S, d), b)
<1> DEFINE bs2 == JoinBlocks(bs, S, d)
<1>1. bs[b] \in Block /\ bs[d] \in Block /\ d \in Nat /\ b \in DOMAIN bs
  OBVIOUS
<1>2. bs2[b] = JoinTo(bs[b], d, bs[d]) /\ DOMAIN bs2 = DOMAIN bs
  BY <1>1 DEF JoinBlocks
<1>3. Keeps(bs, bs2)
  BY JoinKeeps
<1> DEFINE x == bs2[b]
<1>4. Kin(x, bs[b]) /\ Leads(x) = {d} /\ (x.tail.inject = "ok" => x.tail.live = bs[d].par.live)
  BY <1>1, <1>2, JoinToFits
<1>5. Kin(bs2[d], bs[d])
  BY <1>3 DEF Keeps
<1> HIDE DEF bs2
<1>6. x.tail.inject = "ok" => Fit(x, bs2[d])
  BY <1>4, <1>5, FitKin
<1>7. Flow(bs2, b)
  BY <1>1, <1>2, <1>4, <1>6 DEF Flow
<1> QED
  BY <1>7 DEF bs2

\* branch_block's tail leads to two blocks, and fits both.
LEMMA BranchFlow ==
  ASSUME NEW bs \in Seq(Block), NEW p \in DOMAIN bs, NEW f \in DOMAIN bs, NEW s \in DOMAIN bs,
         bs[s] = bs[f], Suits(bs[p], bs[f])
  PROVE  Flow(BranchBlock(bs, p, f, s), p)
<1> DEFINE bs2 == BranchBlock(bs, p, f, s)
           b == bs[p]
           q == AddBlockref(b, f)
           r == AddBlockref(q, s)
           i == InjectParams(b, bs[f])
           t == [type |-> "branch", cond |-> LastInstruction(b),
                 first |-> LastInstruction(r) - 1, second |-> LastInstruction(r),
                 live |-> i.live, args |-> i.args, inject |-> i.inject]
           x == [r EXCEPT !.tail = t]
<1>1. bs2 = [bs EXCEPT ![p] = x]
  BY DEF BranchBlock
<1>2. b \in Block /\ bs[f] \in Block /\ f \in Nat /\ s \in Nat
  OBVIOUS
<1>3. Keeps(bs, bs2) /\ DOMAIN bs2 = DOMAIN bs
  BY <1>1, BranchKeeps, Zenon
<1>4. bs2[p] = x
  BY <1>1
<1> HIDE DEF b
<1>5. q \in Block /\ q.par = b.par /\ q.code = Append(b.code, Instr("ref", <<>>, f))
      /\ b.code \in Seq(Instruction)
  BY <1>2, AddBlockrefBlock, Zenon DEF Block, AddBlockref
<1> HIDE DEF q
<1>6. r \in Block /\ r.par = q.par /\ r.code = Append(q.code, Instr("ref", <<>>, s))
      /\ q.code \in Seq(Instruction)
  BY <1>2, <1>5, AddBlockrefBlock, Zenon DEF Block, AddBlockref
<1> HIDE DEF r
<1>7. x.tail = t /\ x.code = r.code /\ x.par = r.par
  <2> HIDE DEF t
  <2> QED
    BY <1>6, Zenon DEF Block
<1> HIDE DEF x, bs2
<1>8. ParamCount(r) \in Nat /\ ParamCount(x) = ParamCount(r)
  BY <1>6, <1>7, ParamCountNat, Zenon DEF ParamCount
<1>9. LastInstruction(r) = ParamCount(r) + Len(b.code) + 1
      /\ r.code[Len(b.code) + 1].to = f /\ r.code[Len(b.code) + 2].to = s
      /\ Len(b.code) \in Nat
  <2> DEFINE n == Len(b.code)
             g == Instr("ref", <<>>, f)
             k == Instr("ref", <<>>, s)
  <2>1. n \in Nat /\ Len(q.code) = n + 1 /\ q.code[n + 1] = g
    <3>1. q.code = Append(b.code, g)
      BY <1>5
    <3> HIDE DEF g
    <3> QED
      BY <1>5, <3>1
  <2>2. Len(r.code) = n + 2 /\ r.code[n + 2] = k /\ r.code[n + 1] = q.code[n + 1]
    <3>1. r.code = Append(q.code, k)
      BY <1>6
    <3> HIDE DEF k, n
    <3> QED
      BY <1>6, <2>1, <3>1
  <2>3. g.to = f /\ k.to = s
    BY DEF Instr
  <2>4. LastInstruction(r) = ParamCount(r) + n + 1
    <3> HIDE DEF n
    <3> QED
      BY <1>8, <2>1, <2>2 DEF LastInstruction, NextInstruction
  <2> HIDE DEF g, k
  <2> QED
    BY <2>1, <2>2, <2>3, <2>4
<1>10. Ref(x, x.tail.first) = f /\ Ref(x, x.tail.second) = s
  <2>1. x.tail.first = LastInstruction(r) - 1 /\ x.tail.second = LastInstruction(r)
    BY <1>7
  <2>2. /\ x.tail.first - ParamCount(x) + 1 = Len(b.code) + 1
        /\ x.tail.second - ParamCount(x) + 1 = Len(b.code) + 2
    BY <1>8, <1>9, <2>1
  <2> QED
    BY <1>7, <1>9, <2>2 DEF Ref
<1>11. Leads(x) = {f, s}
  <2>1. x.tail.type = "branch"
    BY <1>7
  <2> QED
    BY <1>10, <2>1 DEF Leads
<1>12. x.tail.inject = "ok" => x.tail.live = bs[f].par.live
  <2>1. x.tail.live = i.live /\ x.tail.inject = i.inject
    BY <1>7
  <2> QED
    BY <1>2, <2>1, InjectFits, Zenon DEF b
<1>13. Kin(x, bs[p]) /\ Kin(bs2[f], bs[f]) /\ Kin(bs2[s], bs[f])
  <2>1. Kin(bs2[p], bs[p]) /\ Kin(bs2[f], bs[f]) /\ Kin(bs2[s], bs[s])
    BY <1>3 DEF Keeps
  <2> QED
    BY <1>4, <2>1
<1>14. x.tail.inject = "ok" => Fit(x, bs2[f]) /\ Fit(x, bs2[s])
  BY <1>12, <1>13, FitKin
<1>15. Flow(bs2, p)
  BY <1>3, <1>4, <1>11, <1>14 DEF Flow
<1> QED
  BY <1>15 DEF bs2

-----------------------------------------------------------------------------
(* What the operations on several blocks do.                               *)

\* The block y has the parameters of a child of the blocks ps with the symbols
\* of block c.
Offspring(bs, c, ps, y) ==
  /\ y.par.live = Common(bs, c, ps) /\ y.par.live \subseteq With(y.syms)
  /\ y.par.ret = bs[c].hasRet /\ y.accRet = bs[c].hasRet /\ y.hasRet = bs[c].hasRet
  /\ y.par.extra = 0 /\ y.par.stk = Len(bs[ps[1]].stack)

LEMMA ChildFacts ==
  ASSUME NEW bs \in Seq(Block), NEW c \in DOMAIN bs, NEW ps,
         Blocks(ps) \subseteq DOMAIN bs, 1 \in DOMAIN ps
  PROVE  LET y == ChildBlock(bs, c, ps)
         IN /\ y \in Block /\ y.tail = OpenTail /\ ~y.final
            /\ Offspring(bs, c, ps, y) /\ With(y.syms) = y.par.live
            /\ Names(y.syms) = Names(bs[c].syms)
<1> DEFINE y == ChildBlock(bs, c, ps)
           live == Common(bs, c, ps)
<1>1. y \in Block /\ y.tail = OpenTail /\ ~y.final
  <2>1. ps[1] \in DOMAIN bs
    BY DEF Blocks
  <2> QED
    BY <2>1, ChildBlockBlock
<1>2. Names(y.syms) = Names(bs[c].syms)
  BY ChildNames
<1>3. /\ y.par = [ret |-> bs[c].hasRet, live |-> live, stk |-> Len(bs[ps[1]].stack), extra |-> 0]
      /\ y.accRet = bs[c].hasRet /\ y.hasRet = bs[c].hasRet
      /\ y.syms = [q \in DOMAIN bs[c].syms |->
                     [s |-> bs[c].syms[q].s, ex |-> q \in live,
                      ins |-> IF q \in live THEN Slot(bs[c].hasRet, live, q) ELSE Junk]]
  BY DEF ChildBlock, EmptyBlock
<1>4. live \subseteq DOMAIN bs[c].syms
  BY DEF Common
<1> HIDE DEF y, live
<1>5. With(y.syms) = live
  <2>1. DOMAIN y.syms = DOMAIN bs[c].syms
    BY <1>3
  <2>2. ASSUME NEW q \in DOMAIN y.syms
        PROVE  y.syms[q].ex = (q \in live)
    <3>1. q \in DOMAIN bs[c].syms
      BY <2>1, <2>2
    <3>2. y.syms[q] = [s |-> bs[c].syms[q].s, ex |-> q \in live,
                       ins |-> IF q \in live THEN Slot(bs[c].hasRet, live, q) ELSE Junk]
      BY <1>3, <3>1
    <3> QED
      BY <3>2
  <2> QED
    BY <1>4, <2>1, <2>2, Zenon DEF With
<1>6. Offspring(bs, c, ps, y)
  <2>1. /\ y.par.ret = bs[c].hasRet /\ y.par.live = live
        /\ y.par.stk = Len(bs[ps[1]].stack) /\ y.par.extra = 0
    BY <1>3
  <2>2. live = Common(bs, c, ps)
    BY DEF live
  <2> QED
    BY <1>3, <1>5, <2>1, <2>2, Zenon DEF Offspring
<1> QED
  BY <1>1, <1>2, <1>3, <1>5, <1>6 DEF y

LEMMA OffspringKin ==
  ASSUME NEW bs, NEW c, NEW ps, NEW y, Offspring(bs, c, ps, y), NEW z, Kin(z, y)
  PROVE  Offspring(bs, c, ps, z)
BY DEF Offspring, Kin

LEMMA OffspringHeir ==
  ASSUME NEW bs \in Seq(Block), NEW c \in DOMAIN bs, NEW ps, NEW y, Offspring(bs, c, ps, y),
         NEW S, Blocks(ps) \subseteq S, NEW m \in Nat, m <= Len(bs[c].syms)
  PROVE  Heir(bs, y, S, m)
<1> SUFFICES ASSUME NEW live \in SUBSET (1 .. m), Carried(bs, S, live)
             PROVE  live \subseteq With(y.syms)
  BY DEF Heir
<1>1. \A q \in 1 .. m : q \in DOMAIN bs[c].syms
  <2>1. bs[c].syms \in Seq(Entry)
    <3>1. bs[c] \in Block
      OBVIOUS
    <3> QED
      BY <3>1 DEF Block
  <2>2. DOMAIN bs[c].syms = 1 .. Len(bs[c].syms) /\ Len(bs[c].syms) \in Nat
    BY <2>1
  <2> QED
    BY <2>2
<1>2. \A q \in live : \A i \in DOMAIN ps : q \in DOMAIN bs[ps[i]].syms /\ bs[ps[i]].syms[q].ex
  BY DEF Carried, Blocks, With
<1>3. live \subseteq Common(bs, c, ps)
  BY <1>1, <1>2 DEF Common
<1> QED
  BY <1>3 DEF Offspring

LEMMA OffspringSteady ==
  ASSUME NEW bs \in Seq(Block), NEW c \in DOMAIN bs, NEW ps, NEW y, Offspring(bs, c, ps, y),
         Len(bs[ps[1]].stack) = 0, NEW n \in Nat, Len(bs[c].syms) <= n
  PROVE  Steady(y, n)
<1>1. bs[c].syms \in Seq(Entry)
  <2>1. bs[c] \in Block
    OBVIOUS
  <2> QED
    BY <2>1 DEF Block
<1>2. DOMAIN bs[c].syms = 1 .. Len(bs[c].syms) /\ Len(bs[c].syms) \in Nat
  BY <1>1
<1>3. Common(bs, c, ps) \subseteq DOMAIN bs[c].syms
  BY DEF Common
<1>4. Common(bs, c, ps) \subseteq 1 .. n
  BY <1>2, <1>3
<1> QED
  BY <1>4 DEF Offspring, Steady

\* The parents of a child suit it.
LEMMA ChildSuits ==
  ASSUME NEW bs \in Seq(Block), NEW c \in DOMAIN bs, NEW ps,
         Blocks(ps) \subseteq DOMAIN bs, 1 \in DOMAIN ps, Fitting(bs, c, ps),
         NEW b \in Blocks(ps), bs[c].hasRet => bs[b].hasRet
  PROVE  Suits(bs[b], ChildBlock(bs, c, ps))
<1> DEFINE y == ChildBlock(bs, c, ps)
<1>1. /\ Offspring(bs, c, ps, y) /\ With(y.syms) = y.par.live
      /\ Names(y.syms) = Names(bs[c].syms)
  BY ChildFacts
<1> HIDE DEF y
<1>2. ASSUME NEW q \in y.par.live
      PROVE  q \in With(bs[b].syms) /\ bs[b].syms[q].s = y.syms[q].s
  <2>1. q \in Common(bs, c, ps)
    BY <1>1 DEF Offspring
  <2>2. q \in DOMAIN bs[c].syms /\ q \in With(bs[b].syms) /\ q \in DOMAIN bs[b].syms
    BY <2>1 DEF Common, Blocks, With
  <2>3. /\ Names(bs[c].syms)[q] = bs[c].syms[q].s /\ Names(bs[b].syms)[q] = bs[b].syms[q].s
        /\ DOMAIN Names(y.syms) = DOMAIN y.syms
    BY <2>2 DEF Names
  <2>4. q \in DOMAIN y.syms /\ Names(y.syms)[q] = y.syms[q].s
    BY <1>1, <2>2 DEF Names
  <2>5. Names(bs[c].syms)[q] = Names(bs[b].syms)[q]
    <3>1. Begins(Lists(bs)[c], Lists(bs)[b])
      BY DEF Fitting
    <3>2. b \in DOMAIN bs
      OBVIOUS
    <3>3. /\ Lists(bs)[c] = Names(bs[c].syms) /\ Lists(bs)[b] = Names(bs[b].syms)
          /\ Names(bs[c].syms) \in Seq(Nat) /\ DOMAIN Names(bs[c].syms) = DOMAIN bs[c].syms
      BY <3>2, ListsType
    <3>4. q \in 1 .. Len(Names(bs[c].syms))
      BY <2>2, <3>3
    <3> QED
      BY <3>1, <3>3, <3>4 DEF Begins
  <2> QED
    BY <1>1, <2>2, <2>3, <2>4, <2>5
<1> QED
  BY <1>1, <1>2 DEF Suits, Offspring, y

\* From bs to bs2 the blocks of S get tails that fit, and n are new.
Joins(bs, bs2, S, n, u) ==
  /\ S \subseteq DOMAIN bs /\ n \in Nat
  /\ Effect(bs, bs2, S, n) /\ Keeps(bs, bs2) /\ Grown(bs, bs2, u)
  /\ \A b \in S : Flow(bs2, b)

\* A child's values and its return struct.
LEMMA OffspringFresh ==
  ASSUME NEW bs, NEW c \in DOMAIN bs, NEW ps, NEW y, Offspring(bs, c, ps, y), NEW u, Sound(bs, u)
  PROVE  y.par.live \subseteq With(y.syms) /\ (y.hasRet \/ y.par.ret => u # "top")
BY DEF Offspring, Sound

\* The blocks ps have the return struct if block c has.
Backs(bs, c, ps) == \A b \in Blocks(ps) : bs[c].hasRet => bs[b].hasRet

LEMMA TangleJoins ==
  ASSUME NEW bs \in Seq(Block), NEW c \in DOMAIN bs, NEW ps,
         Blocks(ps) \subseteq DOMAIN bs, 1 \in DOMAIN ps, Fitting(bs, c, ps), Backs(bs, c, ps),
         NEW u, Sound(bs, u)
  PROVE  LET bs2 == TangleBlocks(bs, c, ps)
             d == Len(bs) + 1
         IN /\ Joins(bs, bs2, Blocks(ps), 1, u) /\ Offspring(bs, c, ps, bs2[d])
            /\ d \in DOMAIN bs2 /\ d \notin DOMAIN bs /\ Lists(bs2)[d] = Lists(bs)[c]
<1> DEFINE x == ChildBlock(bs, c, ps)
           bs1 == Append(bs, x)
           d == Len(bs) + 1
           bs2 == TangleBlocks(bs, c, ps)
<1>1. x \in Block /\ Offspring(bs, c, ps, x)
  BY ChildFacts
<1>2. \A b \in Blocks(ps) : Suits(bs[b], x)
  BY ChildSuits DEF Backs
<1>3. Keeps(bs, bs2) /\ Len(bs2) = d /\ d \in DOMAIN bs2 /\ d \notin DOMAIN bs
      /\ Lists(bs2)[d] = Lists(bs)[c]
  BY TangleKeeps
<1>4. Effect(bs, bs2, Blocks(ps), 1)
  BY TangleEffect
<1>5. bs2 = JoinBlocks(bs1, Blocks(ps), d)
  BY DEF TangleBlocks
<1> HIDE DEF x
<1>6. /\ bs1 \in Seq(Block) /\ bs1[d] = x /\ \A b \in DOMAIN bs : bs1[b] = bs[b] /\ b \in DOMAIN bs1
      /\ d \in DOMAIN bs1
  BY <1>1
<1> HIDE DEF bs1, d, bs2
<1>7. bs2[d] = x
  <2>1. d \notin Blocks(ps)
    BY <1>3
  <2> QED
    BY <1>5, <1>6, <2>1 DEF JoinBlocks
<1>8. \A b \in Blocks(ps) : Flow(bs2, b)
  BY <1>2, <1>5, <1>6, JoinFlow
<1>9. Fresher(bs, bs2, u)
  <2>1. x.par.live \subseteq With(x.syms) /\ (x.hasRet \/ x.par.ret => u # "top")
    BY <1>1, OffspringFresh
  <2>2. \A b \in DOMAIN bs2 \ DOMAIN bs : b = d
    BY <1>3 DEF d, Keeps
  <2> QED
    BY <1>7, <2>1, <2>2 DEF Fresher
<1>10. Grown(bs, bs2, u)
  BY <1>3, <1>9, KeepsGrown
<1>11. Joins(bs, bs2, Blocks(ps), 1, u)
  BY <1>3, <1>4, <1>8, <1>10 DEF Joins
<1> QED
  BY <1>1, <1>3, <1>7, <1>11 DEF bs2, d

LEMMA BranchIntoJoins ==
  ASSUME NEW bs \in Seq(Block), NEW p \in DOMAIN bs, NEW u, Sound(bs, u)
  PROVE  LET bs2 == BranchInto(bs, p)
             d == Len(bs) + 1
             e == Len(bs) + 2
         IN /\ Joins(bs, bs2, {p}, 2, u)
            /\ Offspring(bs, p, <<p>>, bs2[d]) /\ Offspring(bs, p, <<p>>, bs2[e])
            /\ d \in DOMAIN bs2 /\ e \in DOMAIN bs2 /\ d \notin DOMAIN bs /\ e \notin DOMAIN bs
            /\ Lists(bs2)[d] = Lists(bs)[p] /\ Lists(bs2)[e] = Lists(bs)[p]
<1> DEFINE x == ChildBlock(bs, p, <<p>>)
           bs1 == Pair(bs, p, <<p>>)
           d == Len(bs) + 1
           e == Len(bs) + 2
           bs2 == BranchInto(bs, p)
<1>1. Fitting(bs, p, <<p>>) /\ Blocks(<<p>>) = {p} /\ 1 \in DOMAIN <<p>>
  BY FittingSelf
<1>2. x \in Block /\ Offspring(bs, p, <<p>>, x)
  BY <1>1, ChildFacts
<1>3. Suits(bs[p], x)
  BY <1>1, ChildSuits
<1>4. /\ Keeps(bs, bs2) /\ Len(bs2) = e
      /\ d \in DOMAIN bs2 /\ e \in DOMAIN bs2 /\ d \notin DOMAIN bs /\ e \notin DOMAIN bs
      /\ Lists(bs2)[d] = Lists(bs)[p] /\ Lists(bs2)[e] = Lists(bs)[p]
  BY BranchIntoKeeps
<1>5. Effect(bs, bs2, {p}, 2)
  BY BranchIntoEffect
<1>6. bs2 = BranchBlock(bs1, p, d, e)
  BY DEF BranchInto, Pair
<1>7. /\ bs1 \in Seq(Block) /\ bs1[d] = x /\ bs1[e] = x /\ d \in DOMAIN bs1 /\ e \in DOMAIN bs1
      /\ \A b \in DOMAIN bs : bs1[b] = bs[b] /\ b \in DOMAIN bs1
  <2>1. bs1 = bs \o <<x, x>>
    BY DEF Pair
  <2> HIDE DEF x, bs1
  <2> QED
    BY <1>2, <2>1
<1> HIDE DEF x, bs1, bs2
<1>8. bs2[d] = x /\ bs2[e] = x
  <2>1. d # p /\ e # p
    BY <1>4
  <2> QED
    BY <1>6, <1>7, <2>1 DEF BranchBlock
<1>9. Flow(bs2, p)
  <2>1. p \in DOMAIN bs1 /\ bs1[p] = bs[p] /\ bs1[e] = bs1[d]
    BY <1>7
  <2>2. Suits(bs1[p], bs1[d])
    BY <1>3, <1>7
  <2> HIDE DEF d, e
  <2> QED
    BY <1>6, <1>7, <2>1, <2>2, BranchFlow
<1>10. Fresher(bs, bs2, u)
  <2>1. x.par.live \subseteq With(x.syms) /\ (x.hasRet \/ x.par.ret => u # "top")
    BY <1>2, OffspringFresh
  <2>2. \A b \in DOMAIN bs2 \ DOMAIN bs : b = d \/ b = e
    <3>1. bs2 \in Seq(Block) /\ Len(bs) \in Nat /\ DOMAIN bs2 = 1 .. Len(bs2) /\ DOMAIN bs = 1 .. Len(bs)
      BY <1>4 DEF Keeps
    <3> QED
      BY <1>4, <3>1 DEF d, e
  <2> QED
    BY <1>8, <2>1, <2>2 DEF Fresher
<1>11. Grown(bs, bs2, u)
  BY <1>4, <1>10, KeepsGrown
<1>12. Joins(bs, bs2, {p}, 2, u)
  BY <1>4, <1>5, <1>9, <1>11 DEF Joins
<1> QED
  BY <1>2, <1>4, <1>8, <1>12 DEF bs2, d, e

\* A tail that is there stays, and fits what it led to.
LEMMA FitAfter ==
  ASSUME NEW x, NEW y, NEW z, Kin(z, y), Fit(x, y)
  PROVE  Fit(x, z)
<1>1. z.par = y.par /\ Names(z.syms) = Names(y.syms)
  BY DEF Kin
<1>2. ASSUME NEW q \in DOMAIN y.syms
      PROVE  q \in DOMAIN z.syms /\ z.syms[q].s = y.syms[q].s
  <2>1. DOMAIN z.syms = DOMAIN y.syms
    BY <1>1 DEF Names
  <2>2. Names(z.syms)[q] = z.syms[q].s /\ Names(y.syms)[q] = y.syms[q].s
    BY <2>1 DEF Names
  <2> QED
    BY <1>1, <2>1, <2>2
<1> QED
  BY <1>1, <1>2 DEF Fit

LEMMA FlowKeeps ==
  ASSUME NEW bs \in Seq(Block), NEW bs2, Keeps(bs, bs2), NEW b, bs2[b] = bs[b], Flow(bs, b)
  PROVE  Flow(bs2, b)
<1> SUFFICES ASSUME NEW d \in Leads(bs[b])
             PROVE  d \in DOMAIN bs2 /\ (bs[b].tail.inject = "ok" => Fit(bs[b], bs2[d]))
  BY DEF Flow
<1>1. d \in DOMAIN bs /\ (bs[b].tail.inject = "ok" => Fit(bs[b], bs[d]))
  BY DEF Flow
<1>2. d \in DOMAIN bs2
  <2>1. d \in DOMAIN bs /\ bs2 \in Seq(Block) /\ Len(bs) <= Len(bs2)
    BY <1>1 DEF Keeps
  <2> QED
    BY <2>1
<1>3. Kin(bs2[d], bs[d])
  BY <1>1 DEF Keeps
<1> QED
  BY <1>1, <1>2, <1>3, FitAfter

LEMMA WeaveJoins ==
  ASSUME NEW bs \in Seq(Block), NEW c \in DOMAIN bs, NEW p \in DOMAIN bs,
         NEW brk \in Seq(DOMAIN bs), p \notin Blocks(brk),
         Fitting(bs, c, <<p>> \o brk), Backs(bs, c, <<p>> \o brk), NEW u, Sound(bs, u)
  PROVE  LET bs2 == WeaveBlocks(bs, c, brk, p)
             d == Len(bs) + 1
             e == Len(bs) + 2
             ps == <<p>> \o brk
         IN /\ Joins(bs, bs2, {p} \cup Blocks(brk), 2, u) /\ Blocks(ps) = {p} \cup Blocks(brk)
            /\ Offspring(bs, c, ps, bs2[d]) /\ Offspring(bs, c, ps, bs2[e])
            /\ d \in DOMAIN bs2 /\ e \in DOMAIN bs2 /\ d \notin DOMAIN bs /\ e \notin DOMAIN bs
            /\ Lists(bs2)[d] = Lists(bs)[c] /\ Lists(bs2)[e] = Lists(bs)[c]
<1> DEFINE ps == <<p>> \o brk
           x == ChildBlock(bs, c, ps)
           bs1 == Pair(bs, c, ps)
           d == Len(bs) + 1
           e == Len(bs) + 2
           S == Blocks(brk)
           bsj == JoinBlocks(bs1, S, e)
           bs2 == WeaveBlocks(bs, c, brk, p)
<1>1. /\ 1 \in DOMAIN ps /\ Blocks(ps) \subseteq DOMAIN bs
      /\ \A b : b \in Blocks(ps) <=> b = p \/ b \in S
  <2>1. ps \in Seq(DOMAIN bs) /\ 1 \in DOMAIN ps /\ ps # <<>>
    BY Prepend
  <2>2. \A b : b \in Blocks(ps) <=> b = p \/ b \in S
    BY Prepend
  <2>3. Blocks(ps) \subseteq DOMAIN bs
    BY <2>1, ListFacts, Zenon
  <2> QED
    BY <2>1, <2>2, <2>3
<1>2. x \in Block /\ Offspring(bs, c, ps, x)
  BY <1>1, ChildFacts, Zenon
<1>3. \A b \in Blocks(ps) : Suits(bs[b], x)
  BY <1>1, ChildSuits, Zenon DEF Backs
<1>4. /\ Keeps(bs, bs2) /\ Len(bs2) = e
      /\ d \in DOMAIN bs2 /\ e \in DOMAIN bs2 /\ d \notin DOMAIN bs /\ e \notin DOMAIN bs
      /\ Lists(bs2)[d] = Lists(bs)[c] /\ Lists(bs2)[e] = Lists(bs)[c]
  BY WeaveKeeps
<1>5. Effect(bs, bs2, {p} \cup S, 2)
  <2>1. {p} \cup S = S \cup {p}
    OBVIOUS
  <2> QED
    BY <2>1, WeaveEffect, Zenon
<1>6. bs2 = BranchBlock(bsj, p, d, e)
  BY DEF WeaveBlocks, Pair
<1>7. /\ bs1 \in Seq(Block) /\ bs1[d] = x /\ bs1[e] = x /\ d \in DOMAIN bs1 /\ e \in DOMAIN bs1
      /\ \A b \in DOMAIN bs : bs1[b] = bs[b] /\ b \in DOMAIN bs1
  <2>1. bs1 = bs \o <<x, x>>
    BY DEF Pair
  <2> HIDE DEF x, bs1, ps
  <2> QED
    BY <1>2, <2>1
<1>8. S \subseteq DOMAIN bs /\ S \subseteq DOMAIN bs1 /\ d \notin S /\ e \notin S /\ d # p /\ e # p
  <2>1. S \subseteq DOMAIN bs
    BY <1>1
  <2> QED
    BY <1>4, <1>7, <2>1
<1> HIDE DEF x, bs1, bs2, ps, d, e, S, bsj
<1>9. /\ Keeps(bs1, bsj) /\ bsj \in Seq(Block) /\ DOMAIN bsj = DOMAIN bs1
  <2>1. Keeps(bs1, bsj) /\ Len(bsj) = Len(bs1)
    BY <1>7, <1>8, JoinKeeps DEF bsj
  <2> QED
    BY <1>7, <2>1 DEF Keeps
<1>10. bsj[d] = x /\ bsj[e] = x /\ bsj[p] = bs[p]
  <2>1. p \notin S /\ bs1[p] = bs[p] /\ p \in DOMAIN bs1
    BY <1>7 DEF S
  <2> QED
    BY <1>7, <1>8, <2>1 DEF JoinBlocks, bsj
<1>11. /\ Keeps(bsj, bs2) /\ Flow(bs2, p)
  <2>1. /\ p \in DOMAIN bsj /\ d \in DOMAIN bsj /\ e \in DOMAIN bsj /\ bsj[e] = bsj[d]
        /\ Suits(bsj[p], bsj[d])
    BY <1>1, <1>3, <1>7, <1>9, <1>10, Zenon
  <2>2. Keeps(bsj, bs2)
    BY <1>6, <1>9, <2>1, BranchKeeps
  <2> QED
    BY <1>6, <1>9, <2>1, <2>2, BranchFlow
<1>12. \A b \in DOMAIN bsj : b # p => bs2[b] = bsj[b]
  BY <1>6 DEF BranchBlock
<1>13. \A b \in S : Flow(bs2, b)
  <2> TAKE b \in S
  <2>1. Suits(bs1[b], bs1[e])
    BY <1>1, <1>3, <1>7, <1>8
  <2>2. Flow(bsj, b)
    BY <1>7, <1>8, <2>1, JoinFlow DEF bsj
  <2>3. b # p /\ b \in DOMAIN bsj
    BY <1>8, <1>9 DEF S
  <2> QED
    BY <1>9, <1>11, <1>12, <2>2, <2>3, FlowKeeps, Zenon
<1>14. bs2[d] = x /\ bs2[e] = x
  BY <1>7, <1>8, <1>9, <1>10, <1>12
<1>15. Fresher(bs, bs2, u)
  <2>1. x.par.live \subseteq With(x.syms) /\ (x.hasRet \/ x.par.ret => u # "top")
    BY <1>2, OffspringFresh
  <2>2. \A b \in DOMAIN bs2 \ DOMAIN bs : b = d \/ b = e
    <3>1. bs2 \in Seq(Block) /\ Len(bs) \in Nat /\ DOMAIN bs2 = 1 .. Len(bs2) /\ DOMAIN bs = 1 .. Len(bs)
      BY <1>4 DEF Keeps
    <3> QED
      BY <1>4, <3>1 DEF d, e
  <2> QED
    BY <1>14, <2>1, <2>2, Zenon DEF Fresher
<1>16. Grown(bs, bs2, u)
  BY <1>4, <1>15, KeepsGrown
<1>17. Joins(bs, bs2, {p} \cup S, 2, u)
  <2>1. {p} \cup S \subseteq DOMAIN bs
    BY <1>8
  <2> QED
    BY <1>4, <1>5, <1>11, <1>13, <1>16, <2>1 DEF Joins
<1> QED
  BY <1>1, <1>2, <1>4, <1>14, <1>17, Zenon DEF bs2, d, e, ps, S

-----------------------------------------------------------------------------
(* Steps that join blocks.                                                 *)

LEMMA JoinsFed ==
  ASSUME NEW h, Before(h), NEW u, Fed(blocks, cur, frames, u),
         NEW bs2, NEW S, NEW n, Joins(blocks, bs2, S, n, u), \A b \in S : Open(blocks, b),
         NEW k, NEW c2, NEW fs2, Passes(blocks, cur, frames, scope, k, bs2, c2, fs2, u)
  PROVE  Fed(bs2, c2, fs2, u)
<1>1. blocks \in Seq(Block)
  BY BeforeFacts
<1>2. S \in SUBSET DOMAIN blocks /\ n \in Nat /\ Effect(blocks, bs2, S, n)
      /\ \A b \in S : Open(blocks, b) /\ Flow(bs2, b)
  BY DEF Joins
<1>3. /\ \A b \in DOMAIN blocks : ~Open(blocks, b) => bs2[b] = blocks[b]
      /\ \A b \in DOMAIN bs2 : (b \in DOMAIN blocks => Open(blocks, b)) => Flow(bs2, b)
  BY <1>1, <1>2, EffectFlows, Zenon
<1> QED
  BY <1>3, FedMove

\* What the steps above the topmost call may start from.
LEMMA TopOpen ==
  ASSUME NEW h, Before(h), frames # <<>>
  PROVE  /\ \A b \in Only(cur) \cup Pending(top) : Open(blocks, b) /\ b \in DOMAIN blocks
         /\ Rests(top) \subseteq Pending(top)
<1>1. Ready(blocks, cur, frames, at, h) /\ frames \in Seq(Frames) /\ top = frames[Len(frames)]
  BY BeforeFacts DEF Before
<1>2. /\ Top(cur, top) \subseteq DOMAIN blocks
      /\ \A b \in Top(cur, top) : Open(blocks, b)
  BY <1>1, TopReady
<1> QED
  BY <1>2 DEF Top, Rests

\* What the topmost call's blocks have goes to g, which goes on in block c2.
Takes(bs2, c2, g, u) ==
  /\ \A b \in Only(c2) \cup Rests(g) :
       Heir(blocks, bs2[b], Only(cur) \cup Rests(top), Len(top.scope))
  /\ \A d \in Loops(g) :
       \/ d \in Loops(top) /\ g.scope = top.scope
       \/ /\ Steady(bs2[d], Len(g.scope))
          /\ Carried(bs2, Only(c2) \cup Rests(g), bs2[d].par.live)
  /\ u # "top" => \A b \in Only(c2) \cup Refers(g) :
       b \in Only(cur) \cup Refers(top) \/ bs2[b].hasRet

LEMMA SwapFed ==
  ASSUME NEW h, Before(h), NEW u, Fed(blocks, cur, frames, u), frames # <<>>,
         NEW bs2, NEW S, NEW n, Joins(blocks, bs2, S, n, u), S \subseteq Top(cur, top),
         NEW c2, NEW g \in Frames, Takes(bs2, c2, g, u)
  PROVE  Fed(bs2, c2, Append(Below, g), u)
<1> DEFINE k == Len(frames) - 1
           fs2 == Append(Below, g)
<1>1. frames \in Seq(Frames) /\ top = frames[Len(frames)] /\ Below = SubSeq(frames, 1, k)
  BY BeforeFacts DEF Below
<1>2. /\ Len(frames) = k + 1 /\ frames[k + 1] = top
      /\ Up(frames, scope, k) = top.scope
      /\ Sources(cur, frames, k) = Only(cur) \cup Rests(top)
      /\ Named(cur, frames, k) = Only(cur) \cup Refers(top)
  BY <1>1, TopAbove, Zenon
<1>3. /\ Above(frames, k, fs2) /\ Len(fs2) = k + 1 /\ fs2[k + 1] = g
      /\ Sources(c2, fs2, k) = Only(c2) \cup Rests(g)
      /\ Named(c2, fs2, k) = Only(c2) \cup Refers(g)
  BY <1>1, SwapAbove
<1>4. Grown(blocks, bs2, u)
  BY DEF Joins
<1>5. \A b \in S : Open(blocks, b)
  BY TopOpen DEF Top
<1> HIDE DEF k, fs2
<1>6. Passes(blocks, cur, frames, scope, k, bs2, c2, fs2, u)
  BY <1>2, <1>3, <1>4, Zenon DEF Passes, Takes
<1> QED
  BY <1>5, <1>6, JoinsFed DEF fs2

LEMMA LeaveFed ==
  ASSUME NEW h, Before(h), NEW u, Fed(blocks, cur, frames, u), frames # <<>>,
         NEW bs2, NEW S, NEW n, Joins(blocks, bs2, S, n, u), S \subseteq Top(cur, top),
         NEW c2,
         \A b \in Only(c2) : Heir(blocks, bs2[b], Only(cur) \cup Rests(top), Len(top.scope)),
         u # "top" => \A b \in Only(c2) : b \in Only(cur) \cup Refers(top) \/ bs2[b].hasRet
  PROVE  Fed(bs2, c2, Below, u)
<1> DEFINE k == Len(frames) - 1
           fs2 == Below
<1>1. frames \in Seq(Frames) /\ top = frames[Len(frames)] /\ fs2 = SubSeq(frames, 1, k)
  BY BeforeFacts DEF Below
<1>2. /\ Len(frames) = k + 1 /\ frames[k + 1] = top
      /\ Up(frames, scope, k) = top.scope
      /\ Sources(cur, frames, k) = Only(cur) \cup Rests(top)
      /\ Named(cur, frames, k) = Only(cur) \cup Refers(top)
  BY <1>1, TopAbove, Zenon
<1>3. /\ Above(frames, k, fs2) /\ Len(fs2) # k + 1
      /\ Sources(c2, fs2, k) = Only(c2) /\ Named(c2, fs2, k) = Only(c2)
  BY <1>1, LeaveAbove
<1>4. Grown(blocks, bs2, u)
  BY DEF Joins
<1>5. \A b \in S : Open(blocks, b)
  BY TopOpen DEF Top
<1> HIDE DEF k, fs2
<1>6. Passes(blocks, cur, frames, scope, k, bs2, c2, fs2, u)
  BY <1>2, <1>3, <1>4, Zenon DEF Passes
<1> QED
  BY <1>5, <1>6, JoinsFed DEF fs2

LEMMA EnterFed ==
  ASSUME NEW h, Before(h), NEW u, Fed(blocks, cur, frames, u), cur # NoBlock,
         NEW bs2, NEW n, Joins(blocks, bs2, {cur}, n, u),
         NEW c2, NEW g \in Frames,
         \A b \in Only(c2) \cup Rests(g) : Heir(blocks, bs2[b], {cur}, Len(scope)),
         \A d \in Loops(g) : /\ Steady(bs2[d], Len(g.scope))
                             /\ Carried(bs2, Only(c2) \cup Rests(g), bs2[d].par.live),
         u # "top" => \A b \in Only(c2) \cup Refers(g) : b = cur \/ bs2[b].hasRet
  PROVE  Fed(bs2, c2, Append(frames, g), u)
<1> DEFINE k == Len(frames)
           fs2 == Append(frames, g)
<1>1. frames \in Seq(Frames) /\ Only(cur) = {cur}
  BY BeforeFacts DEF Only
<1>2. /\ Above(frames, k, fs2) /\ Len(fs2) = k + 1 /\ Len(frames) # k + 1
      /\ fs2[k + 1] = g /\ Up(frames, scope, k) = scope
      /\ Sources(cur, frames, k) = Only(cur) /\ Named(cur, frames, k) = Only(cur)
      /\ Sources(c2, fs2, k) = Only(c2) \cup Rests(g)
      /\ Named(c2, fs2, k) = Only(c2) \cup Refers(g)
  <2>1. /\ Above(frames, k, fs2) /\ Len(fs2) = k + 1 /\ Len(frames) # k + 1
        /\ fs2[k + 1] = g /\ Up(frames, scope, k) = scope
        /\ Sources(cur, frames, k) = Only(cur) /\ Named(cur, frames, k) = Only(cur)
    BY <1>1, EnterAbove
  <2>2. /\ Sources(c2, fs2, k) = Only(c2) \cup Rests(g)
        /\ Named(c2, fs2, k) = Only(c2) \cup Refers(g)
    BY <1>1, EnterAbove
  <2> QED
    BY <2>1, <2>2
<1>3. Grown(blocks, bs2, u)
  BY DEF Joins
<1>4. \A b \in {cur} : Open(blocks, b)
  <2>1. Ready(blocks, cur, frames, at, h)
    BY DEF Before
  <2> QED
    BY <1>1, <2>1, CurReady
<1> HIDE DEF k, fs2
<1>5. Passes(blocks, cur, frames, scope, k, bs2, c2, fs2, u)
  BY <1>1, <1>2, <1>3, Zenon DEF Passes
<1> QED
  BY <1>4, <1>5, JoinsFed DEF fs2

\* What a step leads to from what led to it.
LEMMA HeirBack ==
  ASSUME NEW bs, NEW bs1, NEW u, Grown(bs, bs1, u), NEW S, S \subseteq DOMAIN bs,
         NEW y, NEW m, Heir(bs1, y, S, m)
  PROVE  Heir(bs, y, S, m)
<1> SUFFICES ASSUME NEW live \in SUBSET (1 .. m), Carried(bs, S, live)
             PROVE  live \subseteq With(y.syms)
  BY DEF Heir
<1>1. Carried(bs1, S, live)
  BY DEF Carried, Grown
<1> QED
  BY <1>1 DEF Heir

LEMMA HeirMore ==
  ASSUME NEW bs, NEW y, NEW S, NEW T, S \subseteq T, NEW m, Heir(bs, y, S, m)
  PROVE  Heir(bs, y, T, m)
BY DEF Heir, Carried

\* In a function every block that is in use has the return struct, elsewhere none.
LEMMA Backed ==
  ASSUME NEW bs, NEW c, NEW fs, NEW u, Sound(bs, u), Returning(bs, c, fs, u),
         NEW x \in DOMAIN bs, NEW b,
         (b = c /\ c # NoBlock) \/ \E i \in DOMAIN fs : b \in Refers(fs[i])
  PROVE  (bs[x].hasRet => bs[b].hasRet) /\ (u # "top" => bs[b].hasRet)
BY DEF Sound, Returning

\* The block being filled has the names in scope; between statements nothing is
\* on its stack.
LEMMA CurrentLength ==
  ASSUME NEW h, Before(h), cur # NoBlock
  PROVE  /\ Len(scope) <= Len(blocks[cur].syms) /\ Len(scope) \in Nat
         /\ Len(blocks[cur].syms) \in Nat
         /\ Lists(blocks)[cur] = scope => Len(blocks[cur].syms) = Len(scope)
         /\ at \in Between => /\ Lists(blocks)[cur] = scope
                              /\ Len(blocks[cur].stack) = 0
<1>1. /\ blocks \in Seq(Block) /\ cur \in DOMAIN blocks /\ scope \in Seq(Nat)
      /\ frames \in Seq(Frames) /\ Settled(Lists(blocks), cur, frames, scope, at)
  BY BeforeFacts
<1>2. Begins(scope, Lists(blocks)[cur]) /\ (at \in Between => Lists(blocks)[cur] = scope)
  <2> DEFINE nm == Lists(blocks)
  <2>1. frames \in Seq(Frames) /\ Settled(nm, cur, frames, scope, at)
    BY <1>1
  <2> HIDE DEF nm
  <2>2. /\ cur # NoBlock => Begins(scope, nm[cur])
        /\ cur # NoBlock /\ at \in Between => nm[cur] = scope
    BY ONLY <2>1, CurrentList
  <2> QED
    BY <2>2 DEF nm
<1>3. Lists(blocks)[cur] = Names(blocks[cur].syms)
      /\ Len(Names(blocks[cur].syms)) = Len(blocks[cur].syms)
  BY <1>1, ListsType
<1>4. at \in Between => Len(blocks[cur].stack) = 0
  <2>1. Ready(blocks, cur, frames, at, h)
    BY DEF Before
  <2>2. Len(blocks[cur].stack) = h[Len(frames)]
    BY <2>1, CurReady
  <2>3. Len(frames) \in 0 .. Len(frames)
    BY <1>1
  <2> QED
    BY <2>1, <2>2, <2>3 DEF Ready
<1>5. Len(blocks[cur].syms) \in Nat
  <2>1. blocks[cur] \in Block
    BY <1>1
  <2>2. blocks[cur].syms \in Seq(Entry)
    BY <2>1 DEF Block
  <2> QED
    BY <2>2
<1> QED
  BY <1>1, <1>2, <1>3, <1>4, <1>5 DEF Begins

LEMMA ForkFed ==
  ASSUME NEW h, Before(h), NEW u, Fed(blocks, cur, frames, u), at \in Between, cur # NoBlock,
         NEW d, d = Len(blocks) + 1, NEW g \in Frames, g.scope = scope,
         \/ g.k = "block" /\ g.ctx = cur
         \/ g.k = "while" /\ g.oth = d
         \/ /\ g.k = "do" /\ g.par = cur /\ g.oth = d /\ g.ctx = d /\ g.prev = d
            /\ g.brk = <<>> /\ g.cont = <<>>
  PROVE  Fed(ForkBlock(blocks, cur), d, Append(frames, g), u)
<1> DEFINE bs2 == ForkBlock(blocks, cur)
           y == bs2[d]
<1>1. blocks \in Seq(Block) /\ cur \in DOMAIN blocks
  BY BeforeFacts
<1>2. Sound(blocks, u) /\ Returning(blocks, cur, frames, u)
  BY DEF Fed
<1>3. Fitting(blocks, cur, <<cur>>) /\ Blocks(<<cur>>) = {cur} /\ 1 \in DOMAIN <<cur>>
  BY <1>1, FittingSelf
<1>4. Backs(blocks, cur, <<cur>>)
  BY <1>3 DEF Backs
<1>5. Joins(blocks, bs2, {cur}, 1, u) /\ Offspring(blocks, cur, <<cur>>, y)
  <2> DEFINE ps == <<cur>>
  <2>1. bs2 = TangleBlocks(blocks, cur, ps)
    BY DEF ForkBlock
  <2>2. /\ Fitting(blocks, cur, ps) /\ Blocks(ps) = {cur} /\ 1 \in DOMAIN ps
        /\ Backs(blocks, cur, ps) /\ Blocks(ps) \subseteq DOMAIN blocks
    BY <1>1, <1>3, <1>4
  <2> HIDE DEF ps, bs2
  <2>3. Joins(blocks, bs2, Blocks(ps), 1, u) /\ Offspring(blocks, cur, ps, bs2[Len(blocks) + 1])
    BY <1>1, <1>2, <2>1, <2>2, TangleJoins, Zenon
  <2> QED
    BY <2>2, <2>3, Zenon DEF ps
<1>6. /\ Len(scope) = Len(blocks[cur].syms) /\ Len(scope) \in Nat /\ Len(blocks[cur].stack) = 0
  BY CurrentLength
<1> HIDE DEF bs2
<1>7. Rests(g) = {} /\ Refers(g) \subseteq {cur, d} /\ Loops(g) \subseteq {d} /\ Only(d) \subseteq {d}
  BY PendingIs DEF Rests, Refers, Fixed, Own, Loops, Only, Blocks
<1>8. Heir(blocks, y, {cur}, Len(scope))
  <2>1. Len(scope) <= Len(blocks[cur].syms) /\ Blocks(<<cur>>) \subseteq {cur}
    BY <1>3, <1>6
  <2> QED
    BY <1>1, <1>5, <1>6, <2>1, OffspringHeir, Zenon
<1>9. Steady(y, Len(scope))
  <2>1. <<cur>>[1] = cur /\ Len(blocks[cur].syms) <= Len(scope)
    BY <1>6
  <2> QED
    BY <1>1, <1>5, <1>6, <2>1, OffspringSteady
<1>10. y.par.live \subseteq With(y.syms) /\ y.hasRet = blocks[cur].hasRet
  BY <1>5 DEF Offspring
<1>11. u # "top" => y.hasRet
  BY <1>10 DEF Fed, Returning
<1>12. \A b \in Only(d) \cup Rests(g) : Heir(blocks, bs2[b], {cur}, Len(scope))
  BY <1>7, <1>8
<1>13. \A b \in Loops(g) : /\ Steady(bs2[b], Len(g.scope))
                           /\ Carried(bs2, Only(d) \cup Rests(g), bs2[b].par.live)
  BY <1>7, <1>9, <1>10 DEF Carried
<1>14. u # "top" => \A b \in Only(d) \cup Refers(g) : b = cur \/ bs2[b].hasRet
  BY <1>7, <1>11
<1> QED
  BY <1>5, <1>12, <1>13, <1>14, EnterFed, Zenon DEF bs2

LEMMA ForksFeed ==
  ASSUME NEW h, Before(h), Fed(blocks, cur, frames, unit), Nested \/ While \/ DoWhile
  PROVE  Feeds
<1> DEFINE d == Len(blocks) + 1
<1>1. at \in Between /\ cur # NoBlock
  BY DEF Nested, While, DoWhile, Statement, Between
<1>2. cur \in Nat /\ d \in Nat
  BY BeforeFacts
<1>3. \A k \in FrameKinds : Frame(k) \in Frames /\ Frame(k).k = k /\ Frame(k).scope = scope
  BY FrameScope
<1>4. \A k \in FrameKinds : Frame(k).brk = <<>> /\ Frame(k).cont = <<>>
  BY DEF Frame
<1>5. CASE Nested
  <2> DEFINE F == Frame("block")
             g == [F EXCEPT !.ctx = cur]
  <2>1. F \in Frames /\ F.k = "block" /\ F.scope = scope
    BY <1>3 DEF FrameKinds
  <2>2. blocks' = ForkBlock(blocks, cur) /\ cur' = d /\ frames' = Append(frames, g)
    BY <1>5 DEF Nested, Produce, Enter
  <2> HIDE DEF F, d
  <2>3. g \in Frames /\ g.scope = scope /\ g.k = "block" /\ g.ctx = cur
    BY <1>2, <2>1, Zenon DEF Frames
  <2> HIDE DEF g
  <2> QED
    BY <1>1, <2>2, <2>3, ForkFed, FedFeeds DEF d
<1>6. CASE While
  <2> DEFINE F == Frame("while")
             g == [F EXCEPT !.oth = d]
  <2>1. F \in Frames /\ F.k = "while" /\ F.scope = scope
    BY <1>3 DEF FrameKinds
  <2>2. blocks' = ForkBlock(blocks, cur) /\ cur' = d /\ frames' = Append(frames, g)
    BY <1>6 DEF While, Produce, Enter
  <2> HIDE DEF F, d
  <2>3. g \in Frames /\ g.scope = scope /\ g.k = "while" /\ g.oth = d
    BY <1>2, <2>1, Zenon DEF Frames
  <2> HIDE DEF g
  <2> QED
    BY <1>1, <2>2, <2>3, ForkFed, FedFeeds DEF d
<1>7. CASE DoWhile
  <2> DEFINE F == Frame("do")
             g == [F EXCEPT !.par = cur, !.oth = d, !.ctx = d, !.prev = d]
  <2>1. F \in Frames /\ F.k = "do" /\ F.scope = scope /\ F.brk = <<>> /\ F.cont = <<>>
    BY <1>3, <1>4 DEF FrameKinds
  <2>2. blocks' = ForkBlock(blocks, cur) /\ cur' = d /\ frames' = Append(frames, g)
    BY <1>7 DEF DoWhile, Produce, Enter
  <2> HIDE DEF F, d
  <2>3. /\ g \in Frames /\ g.scope = scope /\ g.k = "do" /\ g.par = cur /\ g.oth = d
        /\ g.ctx = d /\ g.prev = d /\ g.brk = <<>> /\ g.cont = <<>>
    BY <1>2, <2>1, Zenon DEF Frames
  <2> HIDE DEF g
  <2> QED
    BY <1>1, <2>2, <2>3, ForkFed, FedFeeds DEF d
<1> QED
  BY <1>5, <1>6, <1>7

\* The end of a condition.
LEMMA BranchFed ==
  ASSUME NEW h, Before(h), NEW u, Fed(blocks, cur, frames, u), frames # <<>>, cur # NoBlock,
         top.k \notin Body, NEW d, d = Len(blocks) + 1, NEW e, e = Len(blocks) + 2,
         NEW g \in Frames,
         \/ g.k \in {"then", "tfirst"} /\ g.ctx = cur /\ g.oth = e
         \/ /\ top.k = "while" /\ g.k = "wbody" /\ g.oth = top.oth /\ g.post = e
            /\ g.scope = top.scope
  PROVE  Fed(BranchInto(blocks, cur), d, Append(Below, g), u)
<1> DEFINE bs2 == BranchInto(blocks, cur)
           y == bs2[d]
           z == bs2[e]
           ps == <<cur>>
           T == Only(cur) \cup Rests(top)
           m == Len(top.scope)
<1>1. /\ blocks \in Seq(Block) /\ cur \in DOMAIN blocks
      /\ frames \in Seq(Frames) /\ top = frames[Len(frames)]
  BY BeforeFacts
<1>2. Sound(blocks, u) /\ Laden(blocks, cur, frames) /\ Returning(blocks, cur, frames, u)
  BY DEF Fed
<1>3. /\ Joins(blocks, bs2, {cur}, 2, u)
      /\ Offspring(blocks, cur, ps, y) /\ Offspring(blocks, cur, ps, z)
  BY <1>1, <1>2, BranchIntoJoins
<1>4. top.scope = scope
  BY TopScope
<1>5. m <= Len(blocks[cur].syms) /\ m \in Nat
  BY <1>4, CurrentLength
<1>6. Blocks(ps) = {cur} /\ Only(cur) = {cur} /\ ps[1] = cur
  BY <1>1, FittingSelf, Zenon DEF Only
<1> HIDE DEF bs2, ps
<1>7. /\ Rests(g) \subseteq {e} /\ Only(d) \subseteq {d}
      /\ Refers(g) \subseteq {cur, e} \cup Own(top)
      /\ Loops(g) # {} => Loops(g) = {top.oth, e} /\ top.k = "while" /\ g.scope = top.scope
  BY PendingIs DEF Rests, Refers, Fixed, Own, Loops, Only
<1>8. Heir(blocks, y, T, m) /\ Heir(blocks, z, T, m)
  <2>1. Blocks(ps) \subseteq T
    BY <1>6
  <2> HIDE DEF T, m
  <2> QED
    BY <1>1, <1>3, <1>5, <2>1, OffspringHeir
<1>9. /\ y.par.live \subseteq With(y.syms) /\ z.par.live \subseteq With(z.syms)
      /\ y.par.live = z.par.live /\ y.hasRet = blocks[cur].hasRet /\ z.hasRet = blocks[cur].hasRet
  BY <1>3 DEF Offspring
<1>10. u # "top" => y.hasRet /\ z.hasRet
  BY <1>2, <1>9 DEF Returning
<1>11. \A b \in Only(d) \cup Rests(g) : Heir(blocks, bs2[b], T, m)
  BY <1>7, <1>8
<1>12. ASSUME NEW b \in Loops(g)
       PROVE  \/ b \in Loops(top) /\ g.scope = top.scope
              \/ /\ Steady(bs2[b], Len(g.scope))
                 /\ Carried(bs2, Only(d) \cup Rests(g), bs2[b].par.live)
  <2>1. b \in {top.oth, e} /\ top.k = "while" /\ g.scope = top.scope
    BY <1>7, <1>12
  <2>2. CASE b = top.oth
    BY <2>1, <2>2 DEF Loops
  <2>3. CASE b = e
    <3>1. top.k \notin Expr /\ top.k # "docond" /\ top.k \in Roots
      BY <2>1 DEF Expr, Roots
    <3>2. Lists(blocks)[cur] = scope
      BY <3>1, CurrentScope
    <3>3. Len(blocks[cur].syms) <= m
      BY <1>4, <3>2, CurrentLength
    <3>4. Len(blocks[cur].stack) = 0
      <4>1. Ready(blocks, cur, frames, at, h)
        BY DEF Before
      <4>2. Pushed(top) = 0
        BY <2>1 DEF Pushed
      <4>3. Len(blocks[cur].stack) = h[Len(frames) - 1] + Pushed(top)
            /\ h[Len(frames) - 1] = 0
        BY <1>1, <3>1, <4>1, TopReady
      <4> QED
        BY <4>2, <4>3
    <3>5. Steady(z, m)
      BY <1>1, <1>3, <1>5, <1>6, <3>3, <3>4, OffspringSteady, Zenon
    <3>6. Carried(bs2, Only(d) \cup Rests(g), z.par.live)
      BY <1>7, <1>9 DEF Carried
    <3> QED
      BY <2>1, <2>3, <3>5, <3>6
  <2> QED
    BY <2>1, <2>2, <2>3
<1>13. u # "top" => \A b \in Only(d) \cup Refers(g) :
         b \in Only(cur) \cup Refers(top) \/ bs2[b].hasRet
  BY <1>6, <1>7, <1>10 DEF Refers
<1>14. {cur} \subseteq Top(cur, top)
  BY <1>6 DEF Top
<1>15. Takes(bs2, d, g, u)
  BY <1>11, <1>12, <1>13, Zenon DEF Takes
<1> QED
  BY <1>3, <1>14, <1>15, SwapFed DEF bs2

LEMMA ConditionsFeed ==
  ASSUME NEW h, Before(h), Fed(blocks, cur, frames, unit),
         EndIfCondition \/ EndTernaryCondition \/ EndWhileCondition
  PROVE  Feeds
<1> DEFINE d == Len(blocks) + 1
           e == Len(blocks) + 2
<1>1. at = "value" /\ frames # <<>> /\ top.k \in {"if", "tcond", "while"}
  BY DEF EndIfCondition, EndTernaryCondition, EndWhileCondition, Returned, Waiting
<1>2. cur # NoBlock /\ cur \in Nat /\ d \in Nat /\ e \in Nat
  BY <1>1, ExprFacts, BeforeFacts
<1>3. top \in Frames /\ top.k \notin Body
  BY <1>1, BeforeFacts DEF Body
<1>4. \A k \in FrameKinds : Frame(k) \in Frames /\ Frame(k).k = k /\ Frame(k).scope = scope
  BY FrameScope
<1>5. CASE EndIfCondition
  <2> DEFINE F == Frame("then")
             g == [F EXCEPT !.ctx = cur, !.oth = e]
  <2>1. F \in Frames /\ F.k = "then"
    BY <1>4 DEF FrameKinds
  <2>2. blocks' = BranchInto(blocks, cur) /\ cur' = d /\ frames' = Append(Below, g)
    BY <1>5 DEF EndIfCondition, Produce, Replace
  <2> HIDE DEF F, d, e
  <2>3. g \in Frames /\ g.k \in {"then", "tfirst"} /\ g.ctx = cur /\ g.oth = e
    BY <1>2, <2>1, Zenon DEF Frames
  <2> HIDE DEF g
  <2> QED
    BY <1>1, <1>2, <1>3, <2>2, <2>3, BranchFed, FedFeeds DEF d, e
<1>6. CASE EndTernaryCondition
  <2> DEFINE g == [top EXCEPT !.k = "tfirst", !.ctx = cur, !.oth = e]
  <2>1. blocks' = BranchInto(blocks, cur) /\ cur' = d /\ frames' = Append(Below, g)
    BY <1>6 DEF EndTernaryCondition, Produce, Replace
  <2> HIDE DEF d, e
  <2>2. g \in Frames /\ g.k \in {"then", "tfirst"} /\ g.ctx = cur /\ g.oth = e
    BY <1>2, <1>3, Zenon DEF Frames, FrameKinds
  <2> HIDE DEF g
  <2> QED
    BY <1>1, <1>2, <1>3, <2>1, <2>2, BranchFed, FedFeeds DEF d, e
<1>7. CASE EndWhileCondition
  <2> DEFINE g == [top EXCEPT !.k = "wbody", !.post = e]
  <2>1. blocks' = BranchInto(blocks, cur) /\ cur' = d /\ frames' = Append(Below, g)
        /\ top.k = "while"
    BY <1>7 DEF EndWhileCondition, Produce, Replace, Returned, Waiting
  <2> HIDE DEF d, e
  <2>2. g \in Frames /\ g.k = "wbody" /\ g.oth = top.oth /\ g.post = e /\ g.scope = top.scope
    BY <1>2, <1>3, Zenon DEF Frames, FrameKinds
  <2> HIDE DEF g
  <2> QED
    BY <1>1, <1>2, <1>3, <2>1, <2>2, BranchFed, FedFeeds DEF d, e
<1> QED
  BY <1>5, <1>6, <1>7

\* Nothing is joined.
LEMMA SameJoins ==
  ASSUME NEW bs \in Seq(Block), NEW u, Sound(bs, u)
  PROVE  Joins(bs, bs, {}, 0, u)
<1>1. Effect(bs, bs, {}, 0) /\ Keeps(bs, bs)
  BY SameEffect, KeepsSame
<1>2. Grown(bs, bs, u)
  BY <1>1, KeepsGrown DEF Fresher
<1> QED
  BY <1>1, <1>2 DEF Joins

\* The second branch follows, and the end of the first waits.
LEMMA OtherFed ==
  ASSUME NEW h, Before(h), NEW u, Fed(blocks, cur, frames, u), frames # <<>>,
         NEW g \in Frames, g.ctx = top.ctx, g.oth = cur,
         \/ top.k = "then" /\ g.k = "else"
         \/ top.k = "tfirst" /\ g.k = "tsecond" /\ cur # NoBlock
  PROVE  Fed(blocks, top.oth, Append(Below, g), u)
<1>1. blocks \in Seq(Block) /\ FrameOK(Len(blocks), top) /\ cur \in 0 .. Len(blocks)
  BY BeforeFacts
<1>2. Joins(blocks, blocks, {}, 0, u)
  BY <1>1, SameJoins DEF Fed
<1>3. Rests(top) = {top.oth} /\ top.oth \in DOMAIN blocks /\ top.oth # NoBlock
  <2>1. top.oth \in DOMAIN blocks /\ top.oth # NoBlock
    BY <1>1 DEF FrameOK, NoBlock
  <2> QED
    BY <2>1, PendingIs DEF Rests
<1>4. /\ Rests(g) = Only(cur) /\ Loops(g) = {} /\ Refers(g) \subseteq Only(cur) \cup Refers(top)
      /\ Only(top.oth) = {top.oth} /\ {top.oth} \subseteq Refers(top)
  BY <1>3, PendingIs DEF Rests, Loops, Refers, Fixed, Own, Only
<1>5. ASSUME NEW b \in Only(top.oth) \cup Rests(g)
      PROVE  Heir(blocks, blocks[b], Only(cur) \cup Rests(top), Len(top.scope))
  <2>1. b \in Only(cur) \cup Rests(top)
    BY <1>3, <1>4
  <2>2. b \in DOMAIN blocks
    <3>1. CASE b \in Rests(top)
      BY <1>3, <3>1
    <3>2. CASE b \in Only(cur)
      <4>1. b = cur /\ cur # 0
        BY <3>2 DEF Only, NoBlock
      <4>2. cur \in 1 .. Len(blocks)
        BY <1>1, <4>1
      <4> QED
        BY <1>1, <4>1, <4>2
    <3> QED
      BY <2>1, <3>1, <3>2
  <2> DEFINE T == Only(cur) \cup Rests(top)
             m == Len(top.scope)
  <2>3. Grown(blocks, blocks, u) /\ b \in T
    BY <1>2, <2>1 DEF Joins
  <2> HIDE DEF T, m
  <2>4. Heir(blocks, blocks[b], T, m)
    BY <2>2, <2>3, OldHeir
  <2> QED
    BY <2>4 DEF T, m
<1>6. Takes(blocks, top.oth, g, u)
  BY <1>4, <1>5, Zenon DEF Takes
<1> QED
  BY <1>2, <1>6, SwapFed

LEMMA OthersFeed ==
  ASSUME NEW h, Before(h), Fed(blocks, cur, frames, unit), EndThen \/ EndTernaryFirst
  PROVE  Feeds
<1>1. frames # <<>> /\ top \in Frames /\ cur \in Nat
  <2>1. frames # <<>>
    BY DEF EndThen, EndTernaryFirst, EndsBody, Returned, Waiting
  <2> QED
    BY <2>1, BeforeFacts
<1>2. CASE EndThen
  <2> DEFINE g == [top EXCEPT !.k = "else", !.oth = cur]
  <2>1. blocks' = blocks /\ cur' = top.oth /\ frames' = Append(Below, g) /\ top.k = "then"
    BY <1>2 DEF EndThen, Replace, EndsBody
  <2>2. g \in Frames /\ g.k = "else" /\ g.ctx = top.ctx /\ g.oth = cur
    BY <1>1, Zenon DEF Frames, FrameKinds
  <2> HIDE DEF g
  <2> QED
    BY <1>1, <2>1, <2>2, OtherFed, FedFeeds
<1>3. CASE EndTernaryFirst
  <2> DEFINE g == [top EXCEPT !.k = "tsecond", !.oth = cur]
  <2>1. blocks' = blocks /\ cur' = top.oth /\ frames' = Append(Below, g) /\ top.k = "tfirst"
    BY <1>3 DEF EndTernaryFirst, Replace, Returned, Waiting
  <2>2. g \in Frames /\ g.k = "tsecond" /\ g.ctx = top.ctx /\ g.oth = cur
    BY <1>1, Zenon DEF Frames, FrameKinds
  <2>3. cur # NoBlock
    BY <1>3, ExprFacts DEF EndTernaryFirst, Returned, Waiting
  <2> HIDE DEF g
  <2> QED
    BY <1>1, <2>1, <2>2, <2>3, OtherFed, FedFeeds
<1> QED
  BY <1>2, <1>3

\* A statement that held others ends in the child of the blocks ps, with the
\* names from before it.
LEMMA TangleFeeds ==
  ASSUME NEW h, Before(h), Fed(blocks, cur, frames, unit), frames # <<>>,
         NEW c \in Refers(top), NEW ps, Blocks(ps) \subseteq Only(cur) \cup Rests(top),
         1 \in DOMAIN ps, Lists(blocks)[c] = top.scope,
         \A b \in Blocks(ps) : Begins(top.scope, Lists(blocks)[b]),
         Done(Below, Len(blocks) + 1, TangleBlocks(blocks, c, ps))
  PROVE  Feeds
<1> DEFINE d == Len(blocks) + 1
           bs2 == TangleBlocks(blocks, c, ps)
           T == Only(cur) \cup Rests(top)
           m == Len(top.scope)
<1>1. /\ blocks \in Seq(Block) /\ frames \in Seq(Frames) /\ FrameOK(Len(blocks), top)
      /\ top = frames[Len(frames)] /\ Len(frames) \in DOMAIN frames /\ top \in Frames
  BY BeforeFacts
<1>2. Sound(blocks, unit) /\ Returning(blocks, cur, frames, unit)
  BY DEF Fed
<1>3. c \in DOMAIN blocks
  <2>1. Len(blocks) \in Nat /\ DOMAIN blocks = 1 .. Len(blocks)
    BY <1>1
  <2>2. Refers(top) \subseteq 1 .. Len(blocks)
    BY <1>1, <2>1, LoopsDomain
  <2> QED
    BY <2>1, <2>2
<1>4. /\ \A b \in T : b \in DOMAIN blocks /\ b \in Top(cur, top)
      /\ \A b \in T : (b = cur /\ cur # NoBlock) \/ b \in Refers(top)
  <2>1. /\ \A b \in Only(cur) \cup Pending(top) : b \in DOMAIN blocks
        /\ Rests(top) \subseteq Pending(top)
    BY TopOpen
  <2> QED
    BY <2>1 DEF Top, Only, Refers
<1>5. Backs(blocks, c, ps) /\ (unit # "top" => blocks[c].hasRet)
  <2>1. ASSUME NEW x \in DOMAIN blocks, NEW b \in T
        PROVE  blocks[x].hasRet => blocks[b].hasRet
    BY <1>1, <1>2, <1>4, Backed
  <2>2. unit # "top" => blocks[c].hasRet
    BY <1>1, <1>2, <1>3, Backed
  <2> QED
    BY <1>3, <2>1, <2>2 DEF Backs
<1>6. Fitting(blocks, c, ps)
  BY DEF Fitting
<1>7. Blocks(ps) \subseteq DOMAIN blocks /\ Blocks(ps) \subseteq T /\ Blocks(ps) \subseteq Top(cur, top)
  BY <1>4
<1>8. /\ Joins(blocks, bs2, Blocks(ps), 1, unit) /\ Offspring(blocks, c, ps, bs2[d])
  BY <1>1, <1>2, <1>3, <1>5, <1>6, <1>7, TangleJoins
<1>9. m \in Nat /\ m <= Len(blocks[c].syms)
  <2>1. Lists(blocks)[c] = Names(blocks[c].syms)
        /\ Len(Names(blocks[c].syms)) = Len(blocks[c].syms)
    BY <1>1, <1>3, ListsType
  <2>2. blocks[c] \in Block /\ top.scope \in Seq(Nat)
    BY <1>1, <1>3 DEF Frames
  <2>3. blocks[c].syms \in Seq(Entry)
    BY <2>2 DEF Block
  <2> QED
    BY <2>1, <2>2, <2>3
<1> HIDE DEF bs2, d
<1>10. Heir(blocks, bs2[d], T, m)
  <2> HIDE DEF T, m
  <2> QED
    BY <1>1, <1>3, <1>7, <1>8, <1>9, OffspringHeir
<1>11. unit # "top" => bs2[d].hasRet
  BY <1>5, <1>8 DEF Offspring
<1>12. \A b \in Only(d) : Heir(blocks, bs2[b], T, m) /\ (unit # "top" => bs2[b].hasRet)
  BY <1>10, <1>11 DEF Only
<1> HIDE DEF m
<1>13. Fed(bs2, d, Below, unit)
  BY <1>7, <1>8, <1>12, LeaveFed, Zenon DEF T, m
<1>14. Done(Below, d, bs2) /\ Below \in Seq(Frames)
  <2>1. Below \in Seq(Frames)
    BY <1>1, BelowFacts DEF Below
  <2> QED
    BY <2>1 DEF d, bs2
<1>15. Fed(blocks', cur', frames', unit)
  BY <1>13, <1>14, DoneFed
<1> QED
  BY <1>15, FedFeeds

\* A statement that held others ends, and nothing follows.
LEMMA EndlessFeeds ==
  ASSUME NEW h, Before(h), Fed(blocks, cur, frames, unit), frames # <<>>,
         NEW c, c = NoBlock, Done(Below, c, blocks)
  PROVE  Feeds
<1>1. blocks \in Seq(Block) /\ frames \in Seq(Frames)
  BY BeforeFacts
<1>2. Joins(blocks, blocks, {}, 0, unit)
  BY <1>1, SameJoins DEF Fed
<1>3. Only(c) = {}
  BY DEF Only
<1>4. Fed(blocks, c, Below, unit)
  BY <1>2, <1>3, LeaveFed
<1>5. Below \in Seq(Frames)
  BY <1>1, BelowFacts DEF Below
<1>6. Fed(blocks', cur', frames', unit)
  BY <1>4, <1>5, DoneFed
<1> QED
  BY <1>6, FedFeeds

LEMMA EndElseFeeds ==
  ASSUME NEW h, Before(h), Fed(blocks, cur, frames, unit), EndElse
  PROVE  Feeds
<1> DEFINE ps == Ends(top.oth, cur)
           nm == Lists(blocks)
           c == NoBlock
<1>1. /\ EndsBody("else")
      /\ IF ps = <<>> THEN Done(Below, c, blocks)
         ELSE Done(Below, Len(blocks) + 1, TangleBlocks(blocks, top.ctx, ps))
  BY DEF EndElse
<1>2. /\ frames # <<>> /\ top.k = "else"
      /\ Knows(nm, top, scope) /\ Begins(top.scope, scope)
      /\ cur # NoBlock => nm[cur] = scope
  BY <1>1, BodyFacts
<1>3. CASE ps = <<>>
  <2>1. Done(Below, c, blocks) /\ c = NoBlock
    BY <1>1, <1>3
  <2> HIDE DEF c
  <2> QED
    BY <1>2, <2>1, EndlessFeeds
<1>4. CASE ps # <<>>
  <2>1. /\ 1 \in DOMAIN ps
        /\ \A x \in Blocks(ps) : x # NoBlock /\ (x = top.oth \/ x = cur)
    BY <1>4, EndsBlocks
  <2> HIDE DEF ps
  <2>2. top.ctx \in Refers(top) /\ (top.oth # NoBlock => top.oth \in Rests(top))
    BY <1>2, PendingIs DEF Refers, Fixed, Rests
  <2>3. nm[top.ctx] = top.scope /\ (top.oth # NoBlock => Begins(top.scope, nm[top.oth]))
    BY <1>2 DEF Knows, Fixed
  <2> HIDE DEF nm
  <2>4. /\ Blocks(ps) \subseteq Only(cur) \cup Rests(top)
        /\ \A b \in Blocks(ps) : Begins(top.scope, nm[b])
    BY <1>2, <2>1, <2>2, <2>3 DEF Only
  <2>5. Done(Below, Len(blocks) + 1, TangleBlocks(blocks, top.ctx, ps))
    BY <1>1, <1>4
  <2> QED
    BY <1>2, <2>1, <2>2, <2>3, <2>4, <2>5, TangleFeeds DEF nm
<1> QED
  BY <1>3, <1>4

LEMMA EndNestedFeeds ==
  ASSUME NEW h, Before(h), Fed(blocks, cur, frames, unit), EndNested
  PROVE  Feeds
<1> DEFINE nm == Lists(blocks)
           ps == <<cur>>
<1>1. /\ EndsBody("block")
      /\ IF cur = NoBlock THEN status' = "crashed" /\ blocks' = blocks
         ELSE Done(Below, Len(blocks) + 1, TangleBlocks(blocks, top.ctx, ps))
  BY DEF EndNested, RejoinBlock
<1>2. /\ frames # <<>> /\ top.k = "block"
      /\ blocks \in Seq(Block)
      /\ Knows(nm, top, scope) /\ Begins(top.scope, scope)
      /\ cur # NoBlock => cur \in DOMAIN blocks /\ nm[cur] = scope
  BY <1>1, BodyFacts
<1>3. CASE cur = NoBlock
  BY <1>1, <1>3, StoppedFeeds
<1>4. CASE cur # NoBlock
  <2>1. Blocks(ps) = {cur} /\ 1 \in DOMAIN ps
    BY <1>2, <1>4, FittingSelf
  <2> HIDE DEF ps
  <2>2. top.ctx \in Refers(top)
    BY <1>2 DEF Refers, Fixed
  <2>3. nm[top.ctx] = top.scope
    BY <1>2 DEF Knows, Fixed
  <2> HIDE DEF nm
  <2>4. /\ Blocks(ps) \subseteq Only(cur) \cup Rests(top)
        /\ \A b \in Blocks(ps) : Begins(top.scope, nm[b])
    BY <1>2, <1>4, <2>1 DEF Only
  <2>5. Done(Below, Len(blocks) + 1, TangleBlocks(blocks, top.ctx, ps))
    BY <1>1, <1>4
  <2> QED
    BY <1>2, <2>1, <2>2, <2>3, <2>4, <2>5, TangleFeeds DEF nm
<1> QED
  BY <1>3, <1>4

\* A do-while whose body breaks, and never continues.
LEMMA BrokenFeeds ==
  ASSUME NEW h, Before(h), Fed(blocks, cur, frames, unit), EndDoBody,
         IF cur = NoBlock THEN top.cont = <<>> ELSE <<cur>> \o top.cont = <<>>
  PROVE  Feeds
<1>1. EndsBody("do")
  BY DEF EndDoBody
<1>2. /\ frames # <<>> /\ top.k = "do" /\ blocks \in Seq(Block)
      /\ Knows(Lists(blocks), top, scope)
  BY <1>1, BodyFacts
<1>3. Ready(blocks, cur, frames, at, h)
  BY DEF Before
<1>4. CASE top.brk # <<>>
  <2> DEFINE ps == top.brk
             c == top.par
  <2>1. Done(Below, Len(blocks) + 1, TangleBlocks(blocks, c, ps))
    BY <1>4 DEF EndDoBody
  <2>2. ps \in Seq(DOMAIN blocks) /\ ps # <<>> /\ \A b \in Blocks(ps) : b # NoBlock
    BY <1>2, <1>3, <1>4, DoFacts
  <2>3. 1 \in DOMAIN ps
    BY <2>2, ListFacts
  <2>4. Lists(blocks)[c] = top.scope /\ \A b \in Blocks(ps) : Begins(top.scope, Lists(blocks)[b])
    BY <1>2 DEF Knows, Fixed
  <2>5. Blocks(ps) \subseteq Only(cur) \cup Rests(top) /\ c \in Refers(top)
    BY <1>2, <2>2, PendingIs DEF Rests, Refers, Fixed
  <2> HIDE DEF ps, c
  <2> QED
    BY <1>2, <2>1, <2>3, <2>4, <2>5, TangleFeeds
<1>5. CASE top.brk = <<>>
  <2> DEFINE none == NoBlock
  <2>1. Done(Below, none, blocks) /\ none = NoBlock
    BY <1>5 DEF EndDoBody
  <2> HIDE DEF none
  <2> QED
    BY <1>2, <2>1, EndlessFeeds
<1> QED
  BY <1>4, <1>5

\* The body of a do-while is over, and its condition follows.
LEMMA ContinuedFeeds ==
  ASSUME NEW h, Before(h), Fed(blocks, cur, frames, unit), EndsBody("do"),
         NEW cont, cont = IF cur = NoBlock THEN top.cont ELSE <<cur>> \o top.cont,
         cont # <<>>, Replace([top EXCEPT !.k = "docond", !.cont = cont]),
         cur' = Len(blocks) + 1, blocks' = TangleBlocks(blocks, top.ctx, cont)
  PROVE  Feeds
<1> DEFINE d == Len(blocks) + 1
           g == [top EXCEPT !.k = "docond", !.cont = cont]
           nm == Lists(blocks)
           c == top.ctx
           T == Only(cur) \cup Rests(top)
           m == Len(top.scope)
           bs2 == TangleBlocks(blocks, c, cont)
<1>1. /\ frames # <<>> /\ top.k = "do"
      /\ top \in Frames /\ FrameOK(Len(blocks), top) /\ blocks \in Seq(Block)
      /\ Knows(nm, top, scope)
      /\ cur # NoBlock => cur \in DOMAIN blocks /\ nm[cur] = scope
  BY BodyFacts
<1>2. Ready(blocks, cur, frames, at, h)
  BY DEF Before
<1>3. /\ cont \in Seq(DOMAIN blocks)
      /\ \A b : b \in Blocks(cont) <=> b \in Only(cur) \/ b \in Blocks(top.cont)
  BY <1>1, <1>2, ContinueList, Zenon
<1>4. /\ c \in DOMAIN blocks /\ \A b \in Blocks(top.brk) : b # NoBlock /\ b \in DOMAIN blocks
      /\ \A b \in Blocks(top.cont) : b # NoBlock
  <2>1. /\ c \in DOMAIN blocks /\ top.brk \in Seq(DOMAIN blocks)
        /\ \A b \in Blocks(top.brk) : b # NoBlock
        /\ \A b \in Blocks(top.cont) : b # NoBlock
    BY <1>1, <1>2, DoFacts
  <2> QED
    BY <2>1 DEF Blocks
<1>5. Blocks(cont) \subseteq DOMAIN blocks /\ 1 \in DOMAIN cont /\ cont \in Seq(Nat)
  <2> DEFINE D == DOMAIN blocks
  <2>1. cont \in Seq(D) /\ cont # <<>>
    BY <1>3
  <2>2. cont \in Seq(Nat)
    BY <1>1, <1>3, ListNat, Zenon
  <2> HIDE DEF D
  <2>3. 1 \in DOMAIN cont /\ Blocks(cont) \subseteq D
    BY ONLY <2>1, ListFacts
  <2> QED
    BY <2>2, <2>3 DEF D
<1>6. Fitting(blocks, c, cont)
  <2>1. ASSUME NEW b \in Blocks(cont)
        PROVE  Begins(nm[c], nm[b])
    <3>1. CASE b \in Blocks(top.cont)
      BY <1>1, <3>1 DEF Knows
    <3>2. CASE b = cur /\ cur # NoBlock
      BY <1>1, <3>2 DEF Knows
    <3> QED
      BY <1>3, <2>1, <3>1, <3>2 DEF Only
  <2> QED
    BY <2>1 DEF Fitting
<1>7. /\ Rests(top) = Blocks(top.brk) \cup Blocks(top.cont)
      /\ Blocks(cont) \subseteq T /\ Blocks(cont) \subseteq Top(cur, top)
      /\ {c, top.oth, top.par} \subseteq Refers(top)
  <2>1. Pending(top) = (Blocks(top.brk) \cup Blocks(top.cont)) \ {NoBlock}
    BY <1>1, PendingIs
  <2>2. Rests(top) = Pending(top) /\ Pending(top) = Blocks(top.brk) \cup Blocks(top.cont)
    BY <1>1, <1>4, <2>1 DEF Rests
  <2>3. {c, top.oth, top.par} \subseteq Refers(top)
    BY <1>1 DEF Refers, Fixed, Own
  <2> QED
    BY <1>3, <2>2, <2>3 DEF Top
<1>8. Sound(blocks, unit) /\ Returning(blocks, cur, frames, unit)
  BY DEF Fed
<1>9. Backs(blocks, c, cont) /\ (unit # "top" => blocks[c].hasRet)
  <2>1. Len(frames) \in DOMAIN frames /\ top = frames[Len(frames)]
    BY <1>1, BeforeFacts
  <2>2. \A b \in T : (b = cur /\ cur # NoBlock) \/ b \in Refers(top)
    BY DEF Only, Refers
  <2>3. ASSUME NEW x \in DOMAIN blocks, NEW b \in T
        PROVE  blocks[x].hasRet => blocks[b].hasRet
    BY <1>8, <2>1, <2>2, Backed
  <2>4. unit # "top" => blocks[c].hasRet
    BY <1>4, <1>7, <1>8, <2>1, Backed
  <2> QED
    BY <1>4, <1>7, <2>3, <2>4 DEF Backs
<1>10. Joins(blocks, bs2, Blocks(cont), 1, unit) /\ Offspring(blocks, c, cont, bs2[d])
       /\ d \in DOMAIN bs2
  <2> HIDE DEF c
  <2> QED
    BY <1>1, <1>4, <1>5, <1>6, <1>8, <1>9, TangleJoins, Zenon
<1>11. m \in Nat /\ m <= Len(blocks[c].syms)
  <2>1. nm[c] = Names(blocks[c].syms) /\ Len(Names(blocks[c].syms)) = Len(blocks[c].syms)
    BY <1>1, <1>4, ListsType
  <2>2. m <= Len(nm[c])
    BY <1>1 DEF Knows, Begins
  <2>3. top.scope \in Seq(Nat)
    BY <1>1 DEF Frames
  <2> QED
    BY <2>1, <2>2, <2>3
<1>12. Heir(blocks, bs2[d], T, m)
  <2> HIDE DEF T, m, c, bs2, d
  <2> QED
    BY <1>1, <1>4, <1>7, <1>10, <1>11, OffspringHeir
<1>13. unit # "top" => bs2[d].hasRet
  BY <1>9, <1>10 DEF Offspring
<1>14. /\ g \in Frames /\ g.k = "docond" /\ g.oth = top.oth /\ g.par = top.par /\ g.brk = top.brk
       /\ g.scope = top.scope
  BY <1>1, <1>5, Zenon DEF Frames, FrameKinds
<1> HIDE DEF g, d, bs2
<1>15. /\ Rests(g) = Blocks(top.brk) /\ Loops(g) = Loops(top)
       /\ Refers(g) \subseteq Refers(top) /\ Only(d) \subseteq {d}
  <2>1. Pending(g) = Blocks(top.brk) \ {NoBlock}
    BY <1>14, PendingIs
  <2>2. Rests(g) = Blocks(top.brk)
    BY <1>4, <1>14, <2>1 DEF Rests
  <2>3. Loops(g) = Loops(top) /\ Fixed(g) = {top.par} /\ Own(g) = {top.oth}
    BY <1>1, <1>14 DEF Loops, Fixed, Own
  <2>4. Refers(g) \subseteq Refers(top)
    BY <1>7, <2>2, <2>3 DEF Refers
  <2> QED
    BY <2>2, <2>3, <2>4 DEF Only
<1>16. ASSUME NEW b \in Only(d) \cup Rests(g)
       PROVE  Heir(blocks, bs2[b], T, m)
  <2>1. CASE b = d
    BY <1>12, <2>1
  <2>2. CASE b \in Blocks(top.brk)
    <3>1. b \in T /\ b \in DOMAIN blocks
      BY <1>4, <1>7, <2>2
    <3>2. Grown(blocks, bs2, unit)
      BY <1>10 DEF Joins
    <3> HIDE DEF T, m
    <3> QED
      BY <3>1, <3>2, OldHeir
  <2> QED
    BY <1>15, <1>16, <2>1, <2>2
<1>17. Takes(bs2, d, g, unit)
  BY <1>13, <1>14, <1>15, <1>16, Zenon DEF Takes
<1>18. Fed(bs2, d, Append(Below, g), unit)
  BY <1>1, <1>7, <1>10, <1>14, <1>17, SwapFed
<1>19. blocks' = bs2 /\ cur' = d /\ frames' = Append(Below, g)
  BY DEF Replace, g, d, bs2
<1> QED
  BY <1>18, <1>19, FedFeeds

LEMMA EndDoBodyFeeds ==
  ASSUME NEW h, Before(h), Fed(blocks, cur, frames, unit), EndDoBody
  PROVE  Feeds
<1> DEFINE cont == IF cur = NoBlock THEN top.cont ELSE <<cur>> \o top.cont
<1>1. EndsBody("do")
  BY DEF EndDoBody
<1>2. CASE cont # <<>>
  <2>1. /\ Replace([top EXCEPT !.k = "docond", !.cont = cont])
        /\ cur' = Len(blocks) + 1
        /\ blocks' = TangleBlocks(blocks, top.ctx, cont)
    BY <1>2 DEF EndDoBody, Produce
  <2>2. cont = IF cur = NoBlock THEN top.cont ELSE <<cur>> \o top.cont
    OBVIOUS
  <2> HIDE DEF cont
  <2> QED
    BY <1>1, <1>2, <2>1, <2>2, ContinuedFeeds, Zenon
<1>3. CASE cont = <<>>
  BY <1>3, BrokenFeeds
<1> QED
  BY <1>2, <1>3

-----------------------------------------------------------------------------
(* Steps that go back to a loop.                                           *)

\* A block with a value for each parameter of a loop's may be joined to it.
LEMMA LoopSuits ==
  ASSUME NEW bs \in Seq(Block), NEW b \in DOMAIN bs, NEW d \in DOMAIN bs,
         NEW s \in Seq(Nat), Begins(s, Lists(bs)[b]), Begins(s, Lists(bs)[d]),
         Steady(bs[d], Len(s)),
         bs[d].par.live \subseteq With(bs[b].syms), bs[d].par.live \subseteq With(bs[d].syms),
         bs[d].par.ret => bs[b].hasRet
  PROVE  Suits(bs[b], bs[d])
<1> DEFINE x == Names(bs[b].syms)
           y == Names(bs[d].syms)
           live == bs[d].par.live
<1>1. /\ Lists(bs)[b] = x /\ Lists(bs)[d] = y
      /\ x \in Seq(Nat) /\ y \in Seq(Nat)
      /\ DOMAIN x = DOMAIN bs[b].syms /\ DOMAIN y = DOMAIN bs[d].syms
  BY ListsType
<1>2. /\ \A q \in DOMAIN bs[b].syms : x[q] = bs[b].syms[q].s
      /\ \A q \in DOMAIN bs[d].syms : y[q] = bs[d].syms[q].s
  BY DEF Names
<1>3. live \subseteq 1 .. Len(s)
  BY DEF Steady
<1> HIDE DEF x, y, live
<1>4. \A q \in live : x[q] = s[q] /\ y[q] = s[q]
  BY <1>1, <1>3 DEF Begins
<1>5. \A q \in live : q \in With(bs[b].syms) /\ q \in With(bs[d].syms)
  BY DEF live
<1>6. \A q \in live : q \in DOMAIN bs[b].syms /\ q \in DOMAIN bs[d].syms
  BY <1>5 DEF With
<1>7. \A q \in live : bs[b].syms[q].s = bs[d].syms[q].s
  BY <1>2, <1>4, <1>6
<1> QED
  BY <1>5, <1>7 DEF Suits, Steady, live

\* join_blocks to a block that is there.
LEMMA PlainJoins ==
  ASSUME NEW bs \in Seq(Block), NEW S \in SUBSET DOMAIN bs, NEW d \in DOMAIN bs,
         \A b \in S : Suits(bs[b], bs[d]), NEW u, Sound(bs, u)
  PROVE  Joins(bs, JoinBlocks(bs, S, d), S, 0, u)
<1> DEFINE bs2 == JoinBlocks(bs, S, d)
<1>1. Effect(bs, bs2, S, 0)
  BY JoinBlocksEffect
<1>2. Keeps(bs, bs2) /\ Len(bs2) = Len(bs)
  BY JoinKeeps
<1>3. \A b \in S : Flow(bs2, b)
  BY JoinFlow
<1> HIDE DEF bs2
<1>4. DOMAIN bs2 = DOMAIN bs
  BY <1>2, KeepsWhole
<1>5. Grown(bs, bs2, u)
  BY <1>2, <1>4, KeepsGrown DEF Fresher
<1> QED
  BY <1>1, <1>2, <1>3, <1>5 DEF Joins, bs2

\* The current block may be joined to any loop around it.
LEMMA CurrentSuits ==
  ASSUME NEW h, Before(h), NEW u, Fed(blocks, cur, frames, u), cur # NoBlock,
         NEW i \in DOMAIN frames, frames[i].k = "wbody", NEW d \in {frames[i].oth, frames[i].post}
  PROVE  d \in DOMAIN blocks /\ Suits(blocks[cur], blocks[d])
<1> DEFINE f == frames[i]
           nm == Lists(blocks)
           s == f.scope
<1>1. /\ blocks \in Seq(Block) /\ frames \in Seq(Frames) /\ scope \in Seq(Nat)
      /\ FrameOK(Len(blocks), f) /\ cur \in DOMAIN blocks
      /\ Settled(nm, cur, frames, scope, at) /\ nm \in Seq(Seq(Nat)) /\ DOMAIN nm = DOMAIN blocks
  BY BeforeFacts
<1>2. d \in DOMAIN blocks /\ f \in Frames
  BY <1>1 DEF FrameOK
<1>3. s \in Seq(Nat)
  BY <1>2 DEF Frames
<1>4. Knows(nm, f, Up(frames, scope, i)) /\ Begins(s, scope)
  <2> HIDE DEF nm
  <2> QED
    BY <1>1 DEF Settled, Known, Chain
<1>5. nm[d] = s
  BY <1>4 DEF Knows, Fixed
<1>6. Begins(scope, nm[cur])
  <2> HIDE DEF nm
  <2> QED
    BY ONLY <1>1, CurrentList, cur # NoBlock
<1> HIDE DEF nm
<1>7. Begins(s, nm[cur]) /\ Begins(s, nm[d])
  <2>1. nm[cur] \in Seq(Nat)
    BY <1>1
  <2> HIDE DEF s
  <2>2. Begins(s, nm[cur])
    BY <1>1, <1>3, <1>4, <1>6, <2>1, BeginsTrans
  <2> QED
    BY <1>3, <1>5, <2>2, BeginsItself
<1>8. d \in Loops(f) /\ {d} \subseteq Refers(f)
  BY DEF Loops, Refers, Fixed
<1>9. Steady(blocks[d], Len(s)) /\ blocks[d].par.live \subseteq With(blocks[cur].syms)
  BY <1>8 DEF Fed, Laden
<1>10. blocks[d].par.live \subseteq With(blocks[d].syms)
       /\ (blocks[d].par.ret => blocks[cur].hasRet)
  BY <1>2 DEF Fed, Sound, Returning
<1> HIDE DEF s, f
<1> QED
  BY <1>1, <1>2, <1>3, <1>7, <1>9, <1>10, LoopSuits, Zenon DEF nm

LEMMA EndWhileFeeds ==
  ASSUME NEW h, Before(h), Fed(blocks, cur, frames, unit), EndWhile
  PROVE  Feeds
<1> DEFINE S == {cur} \ {NoBlock}
           d == top.oth
           c == top.post
           bs == JoinBlocks(blocks, S, d)
           T == Only(cur) \cup Rests(top)
           m == Len(top.scope)
<1>1. EndsBody("wbody") /\ Done(Below, c, bs)
  BY DEF EndWhile
<1>2. /\ frames # <<>> /\ top.k = "wbody"
      /\ FrameOK(Len(blocks), top) /\ blocks \in Seq(Block)
      /\ cur # NoBlock => cur \in DOMAIN blocks
  BY <1>1, BodyFacts
<1>3. d \in DOMAIN blocks /\ c \in DOMAIN blocks /\ c # NoBlock
  BY <1>2 DEF FrameOK, NoBlock
<1>4. S \in SUBSET DOMAIN blocks
  BY <1>2
<1>5. /\ frames \in Seq(Frames) /\ top = frames[Len(frames)] /\ Len(frames) \in DOMAIN frames
  BY <1>2, BeforeFacts
<1>6. \A b \in S : Suits(blocks[b], blocks[d])
  <2>1. cur # NoBlock => Suits(blocks[cur], blocks[d])
    BY <1>2, <1>5, CurrentSuits
  <2> QED
    BY <2>1
<1>7. Joins(blocks, bs, S, 0, unit)
  <2> HIDE DEF d, S
  <2> QED
    BY <1>2, <1>3, <1>4, <1>6, PlainJoins DEF Fed
<1>8. c \in T /\ Only(c) = {c} /\ {c} \subseteq Refers(top) /\ S \subseteq Top(cur, top)
  BY <1>2, <1>3, PendingIs DEF Rests, Refers, Fixed, Only, Top
<1> HIDE DEF bs, c, S, d, m, T
<1>9. Heir(blocks, bs[c], T, m)
  <2>1. Grown(blocks, bs, unit)
    BY <1>7 DEF Joins
  <2> QED
    BY <1>3, <1>8, <2>1, OldHeir
<1>10. Fed(bs, c, Below, unit)
  <2>1. \A b \in Only(c) : Heir(blocks, bs[b], T, m) /\ b \in Refers(top)
    BY <1>8, <1>9
  <2> QED
    BY <1>2, <1>7, <1>8, <2>1, LeaveFed, Zenon DEF T, m
<1>11. Below \in Seq(Frames)
  BY <1>2, <1>5, BelowFacts DEF Below
<1>12. Fed(blocks', cur', frames', unit)
  BY <1>1, <1>10, <1>11, DoneFed
<1> QED
  BY <1>12, FedFeeds

\* The blocks that continue, and those that break, may be joined.
LEMMA TopBacks ==
  ASSUME NEW h, Before(h), NEW u, Fed(blocks, cur, frames, u), frames # <<>>,
         NEW c \in Refers(top), NEW ps, Blocks(ps) \subseteq Only(cur) \cup Rests(top)
  PROVE  c \in DOMAIN blocks /\ Backs(blocks, c, ps) /\ (u # "top" => blocks[c].hasRet)
<1>1. /\ blocks \in Seq(Block) /\ FrameOK(Len(blocks), top)
      /\ top = frames[Len(frames)] /\ Len(frames) \in DOMAIN frames
  BY BeforeFacts
<1>2. c \in DOMAIN blocks
  <2>1. Len(blocks) \in Nat /\ DOMAIN blocks = 1 .. Len(blocks)
    BY <1>1
  <2>2. Refers(top) \subseteq 1 .. Len(blocks)
    BY <1>1, <2>1, LoopsDomain
  <2> QED
    BY <2>1, <2>2
<1>3. Sound(blocks, u) /\ Returning(blocks, cur, frames, u)
  BY DEF Fed
<1>4. \A b \in Blocks(ps) : (b = cur /\ cur # NoBlock) \/ b \in Refers(top)
  BY DEF Only, Refers
<1>5. ASSUME NEW b \in Blocks(ps)
      PROVE  blocks[c].hasRet => blocks[b].hasRet
  BY <1>1, <1>2, <1>3, <1>4, Backed
<1>6. u # "top" => blocks[c].hasRet
  BY <1>1, <1>2, <1>3, Backed
<1> QED
  BY <1>2, <1>5, <1>6 DEF Backs

\* The condition of a do-while: what leaves the loop goes on, and the rest goes
\* back to the body, whose parameters are those of the block before it.
LEMMA WovenFed ==
  ASSUME NEW h, Before(h), NEW u, Fed(blocks, cur, frames, u),
         at = "value", frames # <<>>, top.k = "docond",
         NEW r, r = Len(blocks) + 1, NEW e, e = Len(blocks) + 2,
         NEW bs, bs = WeaveBlocks(blocks, top.par, top.brk, cur)
  PROVE  Fed(JoinBlocks(bs, {r}, top.oth), e, Below, u)
<1> DEFINE p == top.par
           brk == top.brk
           o == top.oth
           ps == <<cur>> \o brk
           S == {r}
           W == {cur} \cup Blocks(brk)
           bs2 == JoinBlocks(bs, S, o)
           nm == Lists(blocks)
           T == Only(cur) \cup Rests(top)
           m == Len(top.scope)
           k == Len(frames) - 1
<1>1. /\ cur # NoBlock /\ cur \in DOMAIN blocks /\ blocks \in Seq(Block)
      /\ Ready(blocks, cur, frames, at, h) /\ DOMAIN nm = DOMAIN blocks
      /\ Settled(nm, cur, frames, scope, at) /\ frames \in Seq(Frames)
      /\ nm \in Seq(Seq(Nat)) /\ scope \in Seq(Nat)
  BY ExprFacts, BeforeFacts DEF Before
<1>2. /\ p \in DOMAIN blocks /\ o \in DOMAIN blocks /\ brk \in Seq(DOMAIN blocks)
      /\ \A b \in Blocks(brk) : b # NoBlock /\ b # cur
  BY <1>1, DoFacts
<1>3. top.scope = scope /\ Knows(nm, top, scope)
  BY TopScope DEF Body
<1>4. nm[p] = scope /\ Begins(scope, nm[o]) /\ \A b \in Blocks(brk) : Begins(scope, nm[b])
  BY <1>3 DEF Knows, Fixed
<1>5. \A b : b \in Blocks(ps) <=> b = cur \/ b \in Blocks(brk)
  BY <1>1, <1>2, Prepend
<1>6. Fitting(blocks, p, ps)
  <2>1. Begins(scope, nm[cur])
    BY <1>1, CurrentList
  <2> HIDE DEF nm, brk, p, ps
  <2> QED
    BY <1>4, <1>5, <2>1 DEF Fitting, nm
<1>7. /\ Rests(top) = Blocks(brk) /\ Blocks(ps) \subseteq T /\ W \subseteq Top(cur, top)
      /\ {p, o} \subseteq Refers(top) /\ W \subseteq T
  <2>1. Pending(top) = Blocks(brk) \ {NoBlock}
    BY PendingIs
  <2>2. Rests(top) = Pending(top) /\ Pending(top) = Blocks(brk)
    BY <1>2, <2>1 DEF Rests
  <2>3. {p, o} \subseteq Refers(top)
    BY DEF Refers, Fixed, Own
  <2> HIDE DEF brk, ps
  <2> QED
    BY <1>1, <1>5, <2>2, <2>3 DEF Top, Only
<1>8. Backs(blocks, p, ps) /\ (u # "top" => blocks[p].hasRet)
  <2> HIDE DEF p, ps
  <2> QED
    BY <1>7, TopBacks
<1>9. Sound(blocks, u) /\ Laden(blocks, cur, frames)
  BY DEF Fed
<1>10. /\ Joins(blocks, bs, W, 2, u)
       /\ Offspring(blocks, p, ps, bs[r]) /\ Offspring(blocks, p, ps, bs[e])
       /\ r \in DOMAIN bs /\ e \in DOMAIN bs /\ r \notin DOMAIN blocks /\ e \notin DOMAIN blocks
       /\ Lists(bs)[r] = nm[p]
  <2>1. cur \notin Blocks(brk)
    BY <1>2
  <2>2. bs = WeaveBlocks(blocks, p, brk, cur)
    OBVIOUS
  <2> HIDE DEF p, brk
  <2>3. LET y == WeaveBlocks(blocks, p, brk, cur)
            d == Len(blocks) + 1
            f == Len(blocks) + 2
            qs == <<cur>> \o brk
        IN /\ Joins(blocks, y, {cur} \cup Blocks(brk), 2, u)
           /\ Offspring(blocks, p, qs, y[d]) /\ Offspring(blocks, p, qs, y[f])
           /\ d \in DOMAIN y /\ f \in DOMAIN y /\ d \notin DOMAIN blocks /\ f \notin DOMAIN blocks
           /\ Lists(y)[d] = Lists(blocks)[p]
    BY ONLY <1>1, <1>2, <1>6, <1>8, <1>9, <2>1, WeaveJoins
  <2> QED
    BY <2>2, <2>3
<1>11. /\ Len(frames) = k + 1 /\ frames[k + 1] = top /\ k \in Nat /\ k + 1 \in DOMAIN frames
       /\ Up(frames, scope, k) = top.scope
       /\ Sources(cur, frames, k) = T /\ Named(cur, frames, k) = Only(cur) \cup Refers(top)
  <2>1. top = frames[Len(frames)]
    BY BeforeFacts
  <2>2. k \in Nat
    BY <1>1
  <2> QED
    BY <1>1, <2>1, <2>2, TopAbove, Zenon
<1>12. o \in Loops(top)
  BY DEF Loops
<1>13. m \in Nat /\ m <= Len(blocks[p].syms)
  <2>1. nm[p] = Names(blocks[p].syms) /\ Len(Names(blocks[p].syms)) = Len(blocks[p].syms)
    BY <1>1, <1>2, ListsType, Zenon
  <2>2. blocks[p] \in Block
    BY <1>1, <1>2
  <2>3. blocks[p].syms \in Seq(Entry)
    BY <2>2 DEF Block
  <2> QED
    BY <1>1, <1>3, <1>4, <2>1, <2>3
<1> HIDE DEF p, brk, o, ps, W, nm
<1>14. Heir(blocks, bs[r], T, m) /\ Heir(blocks, bs[e], T, m)
  <2> HIDE DEF T, m
  <2> QED
    BY <1>1, <1>2, <1>7, <1>10, <1>13, OffspringHeir, Zenon
<1>15. /\ Steady(blocks[o], m) /\ blocks[o].par.live \subseteq 1 .. m
       /\ Carried(blocks, T, blocks[o].par.live)
  <2> HIDE DEF k, T
  <2> QED
    BY <1>9, <1>11, <1>12, LoopStays
<1> HIDE DEF T, m, k
<1>16. /\ Keeps(blocks, bs) /\ Grown(blocks, bs, u) /\ bs \in Seq(Block)
       /\ o \in DOMAIN bs /\ Kin(bs[o], blocks[o]) /\ W \subseteq DOMAIN blocks
       /\ Effect(blocks, bs, W, 2) /\ \A b \in W : Flow(bs, b)
  <2>1. /\ Keeps(blocks, bs) /\ Grown(blocks, bs, u) /\ W \subseteq DOMAIN blocks
        /\ Effect(blocks, bs, W, 2) /\ \A b \in W : Flow(bs, b)
    BY <1>10 DEF Joins
  <2> QED
    BY <1>1, <1>2, <2>1 DEF Keeps
<1>17. Sound(bs, u)
  BY <1>9, <1>16, GrownSound
<1>18. bs[o].par = blocks[o].par /\ Steady(bs[o], m)
  BY <1>15, <1>16 DEF Kin, Steady
<1>19. Suits(bs[r], bs[o])
  <2>1. bs[o].par.live \subseteq With(bs[r].syms)
    BY <1>14, <1>15, <1>18 DEF Heir
  <2>2. bs[o].par.live \subseteq With(bs[o].syms) /\ (bs[o].par.ret => bs[r].hasRet)
    BY <1>8, <1>10, <1>16, <1>17 DEF Sound, Offspring
  <2>3. Begins(scope, Lists(bs)[r]) /\ Begins(scope, Lists(bs)[o])
    <3>1. Lists(bs)[o] = nm[o]
      <4>1. bs \in Seq(Block) /\ o \in DOMAIN bs /\ blocks \in Seq(Block) /\ o \in DOMAIN blocks
        BY <1>1, <1>2, <1>16
      <4>2. Lists(bs)[o] = Names(bs[o].syms)
        BY ONLY <4>1, ListsType
      <4>3. Lists(blocks)[o] = Names(blocks[o].syms)
        BY ONLY <4>1, ListsType
      <4>4. Names(bs[o].syms) = Names(blocks[o].syms)
        BY <1>16 DEF Kin
      <4> QED
        BY <4>2, <4>3, <4>4 DEF nm
    <3> QED
      BY <1>1, <1>4, <1>10, <3>1, BeginsItself
  <2>4. Steady(bs[o], Len(scope))
    BY <1>3, <1>18 DEF m
  <2> QED
    BY <1>1, <1>10, <1>16, <2>1, <2>2, <2>3, <2>4, LoopSuits, Zenon
<1>20. S \in SUBSET DOMAIN bs /\ S = {r}
  BY <1>10
<1> HIDE DEF S
<1>21. Joins(bs, bs2, S, 0, u)
  BY <1>16, <1>17, <1>19, <1>20, PlainJoins
<1>22. /\ Effect(bs, bs2, S, 0) /\ Keeps(bs, bs2) /\ Grown(bs, bs2, u) /\ Flow(bs2, r)
  BY <1>20, <1>21 DEF Joins
<1> HIDE DEF bs2
<1>23. DOMAIN bs2 = DOMAIN bs /\ \A b \in DOMAIN bs : b # r => bs2[b] = bs[b]
  <2>1. bs2 \in Seq(Block) /\ Len(bs2) = Len(bs) + 0
    BY <1>22 DEF Effect
  <2>2. Len(bs2) = Len(bs)
    BY <1>16, <2>1
  <2> QED
    BY <1>16, <1>20, <1>22, <2>1, <2>2 DEF Effect
<1>24. Keeps(blocks, bs2) /\ Grown(blocks, bs2, u)
  <2>1. Keeps(blocks, bs2)
    BY <1>1, <1>16, <1>22, KeepsTrans
  <2>2. ASSUME NEW b \in DOMAIN bs2 \ DOMAIN blocks
        PROVE  /\ bs2[b].par.live \subseteq With(bs2[b].syms)
               /\ bs2[b].hasRet \/ bs2[b].par.ret => u # "top"
    <3>1. b \in DOMAIN bs /\ Kin(bs2[b], bs[b])
      BY <1>22, <1>23, <2>2 DEF Keeps
    <3>2. /\ bs[b].par.live \subseteq With(bs[b].syms)
          /\ bs[b].hasRet \/ bs[b].par.ret => u # "top"
      BY <1>17, <3>1 DEF Sound
    <3> QED
      BY <3>1, <3>2 DEF Kin
  <2> QED
    BY <1>1, <1>9, <2>1, <2>2, KeepsGrown, Zenon DEF Fresher
<1>25. /\ \A b \in DOMAIN blocks : ~Open(blocks, b) => bs[b] = blocks[b]
       /\ \A b \in DOMAIN bs : (b \in DOMAIN blocks => Open(blocks, b)) => Flow(bs, b)
  <2>1. \A b \in W : Open(blocks, b) /\ Flow(bs, b)
    BY <1>7, <1>16, TopOpen DEF Top
  <2>2. W \in SUBSET DOMAIN blocks
    BY <1>16
  <2> DEFINE n == 2
  <2>3. Effect(blocks, bs, W, n) /\ n \in Nat
    BY <1>16
  <2> HIDE DEF n
  <2> QED
    BY ONLY <1>1, <2>1, <2>2, <2>3, EffectFlows
<1>26. /\ \A b \in DOMAIN blocks : ~Open(blocks, b) => bs2[b] = blocks[b]
       /\ \A b \in DOMAIN bs2 : (b \in DOMAIN blocks => Open(blocks, b)) => Flow(bs2, b)
  <2>1. \A b \in DOMAIN blocks : b \in DOMAIN bs /\ b # r
    BY <1>1, <1>10, <1>16 DEF Keeps
  <2>2. ASSUME NEW b \in DOMAIN bs2, b \in DOMAIN blocks => Open(blocks, b)
        PROVE  Flow(bs2, b)
    <3>1. CASE b = r
      BY <1>22, <3>1
    <3>2. CASE b # r
      <4>1. bs2[b] = bs[b] /\ Flow(bs, b)
        BY <1>23, <1>25, <2>2, <3>2
      <4> QED
        BY <1>16, <1>22, <4>1, FlowKeeps
    <3> QED
      BY <3>1, <3>2
  <2> QED
    BY <1>23, <1>25, <2>1, <2>2
<1>27. bs2[e] = bs[e] /\ Only(e) \subseteq {e} /\ (u # "top" => bs2[e].hasRet)
  <2>1. e # r
    BY <1>1
  <2>2. bs2[e] = bs[e]
    BY <1>10, <1>23, <2>1
  <2> QED
    BY <1>8, <1>10, <2>2 DEF Only, Offspring
<1>28. /\ Above(frames, k, Below) /\ Len(Below) # k + 1
       /\ Sources(e, Below, k) = Only(e) /\ Named(e, Below, k) = Only(e)
  BY <1>1, LeaveAbove DEF Below, k
<1>29. Passes(blocks, cur, frames, scope, k, bs2, e, Below, u)
  <2>1. \A b \in Only(e) : Heir(blocks, bs2[b], T, m) /\ (u # "top" => bs2[b].hasRet)
    BY <1>14, <1>27
  <2> QED
    BY <1>11, <1>24, <1>28, <2>1 DEF Passes, m
<1> QED
  BY <1>26, <1>29, FedMove, Zenon DEF bs2, S, o

LEMMA EndDoConditionFeeds ==
  ASSUME NEW h, Before(h), Fed(blocks, cur, frames, unit), EndDoCondition
  PROVE  Feeds
<1> DEFINE r == Len(blocks) + 1
           e == Len(blocks) + 2
           bs == WeaveBlocks(blocks, top.par, top.brk, cur)
           bs2 == JoinBlocks(bs, {r}, top.oth)
<1>1. /\ at = "value" /\ frames # <<>> /\ top.k = "docond"
      /\ Done(Below, r + 1, bs2)
  BY DEF EndDoCondition, Returned, Waiting
<1>2. blocks \in Seq(Block) /\ frames \in Seq(Frames)
  BY BeforeFacts
<1>3. Below \in Seq(Frames) /\ r + 1 = e
  BY <1>1, <1>2, BelowFacts DEF Below
<1> HIDE DEF r, e, bs
<1>4. Fed(bs2, e, Below, unit)
  BY <1>1, WovenFed DEF r, e, bs
<1>5. Done(Below, e, bs2)
  BY <1>1, <1>3
<1> HIDE DEF bs2
<1>6. Fed(blocks', cur', frames', unit)
  BY <1>3, <1>4, <1>5, DoneFed
<1> QED
  BY <1>6, FedFeeds

\* break and continue: the current block waits in a list of a do-while.
LEMMA WaitsFed ==
  ASSUME NEW bs, NEW c, NEW fs \in Seq(Frames), NEW u, Fed(bs, c, fs, u),
         NEW i \in DOMAIN fs, fs[i].k = "do", NEW g \in Frames, g.k = "do",
         g.scope = fs[i].scope, g.par = fs[i].par, g.oth = fs[i].oth,
         g.ctx = fs[i].ctx, g.prev = fs[i].prev,
         Blocks(g.brk) \subseteq Blocks(fs[i].brk) \cup {c},
         Blocks(g.cont) \subseteq Blocks(fs[i].cont) \cup {c}
  PROVE  Fed(bs, NoBlock, [fs EXCEPT ![i] = g], u)
<1> DEFINE fs2 == [fs EXCEPT ![i] = g]
<1>1. DOMAIN fs2 = DOMAIN fs /\ fs2[i] = g /\ \A j \in DOMAIN fs : j # i => fs2[j] = fs[j]
  OBVIOUS
<1>2. /\ Loops(g) = Loops(fs[i]) /\ Fixed(g) = Fixed(fs[i]) /\ Own(g) = Own(fs[i])
      /\ Rests(g) \subseteq Rests(fs[i]) \cup Only(c)
  BY PendingIs DEF Loops, Fixed, Own, Rests, Only
<1> HIDE DEF fs2
<1>3. \A j \in DOMAIN fs : /\ Loops(fs2[j]) = Loops(fs[j]) /\ fs2[j].scope = fs[j].scope
                           /\ Rests(fs2[j]) \subseteq Rests(fs[j]) \cup Only(c)
                           /\ Refers(fs2[j]) \subseteq Refers(fs[j]) \cup Only(c)
  BY <1>1, <1>2 DEF Refers
<1>4. Laden(bs, c, fs) /\ Returning(bs, c, fs, u)
  BY DEF Fed
<1>5. Laden(bs, NoBlock, fs2)
  <2> SUFFICES ASSUME NEW a \in DOMAIN fs, NEW d \in Loops(fs[a])
               PROVE  /\ Steady(bs[d], Len(fs[a].scope))
                      /\ \A j \in DOMAIN fs : j >= a =>
                           \A b \in Rests(fs2[j]) : bs[d].par.live \subseteq With(bs[b].syms)
    BY <1>1, <1>3 DEF Laden
  <2>1. /\ Steady(bs[d], Len(fs[a].scope))
        /\ c # NoBlock => bs[d].par.live \subseteq With(bs[c].syms)
        /\ \A j \in DOMAIN fs : j >= a =>
             \A b \in Rests(fs[j]) : bs[d].par.live \subseteq With(bs[b].syms)
    BY <1>4 DEF Laden
  <2>2. ASSUME NEW j \in DOMAIN fs, j >= a, NEW b \in Rests(fs2[j])
        PROVE  bs[d].par.live \subseteq With(bs[b].syms)
    <3>1. b \in Rests(fs[j]) \/ (b = c /\ c # NoBlock)
      BY <1>3, <2>2 DEF Only
    <3> QED
      BY <2>1, <2>2, <3>1
  <2> QED
    BY <2>1, <2>2
<1>6. Returning(bs, NoBlock, fs2, u)
  BY <1>1, <1>3, <1>4 DEF Returning, Only
<1> QED
  BY <1>5, <1>6 DEF Fed, fs2

LEMMA ControlFeeds ==
  ASSUME NEW h, Before(h), Fed(blocks, cur, frames, unit), NEW k, NEW i, Control(k, i)
  PROVE  Feeds
<1> DEFINE f == frames[i]
           none == NoBlock
<1>1. /\ at \in Between /\ cur # NoBlock /\ cur' = none
      /\ i \in DOMAIN frames
  BY DEF Control, Statement, Between
<1>2. /\ blocks \in Seq(Block) /\ frames \in Seq(Frames) /\ cur \in DOMAIN blocks /\ cur \in Nat
      /\ f \in Frames /\ FrameOK(Len(blocks), f)
  BY <1>1, BeforeFacts
<1>3. CASE f.k = "do" /\ blocks' = blocks
            /\ frames' = IF k = "break" THEN [frames EXCEPT ![i].brk = <<cur>> \o @]
                                        ELSE [frames EXCEPT ![i].cont = <<cur>> \o @]
  <2> DEFINE s == <<cur>> \o f.brk
             t == <<cur>> \o f.cont
             g == IF k = "break" THEN [f EXCEPT !.brk = s] ELSE [f EXCEPT !.cont = t]
  <2>1. f.brk \in Seq(Nat) /\ f.cont \in Seq(Nat)
    BY <1>2, Zenon DEF Frames
  <2>2. /\ s \in Seq(Nat) /\ \A b : b \in Blocks(s) <=> b = cur \/ b \in Blocks(f.brk)
        /\ t \in Seq(Nat) /\ \A b : b \in Blocks(t) <=> b = cur \/ b \in Blocks(f.cont)
    BY <1>2, <2>1, Prepend, Zenon
  <2>3. frames' = [frames EXCEPT ![i] = g]
    BY <1>1, <1>3, Zenon
  <2> HIDE DEF f, s, t
  <2>4. /\ g \in Frames /\ g.k = f.k /\ g.scope = f.scope /\ g.par = f.par /\ g.oth = f.oth
        /\ g.ctx = f.ctx /\ g.prev = f.prev
        /\ Blocks(g.brk) \subseteq Blocks(f.brk) \cup {cur}
        /\ Blocks(g.cont) \subseteq Blocks(f.cont) \cup {cur}
    <3>1. CASE k = "break"
      <4>1. g = [f EXCEPT !.brk = s] /\ g.brk = s /\ g.cont = f.cont
        BY <1>2, <3>1 DEF Frames
      <4>2. g \in Frames /\ g.k = f.k /\ g.scope = f.scope /\ g.par = f.par /\ g.oth = f.oth
            /\ g.ctx = f.ctx /\ g.prev = f.prev
        BY <1>2, <2>2, <4>1, Zenon DEF Frames
      <4> QED
        BY <2>2, <4>1, <4>2
    <3>2. CASE k # "break"
      <4>1. g = [f EXCEPT !.cont = t] /\ g.cont = t /\ g.brk = f.brk
        BY <1>2, <3>2 DEF Frames
      <4>2. g \in Frames /\ g.k = f.k /\ g.scope = f.scope /\ g.par = f.par /\ g.oth = f.oth
            /\ g.ctx = f.ctx /\ g.prev = f.prev
        BY <1>2, <2>2, <4>1, Zenon DEF Frames
      <4> QED
        BY <2>2, <4>1, <4>2
    <3> QED
      BY <3>1, <3>2
  <2> HIDE DEF g
  <2>5. Fed(blocks, none, [frames EXCEPT ![i] = g], unit)
    BY <1>1, <1>2, <1>3, <2>4, WaitsFed, Zenon DEF f
  <2> QED
    BY <1>1, <1>3, <2>3, <2>5, FedFeeds, Zenon
<1>4. CASE f.k = "wbody" /\ frames' = frames
            /\ blocks' = JoinBlocks(blocks, {cur}, IF k = "break" THEN f.post ELSE f.oth)
  <2> DEFINE d == IF k = "break" THEN f.post ELSE f.oth
             bs2 == JoinBlocks(blocks, {cur}, d)
  <2>1. d \in DOMAIN blocks /\ Suits(blocks[cur], blocks[d])
    <3>1. d \in {f.oth, f.post}
      OBVIOUS
    <3> HIDE DEF d
    <3> QED
      BY <1>1, <1>4, <3>1, CurrentSuits
  <2> HIDE DEF d
  <2>2. {cur} \in SUBSET DOMAIN blocks /\ \A b \in {cur} : Suits(blocks[b], blocks[d])
    BY <1>2, <2>1
  <2>3. Joins(blocks, bs2, {cur}, 0, unit)
    BY <1>2, <2>1, <2>2, PlainJoins DEF Fed
  <2> HIDE DEF bs2
  <2>4. /\ Above(frames, Len(frames), frames) /\ Len(frames) # Len(frames) + 1
        /\ Sources(none, frames, Len(frames)) = {} /\ Named(none, frames, Len(frames)) = {}
    BY <1>2, StayAbove DEF Only
  <2>5. Passes(blocks, cur, frames, scope, Len(frames), bs2, none, frames, unit)
    BY <2>3, <2>4 DEF Passes, Joins
  <2>6. \A b \in {cur} : Open(blocks, b)
    <3>1. Ready(blocks, cur, frames, at, h)
      BY DEF Before
    <3> QED
      BY <1>1, <3>1, CurReady
  <2> HIDE DEF none
  <2>7. Fed(bs2, none, frames, unit)
    BY <2>3, <2>5, <2>6, JoinsFed
  <2> QED
    BY <1>1, <1>4, <2>7, FedFeeds DEF bs2, d
<1> QED
  BY <1>3, <1>4 DEF Control, Produce

-----------------------------------------------------------------------------
(* return, the ternary, and calls.                                         *)

\* The topmost call is over, and generation goes on in block c2.
LEMMA LeaveMove ==
  ASSUME NEW h, Before(h), NEW u, Fed(blocks, cur, frames, u), frames # <<>>,
         NEW bs2, Grown(blocks, bs2, u),
         \A b \in DOMAIN blocks : ~Open(blocks, b) => bs2[b] = blocks[b],
         \A b \in DOMAIN bs2 : (b \in DOMAIN blocks => Open(blocks, b)) => Flow(bs2, b),
         NEW c2,
         \A b \in Only(c2) : Heir(blocks, bs2[b], Only(cur) \cup Rests(top), Len(top.scope)),
         u # "top" => \A b \in Only(c2) : b \in Only(cur) \cup Refers(top) \/ bs2[b].hasRet
  PROVE  Fed(bs2, c2, Below, u)
<1> DEFINE k == Len(frames) - 1
           fs2 == Below
<1>1. frames \in Seq(Frames) /\ top = frames[Len(frames)] /\ fs2 = SubSeq(frames, 1, k)
  BY BeforeFacts DEF Below
<1>2. /\ Len(frames) = k + 1 /\ frames[k + 1] = top
      /\ Up(frames, scope, k) = top.scope
      /\ Sources(cur, frames, k) = Only(cur) \cup Rests(top)
      /\ Named(cur, frames, k) = Only(cur) \cup Refers(top)
  BY <1>1, TopAbove, Zenon
<1>3. /\ Above(frames, k, fs2) /\ Len(fs2) # k + 1
      /\ Sources(c2, fs2, k) = Only(c2) /\ Named(c2, fs2, k) = Only(c2)
  BY <1>1, LeaveAbove
<1> HIDE DEF k, fs2
<1>4. Passes(blocks, cur, frames, scope, k, bs2, c2, fs2, u)
  BY <1>2, <1>3, Zenon DEF Passes
<1> QED
  BY <1>4, FedMove DEF fs2

LEMMA EndReturnFeeds ==
  ASSUME NEW h, Before(h), Fed(blocks, cur, frames, unit), Well, EndReturn
  PROVE  Feeds
<1> DEFINE args == <<LastInstruction(blocks[cur])>>
           x == ReturnTail(blocks[cur], args)
           bs == [blocks EXCEPT ![cur] = x]
           none == NoBlock
<1>1. /\ at = "value" /\ frames # <<>> /\ top.k = "return" /\ Done(Below, none, bs)
  BY DEF EndReturn, Returned, Waiting
<1>2. /\ cur \in DOMAIN blocks /\ cur # NoBlock /\ blocks \in Seq(Block)
      /\ Fields = DOMAIN blocks[cur]
  BY <1>1, ExprFacts
<1>3. Kin(x, blocks[cur]) /\ x.tail.type = "return"
  <2> DEFINE b == blocks[cur]
             r == Emit(b, "unwrap", <<0>>)
             t == [OpenTail EXCEPT !.type = "return", !.first = LastInstruction(r),
                                   !.args = <<0>> \o args]
  <2>1. x = [r EXCEPT !.tail = t]
    BY DEF ReturnTail
  <2>2. Fields = DOMAIN b
    BY <1>2
  <2>3. t.type = "return"
    BY DEF OpenTail
  <2> HIDE DEF b
  <2>4. Kin(r, b)
    BY <2>2, EmitKin
  <2>5. Fields = DOMAIN r
    BY <2>2, <2>4, KinFields
  <2> HIDE DEF t, r, x
  <2>6. Kin(x, r)
    BY <2>1, <2>5, TailKin
  <2>7. x.tail = t
    BY <2>1, <2>5 DEF Fields
  <2> QED
    BY <2>3, <2>4, <2>6, <2>7, KinTrans DEF b
<1> HIDE DEF x
<1>4. bs \in Seq(Block)
  BY <1>1, AfterFacts DEF Done, Produce
<1>5. bs = [blocks EXCEPT ![cur] = x]
  OBVIOUS
<1> HIDE DEF bs
<1>6. Keeps(blocks, bs) /\ DOMAIN bs = DOMAIN blocks
  BY <1>2, <1>3, <1>4, <1>5, PutKeeps, KeepsWhole, Zenon
<1>7. Fresher(blocks, bs, unit)
  BY <1>6 DEF Fresher
<1>8. Grown(blocks, bs, unit)
  BY <1>2, <1>6, <1>7, KeepsGrown DEF Fed
<1>9. Open(blocks, cur)
  BY <1>2, CurReady DEF Before
<1>10. \A b \in DOMAIN blocks : ~Open(blocks, b) => bs[b] = blocks[b]
  BY <1>2, <1>5, <1>9
<1>11. \A b \in DOMAIN bs : (b \in DOMAIN blocks => Open(blocks, b)) => Flow(bs, b)
  <2>1. Flow(bs, cur)
    <3>1. bs[cur].tail.type = "return"
      BY <1>2, <1>3, <1>5
    <3> QED
      BY <3>1, OpenFlow
  <2>2. \A b \in DOMAIN bs : b # cur => bs[b] = blocks[b] /\ b \in DOMAIN blocks
    BY <1>2, <1>5
  <2> QED
    BY <2>1, <2>2, OpenFlow DEF Open
<1>12. Only(none) = {}
  BY DEF Only
<1> HIDE DEF none
<1>13. Fed(bs, none, Below, unit)
  BY <1>1, <1>8, <1>10, <1>11, <1>12, LeaveMove
<1>14. Below \in Seq(Frames)
  BY <1>1, BeforeFacts, BelowFacts DEF Below
<1> QED
  BY <1>1, <1>13, <1>14, DoneFed, FedFeeds

LEMMA EndTernaryFeeds ==
  ASSUME NEW h, Before(h), Fed(blocks, cur, frames, unit), Well, EndTernary
  PROVE  Feeds
<1> DEFINE p == top.oth
           c == top.ctx
           nm == Lists(blocks)
           S == {p, cur}
           m == Len(top.scope)
           pushed == PushBoth(blocks, p, cur)
           ps == <<p, cur>>
           merged == TangleBlocks(pushed, c, ps)
           post == Len(merged)
           x == Mirror(PopStack(merged[post], 1), merged[post].stack[1])
           bs2 == blocks'
<1>1. /\ at = "value" /\ frames # <<>> /\ top.k = "tsecond"
      /\ frames' = Below /\ cur' = post
      /\ bs2 = [merged EXCEPT ![post] = x]
  BY DEF EndTernary, Returned, Waiting, Value, Produce, MergeBlocks, PushBoth
<1>2. cur # NoBlock /\ cur \in DOMAIN blocks /\ blocks \in Seq(Block) /\ Whole(blocks)
  BY <1>1, ExprFacts
<1>3. /\ top \in Frames /\ DOMAIN nm = DOMAIN blocks
      /\ top = frames[Len(frames)] /\ Len(frames) \in DOMAIN frames
      /\ FrameOK(Len(blocks), top) /\ Scene(nm, cur, frames, scope)
      /\ Settled(nm, cur, frames, scope, at) /\ bs2 \in Seq(Block)
      /\ nm \in Seq(Seq(Nat))
  BY <1>1, BeforeFacts, AfterFacts
<1>4. p # NoBlock /\ p \in DOMAIN blocks /\ c \in DOMAIN blocks
  BY <1>1, <1>2, <1>3 DEF FrameOK, NoBlock
<1>5. /\ p # cur /\ Fixed(top) = {c, p} /\ Rests(top) = {p} /\ c \in Refers(top)
      /\ Only(cur) = {cur} /\ S = Only(cur) \cup Rests(top)
  <2>1. Pending(top) = {p} /\ p # cur /\ Fixed(top) = {c, p}
    BY <1>1, <1>3, <1>4, PendingIs DEF Scene, Fixed
  <2> QED
    BY <1>1, <1>2, <2>1 DEF Rests, Refers, Only
<1>6. nm[c] = nm[cur] /\ nm[p] = nm[cur] /\ nm[cur] \in Seq(Nat)
  BY <1>1, <1>2, <1>3, <1>5 DEF Settled, Known
<1>7. Blocks(ps) = S /\ 1 \in DOMAIN ps
  <2>1. ps \in Seq({p, cur}) /\ Len(ps) = 2 /\ ps[1] = p /\ ps[2] = cur
    OBVIOUS
  <2> HIDE DEF ps
  <2>2. DOMAIN ps = {1, 2}
    BY <2>1, SMTT(30)
  <2> QED
    BY <2>1, <2>2 DEF Blocks
<1>8. \A b \in S : Open(blocks, b)
  BY <1>1, <1>5, TopOpen
<1>9. m \in Nat /\ m <= Len(blocks[c].syms)
  <2>1. top.scope = scope
    BY <1>1, TopScope DEF Body, Expr
  <2>2. Len(nm[cur]) = Len(blocks[cur].syms) /\ Len(nm[c]) = Len(blocks[c].syms)
    BY <1>2, <1>4, ListsType
  <2> QED
    BY <1>2, <1>6, <2>1, <2>2, CurrentLength
<1>10. S \subseteq DOMAIN blocks
  BY <1>2, <1>4
<1>11. Backs(blocks, c, ps) /\ (unit # "top" => blocks[c].hasRet)
  BY <1>1, <1>5, <1>7, TopBacks
<1> HIDE DEF p, c, ps, m, S
<1>12. Keeps(blocks, pushed) /\ Len(pushed) = Len(blocks) /\ pushed \in Seq(Block)
  BY <1>2, <1>4, <1>5, BothKeep
<1>13. \A b \in DOMAIN blocks : b \notin S => pushed[b] = blocks[b]
  BY <1>2 DEF PushBoth, S
<1> HIDE DEF pushed
<1>14. DOMAIN pushed = DOMAIN blocks /\ Whole(pushed) /\ More(nm, Lists(pushed))
  BY <1>2, <1>12, KeepsWhole, KeepsLists
<1>15. /\ Lists(pushed)[c] = nm[c] /\ Lists(pushed)[p] = nm[p] /\ Lists(pushed)[cur] = nm[cur]
       /\ Len(pushed[c].syms) = Len(nm[c]) /\ Len(blocks[c].syms) = Len(nm[c])
  <2>1. Lists(pushed)[c] = nm[c] /\ Lists(pushed)[p] = nm[p] /\ Lists(pushed)[cur] = nm[cur]
    BY <1>2, <1>3, <1>4, <1>14 DEF More
  <2>2. Len(nm[c]) = Len(blocks[c].syms)
    BY <1>2, <1>4, ListsType
  <2>3. c \in DOMAIN pushed
    BY <1>4, <1>14
  <2> HIDE DEF nm
  <2>4. Len(Lists(pushed)[c]) = Len(pushed[c].syms)
    BY <1>12, <2>3, ListsType
  <2> QED
    BY <2>1, <2>2, <2>4
<1>16. \A b \in DOMAIN blocks : pushed[b].hasRet = blocks[b].hasRet
  BY <1>12 DEF Keeps, Kin
<1>17. Fitting(pushed, c, ps) /\ Backs(pushed, c, ps)
  <2>1. Begins(nm[cur], nm[cur])
    BY <1>6, BeginsItself
  <2>2. Fitting(pushed, c, ps)
    BY <1>6, <1>7, <1>15, <2>1 DEF Fitting, S
  <2>3. Backs(pushed, c, ps)
    BY <1>4, <1>7, <1>10, <1>11, <1>16 DEF Backs
  <2> QED
    BY <2>2, <2>3
<1>18. Fresher(blocks, pushed, unit) /\ Grown(blocks, pushed, unit) /\ Sound(pushed, unit)
  <2>1. Fresher(blocks, pushed, unit)
    BY <1>14 DEF Fresher
  <2>2. Sound(blocks, unit)
    BY DEF Fed
  <2>3. Grown(blocks, pushed, unit)
    BY <1>2, <1>12, <2>1, <2>2, KeepsGrown
  <2> QED
    BY <2>1, <2>2, <2>3, GrownSound
<1>19. /\ Joins(pushed, merged, S, 1, unit) /\ Offspring(pushed, c, ps, merged[post])
       /\ post \in DOMAIN merged /\ post \notin DOMAIN blocks
  <2> DEFINE d == Len(pushed) + 1
             one == 1
  <2>1. c \in DOMAIN pushed /\ Blocks(ps) \subseteq DOMAIN pushed
    BY <1>4, <1>7, <1>10, <1>14
  <2>2. /\ Joins(pushed, merged, Blocks(ps), one, unit) /\ Offspring(pushed, c, ps, merged[d])
        /\ d \in DOMAIN merged /\ d \notin DOMAIN pushed
    BY <1>7, <1>12, <1>17, <1>18, <2>1, TangleJoins
  <2>3. Len(merged) = d /\ merged \in Seq(Block)
    <3>1. Len(merged) = Len(pushed) + one /\ merged \in Seq(Block)
      BY <2>2 DEF Joins, Effect
    <3> QED
      BY <3>1
  <2> HIDE DEF d, merged, one
  <2> QED
    BY <1>7, <1>14, <2>2, <2>3 DEF one
<1>20. Kin(x, merged[post])
  <2> DEFINE b == merged[post]
  <2>1. Fields = DOMAIN b
    BY <1>19, BlockFielded DEF Joins, Keeps
  <2> HIDE DEF b
  <2>2. Kin(PopStack(b, 1), b)
    BY <2>1, StackKin
  <2>3. Kin(Mirror(PopStack(b, 1), b.stack[1]), PopStack(b, 1))
    BY <2>1, <2>2, KinFields, MirrorKin
  <2> QED
    BY <2>2, <2>3, KinTrans DEF b
<1> HIDE DEF merged, x, post
<1>21. /\ Keeps(pushed, merged) /\ merged \in Seq(Block) /\ Effect(pushed, merged, S, 1)
       /\ \A b \in S : Flow(merged, b)
  BY <1>19 DEF Joins, Keeps
<1>22. Keeps(merged, bs2) /\ Len(bs2) = Len(merged) /\ DOMAIN bs2 = DOMAIN merged
  BY <1>1, <1>3, <1>19, <1>20, <1>21, PutKeeps, KeepsWhole, Zenon
<1>23. \A b \in DOMAIN bs2 : b # post => bs2[b] = merged[b]
  BY <1>1, <1>22
<1>24. bs2[post] = x
  BY <1>1, <1>19
<1>25. Open(bs2, post)
  BY <1>1, <1>19, <1>21, CurOpen DEF NoBlock
<1>26. \A b \in DOMAIN blocks : ~Open(blocks, b) => bs2[b] = blocks[b]
  BY DEF Well, EndsWell
<1> HIDE DEF bs2
<1>27. Keeps(blocks, bs2)
  BY <1>2, <1>12, <1>21, <1>22, KeepsTrans
<1>28. Offspring(pushed, c, ps, x)
  BY <1>19, <1>20, OffspringKin
<1>29. Grown(blocks, bs2, unit)
  <2>1. x.par.live \subseteq With(x.syms) /\ (x.hasRet \/ x.par.ret => unit # "top")
    BY <1>4, <1>14, <1>18, <1>28, OffspringFresh
  <2>2. DOMAIN merged \ DOMAIN pushed = {post}
    BY <1>12, <1>14, <1>19, <1>21 DEF Effect
  <2>3. Fresher(blocks, bs2, unit)
    BY <1>14, <1>22, <1>24, <2>1, <2>2 DEF Fresher
  <2> QED
    BY <1>2, <1>27, <2>3, KeepsGrown DEF Fed
<1>30. \A b \in DOMAIN bs2 : (b \in DOMAIN blocks => Open(blocks, b)) => Flow(bs2, b)
  <2> SUFFICES ASSUME NEW b \in DOMAIN bs2, b \in DOMAIN blocks => Open(blocks, b)
               PROVE  Flow(bs2, b)
    OBVIOUS
  <2>1. CASE b \in S
    <3>1. b # post /\ bs2[b] = merged[b] /\ Flow(merged, b)
      BY <1>10, <1>19, <1>21, <1>23, <2>1
    <3> QED
      BY <1>21, <1>22, <3>1, FlowKeeps
  <2>2. CASE b = post
    BY <1>25, <2>2, OpenFlow DEF Open
  <2>3. CASE b \notin S /\ b # post
    <3>1. bs2[b] = merged[b] /\ b \in DOMAIN merged
      BY <1>22, <1>23, <2>3
    <3>2. CASE b \in DOMAIN blocks
      <4>1. merged[b] = pushed[b] /\ pushed[b] = blocks[b]
        BY <1>13, <1>14, <1>21, <2>3, <3>2 DEF Effect
      <4> QED
        BY <3>1, <3>2, <4>1, OpenFlow DEF Open
    <3>3. CASE b \notin DOMAIN blocks
      <4>1. merged[b].tail.type = "open"
        BY <1>14, <1>21, <3>1, <3>3 DEF Effect
      <4> QED
        BY <3>1, <4>1, OpenFlow
    <3> QED
      BY <3>2, <3>3
  <2> QED
    BY <2>1, <2>2, <2>3
<1>31. Only(post) = {post}
  BY <1>19, <1>21 DEF Only, NoBlock
<1>32. Heir(blocks, bs2[post], S, m)
  <2>1. c \in DOMAIN pushed /\ m <= Len(pushed[c].syms) /\ Blocks(ps) \subseteq S
    BY <1>4, <1>7, <1>9, <1>14, <1>15
  <2>2. Heir(pushed, x, S, m)
    BY <1>9, <1>12, <1>28, <2>1, OffspringHeir
  <2> QED
    BY <1>10, <1>18, <1>24, <2>2, HeirBack
<1>33. unit # "top" => bs2[post].hasRet
  BY <1>4, <1>11, <1>16, <1>24, <1>28 DEF Offspring
<1>34. \A b \in Only(post) : Heir(blocks, bs2[b], Only(cur) \cup Rests(top), Len(top.scope))
  BY <1>5, <1>31, <1>32 DEF m
<1>35. Fed(bs2, post, Below, unit)
  BY <1>1, <1>26, <1>29, <1>30, <1>31, <1>33, <1>34, LeaveMove, Zenon
<1> QED
  BY <1>1, <1>35, FedFeeds DEF bs2

LEMMA GrownTrans ==
  ASSUME NEW bs \in Seq(Block), NEW bs1, NEW bs2, NEW u, Sound(bs, u),
         Grown(bs, bs1, u), Grown(bs1, bs2, u)
  PROVE  Grown(bs, bs2, u)
<1>1. /\ bs1 \in Seq(Block) /\ bs2 \in Seq(Block) /\ Len(bs) <= Len(bs1) /\ Len(bs1) <= Len(bs2)
  BY DEF Grown
<1>2. /\ DOMAIN bs \subseteq DOMAIN bs1 /\ Len(bs) <= Len(bs2)
      /\ DOMAIN bs1 \subseteq DOMAIN bs2
  BY <1>1
<1>3. ASSUME NEW b \in DOMAIN bs
      PROVE  /\ bs2[b].par = bs[b].par /\ bs2[b].accRet = bs[b].accRet
             /\ With(bs[b].syms) \subseteq With(bs2[b].syms)
             /\ Begins(Lists(bs)[b], Lists(bs2)[b])
             /\ bs[b].hasRet => bs2[b].hasRet
             /\ bs2[b].hasRet => u # "top"
  <2>1. b \in DOMAIN bs1
    BY <1>2
  <2>2. Begins(Lists(bs)[b], Lists(bs1)[b]) /\ Begins(Lists(bs1)[b], Lists(bs2)[b])
    BY <2>1 DEF Grown
  <2>3. Lists(bs)[b] \in Seq(Nat) /\ Lists(bs1)[b] \in Seq(Nat) /\ Lists(bs2)[b] \in Seq(Nat)
    <3>1. b \in DOMAIN bs2
      BY <1>2, <2>1
    <3>2. /\ Lists(bs) \in Seq(Seq(Nat)) /\ Lists(bs1) \in Seq(Seq(Nat)) /\ Lists(bs2) \in Seq(Seq(Nat))
          /\ DOMAIN Lists(bs) = DOMAIN bs /\ DOMAIN Lists(bs1) = DOMAIN bs1
          /\ DOMAIN Lists(bs2) = DOMAIN bs2
      BY <1>1, ListsType
    <3> QED
      BY <2>1, <3>1, <3>2
  <2>4. Begins(Lists(bs)[b], Lists(bs2)[b])
    BY <2>2, <2>3, BeginsTrans
  <2> QED
    BY <2>1, <2>4, Zenon DEF Grown
<1>4. ASSUME NEW b \in DOMAIN bs2 \ DOMAIN bs
      PROVE  bs2[b].par.live \subseteq With(bs2[b].syms) /\ (bs2[b].hasRet \/ bs2[b].par.ret => u # "top")
  <2>1. CASE b \in DOMAIN bs1
    BY <1>4, <2>1, Zenon DEF Grown
  <2>2. CASE b \notin DOMAIN bs1
    BY <1>4, <2>2 DEF Grown
  <2> QED
    BY <2>1, <2>2
<1> QED
  BY <1>1, <1>2, <1>3, <1>4, Zenon DEF Grown

\* The block a call goes on in gets all the caller had.
LEMMA InvokeGrown ==
  ASSUME NEW bs \in Seq(Block), NEW p, NEW r, NEW n, NEW nonvoid, NEW bs2,
         Invokes(bs, p, r, n, nonvoid, bs2), NEW u, Sound(bs, u), u # "top" => bs[p].hasRet
  PROVE  /\ Grown(bs, bs2, u) /\ bs2[p].tail.type = "call" /\ DOMAIN bs2 = DOMAIN bs
         /\ With(bs[p].syms) \subseteq With(bs2[r].syms) /\ (u # "top" => bs2[r].hasRet)
         /\ \A b \in DOMAIN bs : b # p /\ b # r => bs2[b] = bs[b]
<1>0. p \in DOMAIN bs /\ r \in DOMAIN bs /\ p # r /\ bs2 \in Seq(Block) /\ DOMAIN bs[r].syms = {}
      /\ n \in Nat /\ n + 1 <= Len(bs[p].stack) /\ bs2 = Invoke(bs, p, r, n, nonvoid)
  BY DEF Invokes
<1>1. PICK x, y : /\ bs2 = [bs EXCEPT ![p] = x, ![r] = y]
                  /\ Kin(x, bs[p])
                  /\ Names(y.syms) = Names(bs[p].syms) /\ With(bs[p].syms) \subseteq With(y.syms)
                  /\ y.par = bs[r].par /\ y.accRet = bs[r].accRet /\ y.made = bs[r].made
                  /\ bs[p].hasRet => y.hasRet
                  /\ y.hasRet => bs[p].hasRet \/ bs[r].hasRet
                  /\ x.tail.type = "call"
  <2>1. Invoked(bs, p, r, bs2)
    BY <1>0, InvokeNames, Zenon
  <2> QED
    BY <2>1, Zenon DEF Invoked
<1>2. DOMAIN bs2 = DOMAIN bs
  BY <1>1
<1>3. bs2[p] = x /\ bs2[r] = y /\ \A b \in DOMAIN bs : b # p /\ b # r => bs2[b] = bs[b]
  BY <1>0, <1>1
<1>4. Lists(bs) \in Seq(Seq(Nat)) /\ DOMAIN Lists(bs) = DOMAIN bs
      /\ Lists(bs2) \in Seq(Seq(Nat)) /\ DOMAIN Lists(bs2) = DOMAIN bs
      /\ Lists(bs)[r] = <<>>
  <2>1. DOMAIN Names(bs[r].syms) = {} /\ Names(bs[r].syms) \in Seq(Nat)
    BY <1>0, ListsType, Zenon
  <2>2. Names(bs[r].syms) = <<>>
    BY <2>1
  <2> QED
    BY <1>0, <1>2, <2>2, ListsType
<1>5. \A b \in DOMAIN bs : Begins(Lists(bs)[b], Lists(bs2)[b])
  <2> SUFFICES ASSUME NEW b \in DOMAIN bs
               PROVE  Begins(Lists(bs)[b], Lists(bs2)[b])
    OBVIOUS
  <2>1. Lists(bs)[b] \in Seq(Nat) /\ Lists(bs2)[b] \in Seq(Nat)
    BY <1>4
  <2>2. CASE b = r
    <3> DEFINE t == Lists(bs2)[b]
    <3>1. t \in Seq(Nat)
      BY <2>1
    <3> HIDE DEF t
    <3>2. Begins(<<>>, t)
      BY <3>1 DEF Begins
    <3> QED
      BY <1>4, <2>2, <3>2 DEF t
  <2>3. CASE b # r
    <3>1. Lists(bs2)[b] = Lists(bs)[b]
      BY <1>0, <1>1, <1>2, <1>3, <2>3, Zenon DEF Lists, Kin
    <3> QED
      BY <2>1, <3>1, BeginsItself
  <2> QED
    BY <2>2, <2>3
<1>6. With(bs[r].syms) = {}
  BY <1>0 DEF With
<1>7. Len(bs) <= Len(bs2)
  BY <1>0, <1>2
<1>8. \A b \in DOMAIN bs : bs[b].hasRet => u # "top"
  BY DEF Sound
<1>9. ASSUME NEW b \in DOMAIN bs
      PROVE  /\ bs2[b].par = bs[b].par /\ bs2[b].accRet = bs[b].accRet
             /\ With(bs[b].syms) \subseteq With(bs2[b].syms)
             /\ bs[b].hasRet => bs2[b].hasRet
             /\ bs2[b].hasRet => u # "top"
  <2>1. CASE b = p
    BY <1>0, <1>1, <1>3, <1>8, <2>1 DEF Kin
  <2>2. CASE b = r
    BY <1>0, <1>1, <1>3, <1>6, <1>8, <2>2
  <2>3. CASE b # p /\ b # r
    BY <1>3, <1>8, <2>3
  <2> QED
    BY <2>1, <2>2, <2>3
<1>10. Grown(bs, bs2, u)
  BY <1>0, <1>2, <1>5, <1>7, <1>9, Zenon DEF Grown
<1> QED
  BY <1>0, <1>1, <1>2, <1>3, <1>10

\* The call itself: generation goes on in its return block.
LEMMA InvokeFed ==
  ASSUME NEW h, Before(h), NEW u, Fed(blocks, cur, frames, u), Well, cur # NoBlock,
         NEW bs, Grown(blocks, bs, u), \A b \in DOMAIN blocks : b # cur => bs[b] = blocks[b],
         NEW r, r = cur', r # NoBlock, \A b \in DOMAIN bs \ DOMAIN blocks : b = r,
         NEW n, NEW nonvoid, Invokes(bs, cur, r, n, nonvoid, blocks'),
         NEW k, NEW fs2, Above(frames, k, fs2), Len(fs2) # k + 1, cur \in Sources(cur, frames, k),
         Sources(r, fs2, k) = {r}, Named(r, fs2, k) = {r}
  PROVE  Fed(blocks', r, fs2, u)
<1> DEFINE bs2 == blocks'
           S == Sources(cur, frames, k)
           m == Len(Up(frames, scope, k))
<1>1. bs \in Seq(Block) /\ blocks \in Seq(Block) /\ cur \in DOMAIN blocks /\ DOMAIN blocks \subseteq DOMAIN bs
  <2>1. bs \in Seq(Block) /\ blocks \in Seq(Block) /\ Len(blocks) <= Len(bs)
    BY BeforeFacts DEF Grown
  <2> QED
    BY <2>1, BeforeFacts
<1>2. Sound(blocks, u) /\ Sound(bs, u)
  BY GrownSound DEF Fed
<1>3. u # "top" => bs[cur].hasRet
  BY <1>1 DEF Fed, Returning, Grown
<1>4. /\ Grown(bs, bs2, u) /\ bs2[cur].tail.type = "call" /\ DOMAIN bs2 = DOMAIN bs
      /\ With(bs[cur].syms) \subseteq With(bs2[r].syms) /\ (u # "top" => bs2[r].hasRet)
      /\ \A b \in DOMAIN bs : b # cur /\ b # r => bs2[b] = bs[b]
  BY <1>1, <1>2, <1>3, InvokeGrown
<1>5. Grown(blocks, bs2, u)
  BY <1>1, <1>2, <1>4, GrownTrans
<1>6. \A b \in DOMAIN blocks : ~Open(blocks, b) => bs2[b] = blocks[b]
  BY DEF Well, EndsWell
<1>7. Open(bs2, r)
  BY CurOpen
<1> HIDE DEF bs2
<1>8. \A b \in DOMAIN bs2 : (b \in DOMAIN blocks => Open(blocks, b)) => Flow(bs2, b)
  <2> SUFFICES ASSUME NEW b \in DOMAIN bs2, b \in DOMAIN blocks => Open(blocks, b)
               PROVE  Flow(bs2, b)
    OBVIOUS
  <2>1. CASE b = cur
    <3>1. bs2[b].tail.type \notin {"goto", "branch"}
      BY <1>4, <2>1
    <3> QED
      BY <3>1, OpenFlow
  <2>2. CASE b = r
    BY <1>7, <2>2, OpenFlow DEF Open
  <2>3. CASE b # cur /\ b # r
    <3>1. b \in DOMAIN blocks /\ bs2[b] = blocks[b]
      BY <1>4, <2>3
    <3> QED
      BY <3>1, OpenFlow DEF Open
  <2> QED
    BY <2>1, <2>2, <2>3
<1>9. Heir(blocks, bs2[r], S, m)
  <2>1. With(blocks[cur].syms) \subseteq With(bs2[r].syms)
    BY <1>1, <1>4, Zenon DEF Grown
  <2>2. cur \in S
    OBVIOUS
  <2> HIDE DEF S, m
  <2> QED
    BY <2>1, <2>2 DEF Heir, Carried
<1>10. Passes(blocks, cur, frames, scope, k, bs2, r, fs2, u)
  BY <1>4, <1>5, <1>9 DEF Passes
<1>11. Fed(bs2, r, fs2, u)
  BY <1>6, <1>8, <1>10, FedMove
<1> QED
  BY <1>11 DEF bs2

\* The return block is made before the operands.
LEMMA CalledGrown ==
  ASSUME NEW bs \in Seq(Block), NEW m \in Nat, Whole(bs), NEW u, Sound(bs, u)
  PROVE  LET bs2 == Append(bs, [EmptyBlock EXCEPT !.par.extra = m])
             r == Len(bs) + 1
         IN /\ Grown(bs, bs2, u) /\ DOMAIN bs2 = DOMAIN bs \cup {r}
            /\ bs2[r].tail.type = "open"
            /\ \A b \in DOMAIN bs : bs2[b] = bs[b]
<1> DEFINE new == [EmptyBlock EXCEPT !.par.extra = m]
           bs2 == Append(bs, new)
           r == Len(bs) + 1
<1>1. /\ Keeps(bs, bs2) /\ Len(bs2) = r /\ bs2 \in Seq(Block) /\ DOMAIN bs2[r].syms = {}
  <2>1. /\ Keeps(bs, bs2) /\ Len(bs2) = r /\ Whole(bs2)
        /\ r \in DOMAIN bs2 /\ r \notin DOMAIN bs
        /\ DOMAIN bs2[r].syms = {} /\ Lists(bs2)[r] = <<>>
    BY ONLY bs \in Seq(Block), m \in Nat, Whole(bs), CalledKeeps
  <2> HIDE DEF bs2
  <2> QED
    BY <2>1 DEF Keeps
<1>2. new.par.live = {} /\ ~new.par.ret /\ ~new.hasRet /\ new.tail.type = "open"
  BY DEF EmptyBlock, NoParams, OpenTail
<1> HIDE DEF new
<1>3. bs2[r] = new /\ \A b \in DOMAIN bs : bs2[b] = bs[b]
  OBVIOUS
<1> HIDE DEF bs2
<1>4. DOMAIN bs2 = DOMAIN bs \cup {r} /\ Len(bs) \in Nat
  BY <1>1
<1>5. Fresher(bs, bs2, u)
  BY <1>2, <1>3, <1>4 DEF Fresher
<1>6. Grown(bs, bs2, u)
  BY <1>1, <1>5, KeepsGrown
<1> QED
  BY <1>2, <1>3, <1>4, <1>6, Zenon DEF bs2, new

LEMMA CallFeeds ==
  ASSUME NEW h, Before(h), Fed(blocks, cur, frames, unit), Well,
         NEW n \in Nat, NEW nonvoid \in BOOLEAN, Call(n, nonvoid)
  PROVE  Feeds
<1> DEFINE r == Len(blocks) + 1
           m == IF nonvoid THEN 2 ELSE 1
           bs == Append(blocks, [EmptyBlock EXCEPT !.par.extra = m])
           g == [Frame("call") EXCEPT !.oth = r, !.n = n + 1, !.post = n, !.done = nonvoid]
           F == Frame("call")
<1>1. at = "expr" /\ Enter(g) /\ cur' = cur /\ blocks' = bs
  BY DEF Call, Expression, Produce
<1>2. cur # NoBlock /\ cur \in DOMAIN blocks /\ blocks \in Seq(Block) /\ Whole(blocks)
      /\ frames \in Seq(Frames)
  BY <1>1, ExprFacts, BeforeFacts
<1>3. m \in Nat
  OBVIOUS
<1> HIDE DEF m
<1>4. /\ Grown(blocks, bs, unit) /\ DOMAIN bs = DOMAIN blocks \cup {r}
      /\ bs[r].tail.type = "open"
      /\ \A b \in DOMAIN blocks : bs[b] = blocks[b]
  BY <1>2, <1>3, CalledGrown, Zenon DEF Fed
<1>5. r \in Nat /\ n + 1 \in Nat
  BY <1>2
<1> HIDE DEF bs
<1>6. Frame("call") \in Frames
  BY FrameScope DEF FrameKinds
<1> HIDE DEF F, r
<1>7. g \in Frames /\ g.k = "call"
  <2>1. F \in Frames /\ F.k = "call"
    BY <1>6 DEF F, Frame
  <2> DEFINE o == n + 1
  <2>2. o \in Nat
    BY <1>5
  <2> HIDE DEF o
  <2>3. g = [F EXCEPT !.oth = r, !.n = o, !.post = n, !.done = nonvoid]
    BY DEF F, o
  <2> QED
    BY <1>5, <2>1, <2>2, <2>3, Zenon DEF Frames
<1> HIDE DEF g
<1> DEFINE fs2 == Append(frames, g)
<1>8. Mildly(fs2)
  BY <1>7 DEF Mildly, Mild
<1> HIDE DEF fs2
<1>9. PICK k : Passes(blocks, cur, frames, scope, k, bs, cur, fs2, unit)
  BY <1>2, <1>4, <1>8, MildPasses
<1>10. \A b \in DOMAIN blocks : ~Open(blocks, b) => bs[b] = blocks[b]
  BY <1>4
<1>11. \A b \in DOMAIN bs : (b \in DOMAIN blocks => Open(blocks, b)) => Flow(bs, b)
  <2> SUFFICES ASSUME NEW b \in DOMAIN bs, b \in DOMAIN blocks => Open(blocks, b)
               PROVE  Flow(bs, b)
    OBVIOUS
  <2>1. bs[b].tail.type = "open"
    BY <1>4 DEF Open
  <2> QED
    BY <2>1, OpenFlow
<1>12. Fed(bs, cur, fs2, unit)
  BY <1>9, <1>10, <1>11, FedMove
<1> QED
  BY <1>1, <1>12, FedFeeds DEF Enter, fs2

LEMMA EndArgumentFeeds ==
  ASSUME NEW h, Before(h), Fed(blocks, cur, frames, unit), Well, EndArgument
  PROVE  Feeds
<1> DEFINE x == PushStack(blocks[cur])
           bs == [blocks EXCEPT ![cur] = x]
           n == top.post
           nonvoid == top.done
           r == top.oth
<1>1. /\ at = "value" /\ frames # <<>> /\ top.k = "call" /\ scope' = scope
      /\ IF top.n > 1 THEN /\ Replace([top EXCEPT !.n = top.n - 1])
                           /\ at' = "expr" /\ cur' = cur /\ blocks' = bs
         ELSE frames' = Below /\ cur' = r /\ blocks' = Invoke(bs, cur, r, n, nonvoid)
  <2>1. Returned("call") /\ scope' = scope
    BY DEF EndArgument
  <2>2. IF top.n > 1 THEN /\ Replace([top EXCEPT !.n = top.n - 1])
                          /\ at' = "expr" /\ cur' = cur /\ blocks' = bs
        ELSE frames' = Below /\ cur' = r /\ blocks' = Invoke(bs, cur, r, n, nonvoid)
    BY DEF EndArgument, Value, Produce
  <2> QED
    BY <2>1, <2>2 DEF Returned, Waiting
<1>2. CASE top.n > 1
  <2>1. Calm
    BY <1>1, <1>2, MoreFits
  <2> QED
    BY <2>1, CalmFeeds
<1>3. CASE ~(top.n > 1)
  <2>1. /\ cur # NoBlock /\ cur \in DOMAIN blocks /\ blocks \in Seq(Block) /\ Whole(blocks)
        /\ Fields = DOMAIN blocks[cur] /\ blocks[cur] \in Block
    BY <1>1, ExprFacts
  <2>2. /\ top \in Frames /\ FrameOK(Len(blocks), top)
        /\ h[Len(frames) - 1] \in Nat
        /\ Len(blocks[cur].stack) = h[Len(frames) - 1] + Pushed(top)
    BY <1>1, TopFacts DEF Before
  <2>3. n \in Nat /\ top.n \in Nat /\ top.n \in 1 .. n + 1
    BY <1>1, <2>2 DEF Frames, FrameOK
  <2>4. Pushed(top) = n
    BY <1>1, <1>3, <2>3 DEF Pushed
  <2>5. Kin(x, blocks[cur]) /\ x \in Block /\ Len(x.stack) = Len(blocks[cur].stack) + 1
    BY <2>1, StackKin, PushFills DEF Fills
  <2>6. n + 1 <= Len(x.stack)
    BY <2>2, <2>3, <2>4, <2>5
  <2>7. r \in DOMAIN blocks /\ r # NoBlock /\ r # cur /\ DOMAIN blocks[r].syms = {}
    <3>1. r \in DOMAIN blocks /\ r # NoBlock
      BY <1>1, <2>1, <2>2 DEF FrameOK, NoBlock
    <3>2. Pending(top) = {r}
      BY <1>1, <3>1, PendingIs
    <3>3. r # cur
      BY <1>1, <3>2, BeforeFacts DEF Scene
    <3>4. Lists(blocks)[r] = <<>>
      BY <1>1, BeforeFacts DEF Idle
    <3>5. Names(blocks[r].syms) = <<>>
      BY <2>1, <3>1, <3>4, ListsType, Zenon
    <3>6. DOMAIN blocks[r].syms = {}
      BY <3>5 DEF Names
    <3> QED
      BY <3>1, <3>3, <3>6
  <2> HIDE DEF x, r, n, nonvoid
  <2>8. bs \in Seq(Block) /\ Len(bs) = Len(blocks) /\ DOMAIN bs = DOMAIN blocks /\ bs[cur] = x
        /\ (\A b \in DOMAIN blocks : b # cur => bs[b] = blocks[b])
    BY <2>1, <2>5
  <2>9. bs = [blocks EXCEPT ![cur] = x]
    OBVIOUS
  <2> HIDE DEF bs
  <2>10. Keeps(blocks, bs) /\ Whole(bs)
    BY <2>1, <2>5, <2>8, <2>9, PutKeeps, KeepsWhole, Zenon
  <2>11. Fresher(blocks, bs, unit)
    BY <2>8 DEF Fresher
  <2>12. Grown(blocks, bs, unit)
    BY <2>1, <2>10, <2>11, KeepsGrown DEF Fed
  <2>13. frames' = Below /\ cur' = r /\ blocks' = Invoke(bs, cur, r, n, nonvoid)
    BY <1>1, <1>3 DEF r, bs, n, nonvoid
  <2>14. blocks' \in Seq(Block) /\ frames \in Seq(Frames)
    BY AfterFacts, BeforeFacts
  <2>15. Invokes(bs, cur, r, n, nonvoid, blocks')
    BY <2>1, <2>3, <2>6, <2>7, <2>8, <2>10, <2>13, <2>14 DEF Invokes
  <2> DEFINE k == Len(frames) - 1
             fs2 == Below
  <2>16. /\ Above(frames, k, fs2) /\ Len(fs2) # k + 1
         /\ Sources(r, fs2, k) = Only(r) /\ Named(r, fs2, k) = Only(r)
    BY <1>1, <2>14, LeaveAbove DEF Below
  <2>17. Sources(cur, frames, k) = Only(cur) \cup Rests(frames[Len(frames)])
    BY <1>1, <2>14, TopAbove, Zenon
  <2>18. cur \in Only(cur) /\ Only(r) = {r}
    BY <2>1, <2>7 DEF Only
  <2> HIDE DEF k, fs2
  <2>19. /\ cur \in Sources(cur, frames, k) /\ Sources(r, fs2, k) = {r} /\ Named(r, fs2, k) = {r}
         /\ \A b \in DOMAIN bs \ DOMAIN blocks : b = r
    BY <2>8, <2>16, <2>17, <2>18
  <2>20. Fed(blocks', r, fs2, unit)
    BY <2>1, <2>7, <2>8, <2>12, <2>13, <2>15, <2>16, <2>19, InvokeFed
  <2> QED
    BY <2>13, <2>20, FedFeeds DEF fs2
<1> QED
  BY <1>2, <1>3

-----------------------------------------------------------------------------
(* The invariant holds.                                                    *)

\* The end of the unit ends the block it is in.
LEMMA EndUnitFeeds ==
  ASSUME NEW h, Before(h), Fed(blocks, cur, frames, unit), blocks' \in Seq(Block), EndUnit
  PROVE  Feeds
<1>1. /\ blocks \in Seq(Block) /\ unit \in {"top", "void", "value"}
      /\ cur # NoBlock => /\ cur \in DOMAIN blocks /\ Fields = DOMAIN blocks[cur]
                          /\ Open(blocks, cur)
  BY BeforeFacts, CurReady, UnitsAssumption DEF Before, Types
<1>2. status' # "running"
  BY <1>1, Zenon DEF EndUnit
<1>3. CASE blocks' = blocks
  BY <1>2, <1>3, StoppedFeeds
<1>4. ASSUME cur # NoBlock, NEW x, Kin(x, blocks[cur]), x.tail.type \notin {"goto", "branch"},
             blocks' = [blocks EXCEPT ![cur] = x]
      PROVE  Feeds
  <2> DEFINE bs == blocks'
  <2>1. bs = [blocks EXCEPT ![cur] = x] /\ bs \in Seq(Block)
    BY <1>4
  <2> HIDE DEF bs
  <2>2. Keeps(blocks, bs) /\ DOMAIN bs = DOMAIN blocks
    BY <1>1, <1>4, <2>1, PutKeeps, KeepsWhole, Zenon
  <2>3. Fresher(blocks, bs, unit)
    BY <2>2 DEF Fresher
  <2>4. Grown(blocks, bs, unit)
    BY <1>1, <2>2, <2>3, KeepsGrown DEF Fed
  <2>5. bs[cur] = x /\ \A b \in DOMAIN blocks : b # cur => bs[b] = blocks[b]
    BY <1>1, <1>4, <2>1
  <2>6. \A b \in DOMAIN blocks : ~Open(blocks, b) => bs[b] = blocks[b]
    BY <1>1, <1>4, <2>5
  <2>7. \A b \in DOMAIN bs : (b \in DOMAIN blocks => Open(blocks, b)) => Flow(bs, b)
    <3> SUFFICES ASSUME NEW b \in DOMAIN bs, b \in DOMAIN blocks => Open(blocks, b)
                 PROVE  Flow(bs, b)
      OBVIOUS
    <3>1. bs[b].tail.type \notin {"goto", "branch"}
      BY <1>4, <2>2, <2>5 DEF Open
    <3> QED
      BY <3>1, OpenFlow
  <2>8. Sound(bs, unit) /\ Flows(bs)
    BY <1>1, <2>4, <2>6, <2>7, GrownSound, FlowsGrow DEF Fed
  <2> QED
    BY <1>2, <2>8 DEF Feeds, bs
<1>5. CASE cur # NoBlock /\ unit = "top"
  <2> DEFINE b == blocks[cur]
             x == [b EXCEPT !.final = TRUE]
  <2>1. Kin(x, b)
    BY <1>1, <1>5 DEF Kin, Fields
  <2>2. x.tail.type \notin {"goto", "branch"}
    BY <1>1, <1>5 DEF Fields, Open
  <2>3. blocks' = [blocks EXCEPT ![cur] = x]
    BY <1>1, <1>5 DEF EndUnit
  <2> HIDE DEF x
  <2> QED
    BY <1>4, <1>5, <2>1, <2>2, <2>3, Zenon
<1>6. CASE cur # NoBlock /\ unit = "void"
  <2> DEFINE none == <<>>
             b == blocks[cur]
             r == Emit(b, "unwrap", <<0>>)
             t == [OpenTail EXCEPT !.type = "return", !.first = LastInstruction(r),
                                   !.args = <<0>> \o none]
             x == ReturnTail(b, none)
  <2>1. x = [r EXCEPT !.tail = t]
    BY DEF ReturnTail
  <2>2. Fields = DOMAIN b
    BY <1>1, <1>6
  <2>3. t.type = "return"
    BY DEF OpenTail
  <2>4. blocks' = [blocks EXCEPT ![cur] = x]
    BY <1>1, <1>6 DEF EndUnit
  <2> HIDE DEF b
  <2>5. Kin(r, b)
    BY <2>2, EmitKin
  <2>6. Fields = DOMAIN r
    BY <2>2, <2>5, KinFields
  <2> HIDE DEF t, r, x
  <2>7. Kin(x, r)
    BY <2>1, <2>6, TailKin, Zenon
  <2>8. x.tail = t
    BY <2>1, <2>6 DEF Fields
  <2>9. Kin(x, blocks[cur]) /\ x.tail.type \notin {"goto", "branch"}
    BY <2>3, <2>5, <2>7, <2>8, KinTrans DEF b
  <2> QED
    BY <1>4, <1>6, <2>4, <2>9, Zenon
<1>7. CASE cur = NoBlock \/ unit = "value"
  <2>1. blocks' = blocks
    BY <1>1, <1>7, Zenon DEF EndUnit
  <2> QED
    BY <1>3, <2>1
<1> QED
  BY <1>1, <1>5, <1>6, <1>7

\* Before the first step.
LEMMA FedInit ==
  ASSUME Init
  PROVE  Fed(blocks, cur, frames, unit) /\ \A b \in DOMAIN blocks : blocks[b].tail.inject = "ok"
<1>1. PICK params \in 0 .. (IF unit = "top" THEN 0 ELSE MaxParams) :
        blocks = <<StartBlock(unit, params)>>
  BY DEF Init
<1>2. params \in Nat
  BY <1>1, BoundsAssumption
<1>3. cur = 1 /\ frames = <<>>
  BY DEF Init
<1> DEFINE b == StartBlock(unit, params)
<1>4. /\ b.tail = OpenTail /\ b.par.live \subseteq With(b.syms)
      /\ (b.hasRet \/ b.par.ret => unit # "top") /\ (unit # "top" => b.hasRet)
  <2>1. CASE unit = "top"
    BY <2>1 DEF StartBlock, EmptyBlock, NoParams
  <2>2. CASE unit # "top"
    <3>1. /\ b.tail = OpenTail /\ b.par.live = 1 .. params /\ b.hasRet
          /\ b.syms = [q \in 1 .. params |-> [s |-> q, ex |-> TRUE, ins |-> q]]
      BY <2>2 DEF StartBlock, EmptyBlock, NoParams
    <3>2. With(b.syms) = 1 .. params
      BY <3>1 DEF With
    <3> QED
      BY <2>2, <3>1, <3>2, Zenon
  <2> QED
    BY <2>1, <2>2
<1> HIDE DEF b
<1>5. DOMAIN blocks = {1} /\ blocks[1] = b
  BY <1>1 DEF b
<1>6. Sound(blocks, unit)
  BY <1>4, <1>5 DEF Sound
<1>7. OpenTail.type = "open" /\ OpenTail.inject = "ok"
  BY DEF OpenTail
<1>8. Flows(blocks)
  BY <1>4, <1>5, <1>7, OpenFlow DEF Flows
<1>9. DOMAIN frames = {}
  BY <1>3
<1>10. Laden(blocks, cur, frames) /\ Returning(blocks, cur, frames, unit)
  BY <1>3, <1>4, <1>5, <1>9 DEF Laden, Returning
<1> QED
  BY <1>4, <1>5, <1>6, <1>7, <1>8, <1>10 DEF Fed

\* No step but a crash leaves a tail that read a null pointer.
Plausible(bs) == \A b \in DOMAIN bs : bs[b].tail.inject # "null"

Checks == blocks' = blocks \/ status' = Verdict(blocks')

LEMMA ProduceChecks ==
  ASSUME NEW bs, Produce(bs)
  PROVE  Checks
BY DEF Produce, Checks

LEMMA DoneChecks ==
  ASSUME NEW fs, NEW c, NEW bs, Done(fs, c, bs)
  PROVE  Checks
BY ProduceChecks DEF Done

LEMMA ValueChecks ==
  ASSUME NEW c, NEW bs, Value(c, bs)
  PROVE  Checks
BY ProduceChecks DEF Value

LEMMA ClauseChecks ==
  ASSUME NEW fs, NEW kind, NEW more, NEW c, NEW bs, AfterClause(fs, kind, more, c, bs)
  PROVE  Checks
BY DoneChecks, ProduceChecks DEF AfterClause

LEMMA StatementChecks ==
  ASSUME AStatement
  PROVE  Checks
<1>1. ASSUME NEW more, DefineBare(more) PROVE Checks
  BY <1>1, ClauseChecks DEF DefineBare
<1>2. CASE DefineValue \/ Let \/ ExpressionStatement \/ If \/ Return
  BY <1>2, ProduceChecks DEF DefineValue, Let, ExpressionStatement, If, Return, Waits, Checks
<1>3. CASE Nested \/ While \/ DoWhile
  BY <1>3, ProduceChecks DEF Nested, While, DoWhile
<1>4. CASE DoWhileOnStaleLists
  BY <1>4 DEF DoWhileOnStaleLists, Checks
<1>5. ASSUME NEW k, NEW i, Control(k, i) PROVE Checks
  BY <1>5, ProduceChecks DEF Control, Checks
<1> QED
  BY <1>1, <1>2, <1>3, <1>4, <1>5 DEF AStatement

LEMMA ExpressionChecks ==
  ASSUME AnExpression
  PROVE  Checks
<1>1. CASE Literal
  BY <1>1, ValueChecks DEF Literal
<1>2. ASSUME NEW s, Get(s) \/ Set(s) PROVE Checks
  BY <1>2, ValueChecks DEF Get, Set, Operand, Checks
<1>7. ASSUME NEW s, Compound(s) PROVE Checks
  BY <1>7, ProduceChecks DEF Compound, Checks
<1>8. ASSUME NEW s, Postfix(s) PROVE Checks
  BY <1>8, ValueChecks DEF Postfix, Checks
<1>3. ASSUME NEW n, Linear(n) \/ SetElement(n) PROVE Checks
  BY <1>3, ProduceChecks DEF Linear, SetElement, Operand, Checks
<1>4. CASE InstanceOf \/ Ternary
  BY <1>4, ProduceChecks DEF InstanceOf, Ternary, Operand, Checks
<1>5. ASSUME NEW n, NEW postfix, UpdateElement(n, postfix) PROVE Checks
  BY <1>5, ProduceChecks DEF UpdateElement, Operand, Checks
<1>6. ASSUME NEW n, NEW nonvoid, Call(n, nonvoid) PROVE Checks
  BY <1>6, ValueChecks, ProduceChecks DEF Call
<1> QED
  BY <1>1, <1>2, <1>3, <1>4, <1>5, <1>6, <1>7, <1>8 DEF AnExpression

LEMMA ReturnsCheck ==
  ASSUME Returns
  PROVE  Checks
<1>1. ASSUME NEW more, EndDefine(more) \/ EndLet(more) PROVE Checks
  BY <1>1, ClauseChecks DEF EndDefine, EndLet, EndClause
<1>2. CASE EndExpression \/ EndReturn \/ EndThen \/ EndElse \/ EndNested
  BY <1>2, DoneChecks, ProduceChecks DEF EndExpression, EndReturn, EndThen, EndElse, EndNested, Checks
<1>3. CASE EndIfCondition \/ EndWhileCondition \/ EndWhile
  BY <1>3, DoneChecks, ProduceChecks DEF EndIfCondition, EndWhileCondition, EndWhile, Checks
<1>4. CASE EndDoBody
  BY <1>4, DoneChecks, ProduceChecks DEF EndDoBody, Checks
<1>5. CASE EndDoCondition
  BY <1>5, DoneChecks, ProduceChecks DEF EndDoCondition, Checks
<1>6. CASE EndSet \/ EndCompound \/ EndOperand \/ EndInstanceOf
  BY <1>6, ValueChecks, ProduceChecks DEF EndSet, EndCompound, EndOperand, EndInstanceOf, Checks
<1>7. CASE EndElement \/ EndTarget \/ EndUpdate
  BY <1>7, ValueChecks, ProduceChecks DEF EndElement, EndTarget, EndUpdate, Checks
<1>8. CASE EndTernaryCondition \/ EndTernaryFirst \/ EndTernary
  BY <1>8, ValueChecks, ProduceChecks DEF EndTernaryCondition, EndTernaryFirst, EndTernary, Checks
<1>9. CASE EndArgument
  BY <1>9, ValueChecks, ProduceChecks DEF EndArgument
<1> QED
  BY <1>1, <1>2, <1>3, <1>4, <1>5, <1>6, <1>7, <1>8, <1>9 DEF Returns

LEMMA StatementFeeds ==
  ASSUME NEW h, Before(h), Fed(blocks, cur, frames, unit), Outcome, AStatement
  PROVE  Feeds
<1>1. ASSUME blocks' = blocks, status' # "running" PROVE Feeds
  BY <1>1, StoppedFeeds
<1>2. ASSUME ~Well PROVE Feeds
  BY <1>1, <1>2 DEF Outcome
<1>3. ASSUME Well PROVE Feeds
  <2>1. ASSUME NEW more \in BOOLEAN, DefineBare(more) PROVE Feeds
    BY <1>3, <2>1, DefineBareFeeds
  <2>2. CASE DefineValue \/ Let \/ ExpressionStatement \/ If \/ Return
    BY <1>3, <2>2, WaitsFit, CalmFeeds
  <2>3. CASE Nested \/ While \/ DoWhile
    BY <2>3, ForksFeed
  <2>4. CASE DoWhileOnStaleLists
    BY <1>1, <2>4 DEF DoWhileOnStaleLists
  <2>5. ASSUME NEW k, NEW i, Control(k, i) PROVE Feeds
    BY <2>5, ControlFeeds
  <2> QED
    BY <2>1, <2>2, <2>3, <2>4, <2>5 DEF AStatement
<1> QED
  BY <1>2, <1>3

LEMMA ExpressionFeeds ==
  ASSUME NEW h, Before(h), Fed(blocks, cur, frames, unit), Outcome, AnExpression
  PROVE  Feeds
<1>1. ASSUME ~Well PROVE Feeds
  BY <1>1, StoppedFeeds DEF Outcome
<1>2. ASSUME Well PROVE Feeds
  <2>1. CASE Literal
    BY <1>2, <2>1, LiteralFits, CalmFeeds
  <2>2. CASE \E s \in Visible : Get(s) \/ Set(s) \/ Compound(s) \/ Postfix(s)
    <3>1. PICK s \in Visible : Get(s) \/ Set(s) \/ Compound(s) \/ Postfix(s)
      BY <2>2
    <3>2. s \in Nat
      BY VisibleNat DEF Before
    <3>3. CASE Set(s)
      BY <1>2, <3>3, OperandsFit, CalmFeeds
    <3>4. CASE Get(s) \/ Compound(s) \/ Postfix(s)
      BY <1>2, <3>2, <3>4, GetFits, CompoundFits, PostfixFits, CalmFeeds
    <3> QED
      BY <3>1, <3>3, <3>4
  <2>3. CASE \/ \E n \in 1 .. 2 : Linear(n)
             \/ InstanceOf \/ Ternary
             \/ \E n \in 2 .. 3 : SetElement(n)
             \/ \E n \in 1 .. 2, postfix \in BOOLEAN : UpdateElement(n, postfix)
    BY <1>2, <2>3, OperandsFit, CalmFeeds
  <2>4. CASE \E n \in 0 .. MaxArgs, nonvoid \in BOOLEAN : Call(n, nonvoid)
    BY <1>2, <2>4, CallFeeds, BoundsAssumption
  <2> QED
    BY <2>1, <2>2, <2>3, <2>4 DEF AnExpression
<1> QED
  BY <1>1, <1>2

LEMMA ReturnsFeed ==
  ASSUME NEW h, Before(h), Fed(blocks, cur, frames, unit), Outcome, Returns
  PROVE  Feeds
<1>1. ASSUME ~Well PROVE Feeds
  BY <1>1, StoppedFeeds DEF Outcome
<1>2. ASSUME Well PROVE Feeds
  <2>1. ASSUME NEW more \in BOOLEAN, EndDefine(more) \/ EndLet(more) PROVE Feeds
    <3>1. PICK k \in {"define", "let"}, mode \in Between : EndClause(k, mode, more)
      BY <2>1 DEF EndDefine, EndLet, Between
    <3> QED
      BY <1>2, <3>1, EndClauseFeeds
  <2>2. CASE EndExpression \/ EndReturn
    BY <1>2, <2>2, EndExpressionFeeds, EndReturnFeeds
  <2>3. CASE EndIfCondition \/ EndTernaryCondition \/ EndWhileCondition
    BY <2>3, ConditionsFeed
  <2>4. CASE EndThen \/ EndTernaryFirst
    BY <2>4, OthersFeed
  <2>5. CASE EndElse \/ EndNested \/ EndWhile
    BY <2>5, EndElseFeeds, EndNestedFeeds, EndWhileFeeds
  <2>6. CASE EndDoBody \/ EndDoCondition
    BY <2>6, EndDoBodyFeeds, EndDoConditionFeeds
  <2>7. CASE EndSet \/ EndCompound \/ EndOperand \/ EndInstanceOf
    BY <1>2, <2>7, EndSetFits, EndCompoundFits, EndOperandFits, EndInstanceOfFits, CalmFeeds
  <2>8. CASE EndElement \/ EndTarget \/ EndUpdate
    BY <1>2, <2>8, EndElementFits, EndTargetFits, EndUpdateFits, CalmFeeds
  <2>9. CASE EndTernary
    BY <1>2, <2>9, EndTernaryFeeds
  <2>10. CASE EndArgument
    BY <1>2, <2>10, EndArgumentFeeds
  <2> QED
    BY <2>1, <2>2, <2>3, <2>4, <2>5, <2>6, <2>7, <2>8, <2>9, <2>10 DEF Returns
<1> QED
  BY <1>1, <1>2

\* Every step is of one unit.
LEMMA UnitStays ==
  ASSUME Next
  PROVE  unit' = unit
<1>1. CASE AStatement
  BY <1>1, Zenon DEF AStatement, DefineBare, DefineValue, Let, ExpressionStatement, If, Return,
     Waits, Nested, While, DoWhile, DoWhileOnStaleLists, Control
<1>2. CASE AnExpression
  <2>1. ASSUME NEW s, Get(s) \/ Set(s) \/ Compound(s) \/ Postfix(s) PROVE unit' = unit
    BY <2>1 DEF Get, Set, Compound, Postfix, Operand
  <2>2. CASE Literal \/ InstanceOf \/ Ternary
    BY <2>2 DEF Literal, InstanceOf, Ternary, Operand
  <2>3. ASSUME NEW n, Linear(n) \/ SetElement(n) PROVE unit' = unit
    BY <2>3 DEF Linear, SetElement, Operand
  <2>4. ASSUME NEW n, NEW postfix, UpdateElement(n, postfix) PROVE unit' = unit
    BY <2>4 DEF UpdateElement, Operand
  <2>5. ASSUME NEW n, NEW nonvoid, Call(n, nonvoid) PROVE unit' = unit
    BY <2>5 DEF Call
  <2> QED
    BY <1>2, <2>1, <2>2, <2>3, <2>4, <2>5 DEF AnExpression
<1>3. CASE AnEnd
  <2>1. ASSUME NEW more, EndDefine(more) \/ EndLet(more) PROVE unit' = unit
    BY <2>1, Zenon DEF EndDefine, EndLet, EndClause
  <2>2. CASE EndExpression \/ EndReturn \/ EndIfCondition \/ EndThen \/ EndElse \/ EndNested
    BY <2>2, Zenon DEF EndExpression, EndReturn, EndIfCondition, EndThen, EndElse, EndNested,
       EndsBody
  <2>3. CASE EndWhileCondition \/ EndWhile \/ EndDoBody \/ EndDoCondition
    BY <2>3, Zenon DEF EndWhileCondition, EndWhile, EndDoBody, EndDoCondition, EndsBody
  <2>4. CASE EndSet \/ EndCompound \/ EndOperand \/ EndInstanceOf
    BY <2>4 DEF EndSet, EndCompound, EndOperand, EndInstanceOf
  <2>5. CASE EndElement \/ EndTarget \/ EndUpdate
    BY <2>5 DEF EndElement, EndTarget, EndUpdate
  <2>6. CASE EndTernaryCondition \/ EndTernaryFirst \/ EndTernary
    BY <2>6 DEF EndTernaryCondition, EndTernaryFirst, EndTernary
  <2>7. CASE EndArgument \/ EndUnit
    BY <2>7, Zenon DEF EndArgument, EndUnit
  <2> QED
    BY <1>3, <2>1, <2>2, <2>3, <2>4, <2>5, <2>6, <2>7 DEF AnEnd
<1>4. CASE HeapBroken \/ Over
  BY <1>4 DEF HeapBroken, Stop, Over, vars
<1> QED
  BY <1>1, <1>2, <1>3, <1>4 DEF Next

Supplied ==
  /\ Agreed
  /\ Sound(blocks, unit) /\ Flows(blocks)
  /\ status # "crashed" => Plausible(blocks)
  /\ status = "running" => Laden(blocks, cur, frames) /\ Returning(blocks, cur, frames, unit)

LEMMA SuppliedInit ==
  ASSUME Init
  PROVE  Supplied
<1>1. \A b \in DOMAIN blocks : blocks[b].tail.inject # "null"
  BY FedInit
<1> QED
  BY <1>1, AgreedInit, FedInit DEF Supplied, Plausible, Fed

\* EndUnit's return has nothing of the kind.
LEMMA UnitPlausible ==
  ASSUME blocks \in Seq(Block), cur \in 0 .. Len(blocks), unit \in Units, EndUnit, Plausible(blocks)
  PROVE  Plausible(blocks')
<1>1. unit \in {"top", "void", "value"} /\ (cur # NoBlock => cur \in DOMAIN blocks)
  BY UnitsAssumption DEF NoBlock
<1>2. CASE cur = NoBlock \/ unit = "value"
  BY <1>1, <1>2, Zenon DEF EndUnit, Plausible
<1>3. CASE cur # NoBlock /\ unit = "top"
  <2> DEFINE x == [blocks[cur] EXCEPT !.final = TRUE]
  <2>1. x.tail = blocks[cur].tail
    BY <1>1, <1>3 DEF Block
  <2>2. blocks' = [blocks EXCEPT ![cur] = x]
    BY <1>1, <1>3 DEF EndUnit
  <2> HIDE DEF x
  <2> QED
    BY <1>1, <1>3, <2>1, <2>2 DEF Plausible
<1>4. CASE cur # NoBlock /\ unit = "void"
  <2> DEFINE none == <<>>
             b == blocks[cur]
             r == Emit(b, "unwrap", <<0>>)
             t == [OpenTail EXCEPT !.type = "return", !.first = LastInstruction(r),
                                   !.args = <<0>> \o none]
             x == ReturnTail(b, none)
  <2>1. x = [r EXCEPT !.tail = t] /\ t.inject = "ok"
    BY DEF ReturnTail, OpenTail
  <2>2. blocks' = [blocks EXCEPT ![cur] = x] /\ Fields = DOMAIN b
    BY <1>1, <1>4, BlockFielded DEF EndUnit
  <2> HIDE DEF b
  <2>3. Fields = DOMAIN r
    BY <2>2, EmitKin, KinFields
  <2> HIDE DEF t, r, x
  <2>4. x.tail.inject # "null"
    BY <2>1, <2>3 DEF Fields
  <2> QED
    BY <1>1, <1>4, <2>2, <2>4 DEF Plausible
<1> QED
  BY <1>1, <1>2, <1>3, <1>4

LEMMA SuppliedStep ==
  ASSUME Supplied, [Next]_vars
  PROVE  Supplied'
<1>1. Agreed'
  BY AgreedStep DEF Supplied
<1>2. CASE blocks' = blocks /\ unit' = unit /\ status' # "running" /\ (status' = "crashed" \/ status' = status)
  BY <1>1, <1>2 DEF Supplied
<1>3. CASE UNCHANGED vars
  <2>1. /\ blocks' = blocks /\ cur' = cur /\ frames' = frames /\ unit' = unit /\ status' = status
    BY <1>3 DEF vars
  <2> QED
    BY <1>1, <2>1 DEF Supplied
<1>4. CASE HeapBroken
  BY <1>2, <1>4 DEF HeapBroken, Stop
<1>5. CASE Next /\ status = "running" /\ (AStatement \/ AnExpression \/ Returns \/ EndUnit)
  <2>1. PICK h : Ready(blocks, cur, frames, at, h)
    BY <1>5 DEF Supplied, Agreed, Inner
  <2>2. Types
    BY <1>5 DEF Supplied, Agreed, Inner, Types
  <2>3. Before(h)
    BY <1>5, <2>1, <2>2 DEF Before, Supplied, Agreed
  <2>4. Fed(blocks, cur, frames, unit)
    BY <1>5 DEF Supplied, Fed
  <2>5. unit' = unit
    BY <1>5, UnitStays
  <2>6. blocks' \in Seq(Block)
    BY <1>1 DEF Agreed, Inner
  <2>7. Feeds
    BY <1>5, <2>1, <2>2, <2>3, <2>4, <2>6, StatementOutcome, StatementFeeds, ExpressionOutcome,
       ExpressionFeeds, ReturnsOutcome, ReturnsFeed, EndUnitFeeds
  <2>8. Plausible(blocks)
    BY <1>5 DEF Supplied
  <2>9. status' # "crashed" => Plausible(blocks')
    <3>1. CASE EndUnit
      BY <2>2, <2>3, <2>8, <3>1, BeforeFacts, UnitPlausible DEF Types
    <3>2. CASE Checks
      BY <2>8, <3>2 DEF Checks, Verdict, Plausible
    <3> QED
      BY <1>5, <3>1, <3>2, StatementChecks, ExpressionChecks, ReturnsCheck
  <2> QED
    BY <1>1, <2>5, <2>7, <2>9 DEF Supplied, Feeds
<1>6. CASE Next /\ ~HeapBroken /\ ~Over
  BY <1>5, <1>6, NextRuns
<1> QED
  BY <1>3, <1>4, <1>6 DEF Over

\* What a tail passes is what the block it leads to takes, the back edges of
\* loops included, in every program: the parameters child_block counts
\* have their arguments from inject_params, as long as nothing was written
\* past their end.
THEOREM ArgumentsFitAlways == Spec => []ArgumentsFit
<1>1. ASSUME Supplied
      PROVE  ArgumentsFit
  <2> SUFFICES ASSUME Defined, NEW b \in DOMAIN blocks, NEW d \in Leads(blocks[b])
               PROVE  /\ blocks[b].tail.live = blocks[d].par.live
                      /\ \A q \in blocks[d].par.live :
                           /\ q \in DOMAIN blocks[b].syms /\ blocks[b].syms[q].ex
                           /\ blocks[b].syms[q].s = blocks[d].syms[q].s
                      /\ blocks[d].par.ret => blocks[b].hasRet
    BY DEF ArgumentsFit
  <2>1. blocks[b].tail.inject # "over" /\ blocks[b].tail.inject # "null"
    BY <1>1 DEF Supplied, Plausible, Defined
  <2>2. blocks[b].tail.inject \in {"ok", "null", "over"}
    <3>1. blocks[b] \in Block
      BY <1>1 DEF Supplied, Agreed, Inner
    <3>2. blocks[b].tail \in Terminal
      BY <3>1 DEF Block
    <3> QED
      BY <3>2 DEF Terminal
  <2>3. Fit(blocks[b], blocks[d])
    BY <1>1, <2>1, <2>2 DEF Supplied, Flows, Flow
  <2> QED
    BY <2>3 DEF Fit, With
<1> QED
  BY <1>1, SuppliedInit, SuppliedStep, PTL DEF Spec

=============================================================================
