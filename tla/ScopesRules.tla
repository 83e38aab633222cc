----------------------------- MODULE ScopesRules -----------------------------
(***************************************************************************)
(* Proofs about the rules of Scopes: that the walks along the parents find  *)
(* what the text says they should, for every program that the parser can    *)
(* write, and at every point of its analysis.                              *)
(***************************************************************************)
EXTENDS ScopesProofs, FiniteSetTheorems

-----------------------------------------------------------------------------
(* Jumps.                                                                    *)

JumpKinds == {"control", "return", "return nothing"}
LoopIn(ns, n) ==
  Innermost({m \in AboveIn(ns, n) : /\ ns[m].kind \in LoopKinds
                                    /\ ns[n].label \in {None, ns[m].label}})
TargetIn(ns, n) == IF ns[n].kind = "control" THEN LoopIn(ns, n) ELSE FunctionIn(ns, n)
JumpsIn(ns) == {n \in DOMAIN ns : ns[n].kind \in JumpKinds}

LEMMA RulesAre ==
  /\ Jumps = JumpsIn(nodes)
  /\ \A n : /\ Holder(n) = HolderIn(nodes, n) /\ Above(n) = AboveIn(nodes, n)
            /\ Innermost(LoopsAround(n)) = LoopIn(nodes, n) /\ FunctionOf(n) = FunctionIn(nodes, n)
<1>1. \A n : Holder(n) = HolderIn(nodes, n)
  BY DEF Holder, HolderIn
<1>2. \A n : Above(n) = AboveIn(nodes, n)
  BY <1>1 DEF Above, AboveIn
<1>3. \A n : Innermost(LoopsAround(n)) = LoopIn(nodes, n)
  BY <1>2 DEF LoopsAround, LoopIn
<1>4. \A n : FunctionOf(n) = FunctionIn(nodes, n)
  BY <1>2 DEF FunctionOf, FunctionIn, FunctionKinds
<1> QED
  BY <1>1, <1>2, <1>3, <1>4 DEF Jumps, JumpsIn, JumpKinds

(* The innermost of some nodes is one of them, and none is inside it.            *)
LEMMA InnermostOf ==
  ASSUME NEW n \in Nat, NEW S \in SUBSET (1 .. n - 1)
  PROVE  \/ S = {} /\ Innermost(S) = 0
         \/ Innermost(S) \in S /\ \A k \in S : k <= Innermost(S)
<1>1. CASE S = {}
  BY <1>1, InnermostNone
<1>2. CASE S # {}
  <2> DEFINE T == {n - k : k \in S}
  <2>1. T \in SUBSET Nat /\ T # {}
    BY <1>2
  <2>2. PICK j \in T : \A i \in T : j <= i
    BY ONLY <2>1, LeastElement
  <2>3. PICK m \in S : j = n - m
    BY <2>2
  <2>4. \A k \in S : k <= m /\ k \in Nat
    BY <2>2, <2>3
  <2>5. Innermost(S) = m
    BY <2>3, <2>4, InnermostIs
  <2> QED
    BY <2>3, <2>4, <2>5
<1> QED
  BY <1>1, <1>2

(* The loop that a walk past functions finds is that of the text, when the text   *)
(* has one in the function.                                                      *)
LEMMA LoopOfIs ==
  ASSUME Tree(nodes), NEW n \in DOMAIN nodes
  PROVE  /\ LoopIn(nodes, n) = 0 => LoopOf(n) = 0
         /\ LoopIn(nodes, n) # 0 => LoopsAround(n) # {}
         /\ LoopOf(n) # 0 => LoopIn(nodes, n) = LoopOf(n)
<1> DEFINE S == LoopsAround(n)
           F == FunctionOf(n)
           T == {m \in S : m > F}
           G == {m \in AboveIn(nodes, n) : nodes[m].kind \in FunctionKinds}
<1>1. n \in Nat /\ AboveIn(nodes, n) \in SUBSET (1 .. n - 1)
  BY AboveBefore DEF Tree
<1>2. S \in SUBSET (1 .. n - 1) /\ G \in SUBSET (1 .. n - 1) /\ T \in SUBSET S
  BY <1>1, RulesAre DEF LoopsAround
<1>3. LoopIn(nodes, n) = Innermost(S) /\ LoopOf(n) = Innermost(T) /\ F = Innermost(G)
  BY RulesAre DEF LoopOf, FunctionIn
<1> HIDE DEF S, F, G
<1>4. F \in Nat
  <2>1. \/ G = {} /\ Innermost(G) = 0
        \/ Innermost(G) \in G /\ \A k \in G : k <= Innermost(G)
    BY ONLY <1>1, <1>2, InnermostOf
  <2>2. F \in G \cup {0}
    BY <1>3, <2>1
  <2>3. G \subseteq Nat
    BY <1>1, <1>2
  <2> QED
    BY <2>2, <2>3
<1>5. \/ S = {} /\ Innermost(S) = 0
      \/ Innermost(S) \in S /\ \A k \in S : k <= Innermost(S)
  BY ONLY <1>1, <1>2, InnermostOf
<1>6. \/ T = {} /\ Innermost(T) = 0
      \/ Innermost(T) \in T /\ \A k \in T : k <= Innermost(T)
  <2>1. T \in SUBSET (1 .. n - 1)
    BY <1>2
  <2> HIDE DEF T
  <2> QED
    BY ONLY <1>1, <2>1, InnermostOf
<1>7. LoopIn(nodes, n) = 0 => LoopOf(n) = 0
  <2>1. 0 \notin S
    BY <1>1, <1>2
  <2> QED
    BY <1>3, <1>5, <1>6, <2>1
<1>8. ASSUME LoopOf(n) # 0
      PROVE  LoopIn(nodes, n) = LoopOf(n)
  <2>1. Innermost(T) \in T /\ Innermost(T) \in S /\ S # {} /\ \A k \in T : k <= Innermost(T)
    BY <1>2, <1>3, <1>6, <1>8
  <2>2. Innermost(S) \in S /\ Innermost(T) <= Innermost(S)
    BY <1>5, <2>1
  <2>3. Innermost(S) \in Nat /\ Innermost(T) \in Nat /\ Innermost(T) > F
    <3>1. Innermost(T) > F
      BY <2>1
    <3>2. S \subseteq Nat
      BY <1>1, <1>2
    <3> QED
      BY <2>1, <2>2, <3>1, <3>2
  <2>4. Innermost(S) \in T
    BY <1>4, <2>2, <2>3
  <2>5. Innermost(S) <= Innermost(T)
    BY <2>1, <2>4
  <2> QED
    BY <1>3, <2>2, <2>3, <2>5
<1> QED
  BY <1>3, <1>5, <1>7, <1>8 DEF S

(* The statement in its block: its parent, and the links above it.              *)
LEMMA StatementIn ==
  ASSUME ControlInv, NEW kinds, At(kinds)
  PROVE  /\ Tree(nodes) /\ Formed(nodes) /\ CallsInv(nodes, calls)
         /\ Block \in DOMAIN nodes /\ nodes[Block].kind = "block" /\ AllLinked(nodes, Block)
         /\ Statement \in DOMAIN nodes /\ nodes[Statement].kind \in kinds
         /\ nodes[Statement].parent = Block
         /\ AboveIn(nodes, Statement) = {Block} \cup AboveIn(nodes, Block)
         /\ Holder(Statement) = Block
<1>1. Running
  BY DEF At
<1>2. /\ Tree(nodes) /\ Formed(nodes) /\ CallsInv(nodes, calls)
      /\ Block \in DOMAIN nodes /\ nodes[Block].kind = "block"
      /\ Len(calls) \in DOMAIN calls /\ Block = calls[Len(calls)].block
  BY <1>1, RunningIs
<1>3. AllLinked(nodes, Block)
  BY <1>2 DEF CallsInv
<1>4. /\ Statement \in DOMAIN nodes /\ Statement # 1 /\ HolderIn(nodes, Statement) = Block
      /\ AboveIn(nodes, Statement) = {Block} \cup AboveIn(nodes, Block)
      /\ nodes[Statement].kind \in kinds
  BY AtIs
<1>5. nodes[HolderIn(nodes, Statement)].kind \notin FunctionKinds
  BY <1>2, <1>4 DEF FunctionKinds
<1>6. nodes[Statement].parent = HolderIn(nodes, Statement)
  BY ONLY <1>2, <1>4, <1>5, ParentIs
<1> QED
  BY <1>2, <1>3, <1>4, <1>6, RulesAre

LEMMA ControlFinds ==
  ASSUME ControlInv, At({"control"})
  PROVE  TargetFrom = LoopIn(nodes, Statement)
<1>1. /\ Tree(nodes) /\ Formed(nodes)
      /\ Block \in DOMAIN nodes /\ nodes[Block].kind = "block" /\ AllLinked(nodes, Block)
      /\ Statement \in DOMAIN nodes /\ nodes[Statement].parent = Block
      /\ AboveIn(nodes, Statement) = {Block} \cup AboveIn(nodes, Block)
  BY StatementIn
<1>2. nodes[Block].kind \notin LoopKinds /\ AboveIn(nodes, Statement) \subseteq DOMAIN nodes
  BY <1>1, AboveBefore DEF LoopKinds
<1>3. CASE nodes[Statement].label = None
  <2>1. LoopsIn(nodes, Block) =
          {m \in AboveIn(nodes, Statement) : /\ nodes[m].kind \in LoopKinds
                                             /\ nodes[Statement].label \in {None, nodes[m].label}}
    BY <1>1, <1>2, <1>3 DEF LoopsIn
  <2>2. NearestLoop(Block) = Innermost(LoopsIn(nodes, Block))
    BY <1>1, NearestLoopFinds
  <2> QED
    BY <1>3, <2>1, <2>2 DEF TargetFrom, LoopIn
<1>4. CASE nodes[Statement].label # None
  <2> DEFINE A == {m \in Labelled(nodes, Statement) : Under(nodes, m, Block)}
  <2>1. A = {m \in AboveIn(nodes, Statement) : /\ nodes[m].kind \in LoopKinds
                                               /\ nodes[Statement].label \in {None, nodes[m].label}}
    BY <1>1, <1>2, <1>4 DEF Labelled, Under
  <2>2. GetLabel(Statement) = Innermost(A)
    BY <1>1, GetLabelFinds
  <2> QED
    BY <1>4, <2>1, <2>2 DEF TargetFrom, LoopIn
<1> QED
  BY <1>3, <1>4

LEMMA ReturnFinds ==
  ASSUME ControlInv, NEW kinds, At(kinds)
  PROVE  FunctionAround(Block) = FunctionIn(nodes, Statement)
<1>1. /\ Tree(nodes) /\ Formed(nodes) /\ Block \in DOMAIN nodes /\ nodes[Block].kind = "block"
      /\ AboveIn(nodes, Statement) = {Block} \cup AboveIn(nodes, Block)
  BY StatementIn
<1>2. nodes[Block].kind \notin FunctionKinds
  BY <1>1 DEF FunctionKinds
<1>3. FunctionAround(Block) = FunctionIn(nodes, Block)
  BY <1>1, FunctionAroundFinds
<1>4. {m \in AboveIn(nodes, Block) : nodes[m].kind \in FunctionKinds} =
        {m \in AboveIn(nodes, Statement) : nodes[m].kind \in FunctionKinds}
  BY <1>1, <1>2
<1> QED
  BY <1>3, <1>4 DEF FunctionIn

TargetsInv ==
  /\ \A t \in targets : /\ t = [node |-> t.node, target |-> TargetIn(nodes, t.node)]
                        /\ t.target # 0 /\ t.node \in JumpsIn(nodes)
  /\ Begun => \A n \in JumpsIn(nodes) : ToCome(nodes, calls, n) \/ \E t \in targets : t.node = n
  /\ ~Begun => targets = {}

(* Nothing but the calls of analyze goes on.                                   *)
LEMMA SameTargets ==
  ASSUME TargetsInv, Begun, Begun', nodes' = nodes, targets' = targets,
         \A n \in JumpsIn(nodes) : ToCome(nodes, calls, n) => ToCome(nodes, calls', n)
  PROVE  TargetsInv'
<1>1. JumpsIn(nodes') = JumpsIn(nodes) /\ \A n : TargetIn(nodes', n) = TargetIn(nodes, n)
  OBVIOUS
<1>2. \A t \in targets' : /\ t = [node |-> t.node, target |-> TargetIn(nodes', t.node)]
                          /\ t.target # 0 /\ t.node \in JumpsIn(nodes')
  BY <1>1 DEF TargetsInv
<1>3. \A n \in JumpsIn(nodes') : ToCome(nodes', calls', n) \/ \E t \in targets' : t.node = n
  <2> SUFFICES ASSUME NEW n \in JumpsIn(nodes)
               PROVE  ToCome(nodes, calls', n) \/ \E t \in targets : t.node = n
    BY <1>1
  <2> QED
    BY DEF TargetsInv
<1> QED
  BY <1>2, <1>3 DEF TargetsInv

LEMMA StoppedTargets ==
  ASSUME ControlInv, TargetsInv, Running, Stops
  PROVE  TargetsInv'
<1>1. UNCHANGED <<nodes, calls, targets>> /\ Begun /\ Begun'
  BY DEF Stops, Ends, Begun, Running
<1> QED
  BY <1>1, SameTargets

LEMMA GoneTargets ==
  ASSUME ControlInv, TargetsInv, NEW kinds, At(kinds), kinds \cap JumpKinds = {}, NEW inner, Goneto(inner),
         targets' = targets
  PROVE  TargetsInv'
<1>1. nodes' = nodes /\ ended' = ended /\ Passed(inner) /\ Running
  BY DEF Goneto, At
<1>2. nodes[Statement].kind \in kinds /\ calls # <<>>
  BY AtIs DEF At, Running
<1>3. ASSUME NEW n \in JumpsIn(nodes), ToCome(nodes, calls, n)
      PROVE  ToCome(nodes, calls', n)
  <2>1. n \in DOMAIN nodes /\ nodes[n].kind \in JumpKinds /\ n # Statement
    BY <1>2 DEF JumpsIn
  <2>2. n \notin inner
    BY <1>1, <2>1 DEF Passed, JumpKinds
  <2> QED
    BY <1>1, <1>3, <2>1, <2>2 DEF Passed
<1>4. Begun /\ (\A n \in JumpsIn(nodes) : ToCome(nodes, calls, n) => ToCome(nodes, calls', n))
  BY <1>2, <1>3 DEF Begun
<1>5. Begun'
  BY <1>1 DEF Passed, Begun
<1> QED
  BY <1>1, <1>4, <1>5, SameTargets

LEMMA JumpTargets ==
  ASSUME ControlInv, TargetsInv, NEW kinds \in SUBSET JumpKinds, At(kinds), Goneto({}),
         TargetIn(nodes, Statement) # 0, Going(TargetIn(nodes, Statement))
  PROVE  TargetsInv'
<1> DEFINE t0 == [node |-> Statement, target |-> TargetIn(nodes, Statement)]
<1>1. nodes' = nodes /\ Passed({}) /\ targets' = targets \cup {t0} /\ Begun /\ Begun'
  BY DEF Goneto, At, Running, Begun, Passed, Going
<1>2. JumpsIn(nodes') = JumpsIn(nodes) /\ \A n : TargetIn(nodes', n) = TargetIn(nodes, n)
  BY <1>1
<1>3. Statement \in JumpsIn(nodes)
  BY AtIs DEF JumpsIn
<1>4. /\ t0 = [node |-> t0.node, target |-> TargetIn(nodes, t0.node)] /\ t0.target # 0
      /\ t0.node \in JumpsIn(nodes) /\ t0.node = Statement
  BY <1>3
<1> HIDE DEF t0
<1>5. \A t \in targets' : /\ t = [node |-> t.node, target |-> TargetIn(nodes', t.node)]
                          /\ t.target # 0 /\ t.node \in JumpsIn(nodes')
  BY <1>1, <1>2, <1>4 DEF TargetsInv
<1>6. \A n \in JumpsIn(nodes') : ToCome(nodes', calls', n) \/ \E t \in targets' : t.node = n
  <2> SUFFICES ASSUME NEW n \in JumpsIn(nodes)
               PROVE  ToCome(nodes', calls', n) \/ \E t \in targets' : t.node = n
    BY <1>2
  <2>1. n \in DOMAIN nodes
    BY DEF JumpsIn
  <2>2. CASE n = Statement
    BY <1>1, <1>4, <2>2
  <2>3. CASE n # Statement
    <3>1. ToCome(nodes, calls, n) \/ \E t \in targets : t.node = n
      BY <1>1 DEF TargetsInv
    <3>2. ToCome(nodes, calls, n) => ToCome(nodes', calls', n)
      BY <1>1, <2>1, <2>3 DEF Passed
    <3> QED
      BY <1>1, <3>1, <3>2
  <2> QED
    BY <2>2, <2>3
<1> QED
  BY <1>1, <1>5, <1>6 DEF TargetsInv

LEMMA FunctionTargets ==
  ASSUME ControlInv, TargetsInv, AnalyzeFunction
  PROVE  TargetsInv'
<1>1. At(FunctionKinds) /\ targets' = targets /\ Running
  BY DEF AnalyzeFunction, FunctionKinds, At
<1>2. /\ Frozen(nodes, nodes') /\ nodes' \in Seq(NodeRecords)
      /\ Passed(Inner(nodes, Statement))
  BY FunctionStep
<1>3. Tree(nodes) /\ nodes[Statement].kind \in FunctionKinds
  BY <1>1, RunningIs, AtIs
<1>4. DOMAIN nodes' = DOMAIN nodes /\ \A n \in DOMAIN nodes : nodes'[n].kind = nodes[n].kind /\ nodes'[n].label = nodes[n].label
  BY <1>2 DEF Frozen
<1>5. \A n \in DOMAIN nodes : AboveIn(nodes', n) = AboveIn(nodes, n) /\ AboveIn(nodes, n) \subseteq DOMAIN nodes
  BY <1>2, <1>3, FrozenAbove, AboveBefore
<1>6. JumpsIn(nodes') = JumpsIn(nodes)
  BY <1>4 DEF JumpsIn
<1>7. ASSUME NEW n \in DOMAIN nodes
      PROVE  TargetIn(nodes', n) = TargetIn(nodes, n)
  <2>1. {m \in AboveIn(nodes', n) : nodes'[m].kind \in LoopKinds /\ nodes'[n].label \in {None, nodes'[m].label}} =
          {m \in AboveIn(nodes, n) : nodes[m].kind \in LoopKinds /\ nodes[n].label \in {None, nodes[m].label}}
    BY <1>4, <1>5
  <2>2. {m \in AboveIn(nodes', n) : nodes'[m].kind \in FunctionKinds} =
          {m \in AboveIn(nodes, n) : nodes[m].kind \in FunctionKinds}
    BY <1>4, <1>5
  <2> QED
    BY <1>4, <2>1, <2>2 DEF TargetIn, LoopIn, FunctionIn
<1>8. \A t \in targets' : /\ t = [node |-> t.node, target |-> TargetIn(nodes', t.node)]
                          /\ t.target # 0 /\ t.node \in JumpsIn(nodes')
  <2> SUFFICES ASSUME NEW t \in targets
               PROVE  /\ t = [node |-> t.node, target |-> TargetIn(nodes', t.node)]
                      /\ t.target # 0 /\ t.node \in JumpsIn(nodes')
    BY <1>1
  <2>1. /\ t = [node |-> t.node, target |-> TargetIn(nodes, t.node)]
        /\ t.target # 0 /\ t.node \in JumpsIn(nodes)
    BY DEF TargetsInv
  <2>2. t.node \in DOMAIN nodes
    BY <2>1 DEF JumpsIn
  <2> QED
    BY <1>6, <1>7, <2>1, <2>2
<1>9. Begun /\ Begun'
  BY <1>1, <1>2 DEF Begun, Passed, Running
<1>10. \A n \in JumpsIn(nodes') : ToCome(nodes', calls', n) \/ \E t \in targets' : t.node = n
  <2> SUFFICES ASSUME NEW n \in JumpsIn(nodes)
               PROVE  ToCome(nodes', calls', n) \/ \E t \in targets : t.node = n
    BY <1>1, <1>6
  <2>1. n \in DOMAIN nodes /\ nodes[n].kind \in JumpKinds
    BY DEF JumpsIn
  <2>2. n # Statement /\ n \notin Inner(nodes, Statement)
    BY <1>2, <1>3, <2>1 DEF Passed, JumpKinds, FunctionKinds
  <2>3. ToCome(nodes, calls, n) => ToCome(nodes', calls', n)
    BY <1>2, <2>1, <2>2 DEF Passed
  <2> QED
    BY <1>9, <2>3 DEF TargetsInv
<1> QED
  BY <1>8, <1>9, <1>10 DEF TargetsInv

LEMMA TargetsStep ==
  ASSUME ControlInv, TargetsInv, [Next]_vars
  PROVE  TargetsInv'
<1>1. CASE Parse
  <2>1. calls' = <<>> /\ ended' = "" /\ calls = <<>> /\ ended = "" /\ targets' = targets
    BY <1>1, ParseStep DEF ControlInv
  <2>2. ~Begun' /\ targets' = {}
    BY <2>1 DEF Begun, TargetsInv
  <2> QED
    BY <2>2 DEF TargetsInv
<1>2. CASE Start
  <2>1. /\ calls = <<>> /\ ended = "" /\ calls' = <<Call(1)>> /\ targets' = targets /\ nodes' = nodes
        /\ Tree(nodes) /\ Formed(nodes)
    BY <1>2 DEF Start, Writing, ControlInv, TreeInv
  <2>2. \A n \in DOMAIN nodes : n # 1 => ToCome(nodes, <<Call(1)>>, n)
    BY <2>1, FirstCall
  <2>3. 1 \notin JumpsIn(nodes) /\ JumpsIn(nodes) \subseteq DOMAIN nodes
    BY <2>1 DEF Formed, JumpsIn, JumpKinds
  <2>4. \A n \in JumpsIn(nodes') : ToCome(nodes', calls', n)
    BY <2>1, <2>2, <2>3
  <2>5. targets' = {} /\ Begun'
    <3>1. <<Call(1)>> # <<>>
      OBVIOUS
    <3> QED
      BY <2>1, <3>1 DEF TargetsInv, Begun
  <2> QED
    BY <2>4, <2>5 DEF TargetsInv
<1>3. CASE Hoist
  <2>1. CASE Stops
    BY <1>3, <2>1, HoistShape, StoppedTargets
  <2>2. CASE Raised(nodes, calls, calls') /\ calls' # <<>> /\ UNCHANGED <<language, nodes, open, targets, ended>>
    <3>1. \A n : ToCome(nodes, calls', n) <=> ToCome(nodes, calls, n)
      BY <2>2, RaisedCalls
    <3>2. Begun /\ Begun'
      BY <1>3, <2>2, HoistShape DEF Begun, Running
    <3> QED
      BY <2>2, <3>1, <3>2, SameTargets
  <2> QED
    BY <1>3, <2>1, <2>2, HoistShape
<1>4. CASE AnalyzeBlock
  <2>1. At({"block"}) /\ Goneto({Statement}) /\ targets' = targets
    BY <1>4, BlockShape
  <2>2. {"block"} \cap JumpKinds = {}
    BY DEF JumpKinds
  <2> QED
    BY <2>1, <2>2, GoneTargets
<1>5. CASE AnalyzeExpression
  <2>1. At({"expression"}) /\ (Stops \/ (Goneto({}) /\ targets' = targets)) /\ Running
    BY <1>5, ExpressionShape DEF At
  <2>2. {"expression"} \cap JumpKinds = {}
    BY DEF JumpKinds
  <2> QED
    BY <2>1, <2>2, GoneTargets, StoppedTargets
<1>6. CASE AnalyzeLet
  <2>1. At({"let"}) /\ (Stops \/ (Goneto({}) /\ targets' = targets)) /\ Running
    BY <1>6, LetShape DEF At
  <2>2. {"let"} \cap JumpKinds = {}
    BY DEF JumpKinds
  <2> QED
    BY <2>1, <2>2, GoneTargets, StoppedTargets
<1>7. CASE AnalyzeDefine
  <2>1. At({"define"}) /\ (Stops \/ (Goneto({}) /\ targets' = targets)) /\ Running
    BY <1>7, DefineShape DEF At
  <2>2. {"define"} \cap JumpKinds = {}
    BY DEF JumpKinds
  <2> QED
    BY <2>1, <2>2, GoneTargets, StoppedTargets
<1>8. CASE AnalyzeFunction
  BY <1>8, FunctionTargets
<1>9. CASE AnalyzeIf
  <2>1. At({"if"}) /\ (Stops \/ (Goneto(Inner(nodes, Statement)) /\ targets' = targets)) /\ Running
    BY <1>9, IfShape DEF At
  <2>2. {"if"} \cap JumpKinds = {}
    BY DEF JumpKinds
  <2> QED
    BY <2>1, <2>2, GoneTargets, StoppedTargets
<1>10. CASE AnalyzeLoop
  <2>1. At(LoopKinds) /\ (Stops \/ (Goneto(Inner(nodes, Statement)) /\ targets' = targets)) /\ Running
    BY <1>10, LoopShape DEF At
  <2>2. LoopKinds \cap JumpKinds = {}
    BY DEF JumpKinds, LoopKinds
  <2> QED
    BY <2>1, <2>2, GoneTargets, StoppedTargets
<1>11. CASE AnalyzeControl
  <2>1. /\ At({"control"}) /\ Running
        /\ Stops \/ (TargetFrom # 0 /\ Goneto({}) /\ Going(TargetFrom))
    BY <1>11, ControlShape DEF At
  <2>2. {"control"} \in SUBSET JumpKinds
    BY DEF JumpKinds
  <2>3. TargetFrom = TargetIn(nodes, Statement)
    BY <2>1, ControlFinds, AtIs DEF TargetIn
  <2> QED
    BY <2>1, <2>2, <2>3, JumpTargets, StoppedTargets
<1>12. CASE AnalyzeReturn
  <2>1. /\ At({"return", "return nothing"}) /\ Running
        /\ \/ Stops
           \/ FunctionAround(Block) # 0 /\ Goneto({}) /\ Going(FunctionAround(Block))
    BY <1>12, ReturnShape DEF At
  <2>2. {"return", "return nothing"} \in SUBSET JumpKinds
    BY DEF JumpKinds
  <2>3. FunctionAround(Block) = TargetIn(nodes, Statement)
    <3>1. nodes[Statement].kind \in {"return", "return nothing"}
      BY <2>1, AtIs
    <3> QED
      BY <2>1, <3>1, ReturnFinds DEF TargetIn
  <2> QED
    BY <2>1, <2>2, <2>3, JumpTargets, StoppedTargets
<1>13. CASE SkipClass
  <2>1. At({"class"}) /\ Goneto({}) /\ targets' = targets
    BY <1>13, ClassShape
  <2>2. {"class"} \cap JumpKinds = {}
    BY DEF JumpKinds
  <2> QED
    BY <2>1, <2>2, GoneTargets
<1>14. CASE Leave
  <2>1. targets' = targets /\ nodes' = nodes /\ Running
    BY <1>14 DEF Leave
  <2>2. \A n : ToCome(nodes, calls', n) <=> ToCome(nodes, calls, n)
    BY <1>14, <2>1, LeaveStep
  <2>3. Begun /\ Begun'
    <3>1. calls' = <<>> => ended' = "done"
      BY <1>14, <2>1, RunningIs, LeaveCalls DEF Leave
    <3> QED
      BY <2>1, <3>1 DEF Begun, Running
  <2> QED
    BY <2>1, <2>2, <2>3, SameTargets
<1>15. CASE UNCHANGED vars
  <2>1. UNCHANGED <<nodes, calls, targets, ended>>
    BY <1>15 DEF vars
  <2> QED
    BY <2>1 DEF TargetsInv, Begun
<1> QED
  BY <1>1, <1>2, <1>3, <1>4, <1>5, <1>6, <1>7, <1>8, <1>9, <1>10, <1>11, <1>12, <1>13, <1>14, <1>15
  DEF Next, Analyze

(* Every jump that analyze has come to has its one target, which is that of the  *)
(* text (analyze_break, analyze_continue, analyze_return).                     *)
THEOREM TargetsHold == Spec => []TargetsInv
<1>1. Init => TargetsInv
  <2> SUFFICES ASSUME Init
               PROVE  TargetsInv
    OBVIOUS
  <2>1. targets = {} /\ ~Begun
    BY DEF Init, Begun
  <2> QED
    BY <2>1 DEF TargetsInv
<1>2. ControlInv /\ TargetsInv /\ [Next]_vars => TargetsInv'
  BY TargetsStep
<1> QED
  BY <1>1, <1>2, ControlHolds, PTL DEF Spec

(* break and continue go to the innermost loop around them in their function, or   *)
(* the innermost with their label (analyze_inner, get_label), through blocks, ifs  *)
(* and loops, whenever there is one.                                             *)
THEOREM JumpsHold == Spec => []JumpsFindLoop
<1>1. ControlInv /\ TargetsInv => JumpsFindLoop
  <2> SUFFICES ASSUME ControlInv, TargetsInv, NEW t \in targets, nodes[t.node].kind = "control",
                      LoopOf(t.node) # 0
               PROVE  t.target = LoopOf(t.node)
    BY DEF JumpsFindLoop
  <2>1. t = [node |-> t.node, target |-> TargetIn(nodes, t.node)] /\ t.node \in DOMAIN nodes
    BY DEF TargetsInv, JumpsIn
  <2>2. t.target = LoopIn(nodes, t.node)
    BY <2>1 DEF TargetIn
  <2>3. Tree(nodes)
    BY DEF ControlInv, TreeInv
  <2> QED
    BY <2>1, <2>2, <2>3, LoopOfIs
<1> QED
  BY <1>1, ControlHolds, TargetsHold, PTL

(* A return leaves the innermost function around it (get_function_scope).        *)
THEOREM ReturnsHold == Spec => []ReturnsFindFunction
<1>1. TargetsInv => ReturnsFindFunction
  <2> SUFFICES ASSUME TargetsInv, NEW t \in targets, nodes[t.node].kind = "return"
               PROVE  t.target = FunctionOf(t.node)
    BY DEF ReturnsFindFunction
  <2>1. t = [node |-> t.node, target |-> TargetIn(nodes, t.node)]
    BY DEF TargetsInv
  <2>2. t.target = TargetIn(nodes, t.node)
    BY <2>1
  <2> QED
    BY <2>2, RulesAre DEF TargetIn
<1> QED
  BY <1>1, TargetsHold, PTL

-----------------------------------------------------------------------------
(* Look-ups.                                                                 *)

(* The scope of a block is the innermost block around it.                      *)
LEMMA ScopeIs ==
  ASSUME Tree(nodes), Formed(nodes), NEW n \in DOMAIN nodes, nodes[n].kind = "block", AllLinked(nodes, n)
  PROVE  \/ n = 1 /\ Scope(nodes, n) = 0 /\ AboveIn(nodes, n) = {}
         \/ \E x \in DOMAIN nodes :
              /\ x = Scope(nodes, n) /\ x < n /\ nodes[x].kind = "block" /\ AllLinked(nodes, x)
              /\ {x} \cup AboveIn(nodes, x) \subseteq AboveIn(nodes, n)
              /\ \A m \in AboveIn(nodes, n) : nodes[m].kind = "block" => m \in {x} \cup AboveIn(nodes, x)
<1>1. DOMAIN nodes = 1 .. Len(nodes) /\ Len(nodes) \in Nat
  BY DEF Tree
<1> DEFINE h == HolderIn(nodes, n)
           q == HolderIn(nodes, h)
<1>2. CASE n = 1
  <2>1. nodes[1].parent = 0 /\ AboveIn(nodes, 1) = {}
    BY <1>2, ParentIs, AboveIs
  <2> QED
    BY <1>2, <2>1 DEF Scope
<1>3. CASE n # 1
  <2>1. /\ h \in DOMAIN nodes /\ h < n /\ h # 0 /\ AboveIn(nodes, n) = {h} \cup AboveIn(nodes, h)
        /\ \E i \in DOMAIN nodes[h].body : nodes[h].body[i] = n
    BY <1>1, <1>3, HolderHolds, AboveIs
  <2>2. ASSUME NEW x \in DOMAIN nodes, x = Scope(nodes, n), x < n, nodes[x].kind = "block",
               {x} \cup AboveIn(nodes, x) \subseteq AboveIn(nodes, n),
               \A m \in AboveIn(nodes, n) : nodes[m].kind = "block" => m \in {x} \cup AboveIn(nodes, x)
        PROVE  \E y \in DOMAIN nodes :
                 /\ y = Scope(nodes, n) /\ y < n /\ nodes[y].kind = "block" /\ AllLinked(nodes, y)
                 /\ {y} \cup AboveIn(nodes, y) \subseteq AboveIn(nodes, n)
                 /\ \A m \in AboveIn(nodes, n) : nodes[m].kind = "block" => m \in {y} \cup AboveIn(nodes, y)
    <3>1. AllLinked(nodes, x)
      <4>1. \A m : Under(nodes, m, x) => Under(nodes, m, n)
        BY <2>2 DEF Under
      <4> QED
        BY <4>1 DEF AllLinked
    <3> QED
      BY <2>2, <3>1
  <2>3. CASE nodes[h].kind = "block"
    <3>1. nodes[h].kind \notin FunctionKinds
      BY <2>3 DEF FunctionKinds
    <3>2. nodes[n].parent = h
      BY <1>3, <3>1, ParentIs
    <3>3. Scope(nodes, n) = h
      BY <2>1, <2>3, <3>2 DEF Scope
    <3> QED
      BY <2>1, <2>2, <2>3, <3>3
  <2>4. CASE nodes[h].kind # "block" /\ nodes[h].kind \notin FunctionKinds
    <3>1. h # 1
      BY <2>4 DEF Formed
    <3>2. /\ q \in DOMAIN nodes /\ q < h /\ AboveIn(nodes, h) = {q} \cup AboveIn(nodes, q)
          /\ \E i \in DOMAIN nodes[q].body : nodes[q].body[i] = h
      <4> HIDE DEF h
      <4> QED
        BY <1>1, <2>1, <3>1, HolderHolds, AboveIs
    <3>3. nodes[q].kind = "block"
      <4>1. Form(nodes, q)
        BY <3>2 DEF Formed
      <4> QED
        BY <2>4, <3>2, <4>1 DEF Form
    <3>4. nodes[n].parent = h
      BY <1>3, <2>4, ParentIs
    <3>5. nodes[h].parent = q
      <4>1. nodes[q].kind \notin FunctionKinds
        BY <3>3 DEF FunctionKinds
      <4> HIDE DEF h
      <4> QED
        BY <2>1, <3>1, <4>1, ParentIs
    <3>6. Scope(nodes, n) = q
      BY <2>1, <2>4, <3>4, <3>5 DEF Scope
    <3>7. q < n
      BY <1>1, <2>1, <3>2
    <3> QED
      BY <2>1, <2>2, <2>4, <3>2, <3>3, <3>6, <3>7
  <2>5. CASE nodes[h].kind \in FunctionKinds
    <3>1. /\ q \in DOMAIN nodes /\ nodes[q].kind = "block" /\ h # 1
          /\ AboveIn(nodes, n) = {h, q} \cup AboveIn(nodes, q)
      BY <1>3, <2>5, ParentIs
    <3>2. q < h /\ q # 0
      BY <1>1, <2>1, <3>1, HolderHolds
    <3>3. nodes[n].parent = q
      <4>1. Linked(nodes, n)
        BY DEF AllLinked, Under
      <4> QED
        BY <1>3, <2>5, <4>1 DEF Linked
    <3>4. nodes[h].kind # "block"
      BY <2>5 DEF FunctionKinds
    <3>5. Scope(nodes, n) = q
      BY <3>1, <3>2, <3>3 DEF Scope
    <3>6. q < n
      BY <1>1, <2>1, <3>1, <3>2
    <3> QED
      BY <2>2, <3>1, <3>4, <3>5, <3>6
  <2> QED
    BY <2>3, <2>4, <2>5
<1> QED
  BY <1>2, <1>3

(* The table that goes first.                                                  *)
First(here) == CHOOSE e \in here : \A d \in here \ {e} : Earlier(e, d)

LEMMA GetSymbolIs ==
  ASSUME Tree(nodes), Formed(nodes), NEW ts, NEW name, NEW mask
  PROVE  \E f : /\ \A b : GetSymbol(ts, b, name, mask) = f[b]
                /\ f[0] = NoEntry
                /\ \A n \in DOMAIN nodes :
                     f[n] = IF Named(ts, n, name, mask) # {} THEN First(Named(ts, n, name, mask))
                            ELSE f[Scope(nodes, n)]
<1> DEFINE N == Len(nodes)
           T == {n \in 0 .. N : n # 0 /\ Named(ts, n, name, mask) # {}}
           stop == {0} \cup T
           v == [n \in 0 .. N |-> IF n \in T THEN First(Named(ts, n, name, mask)) ELSE NoEntry]
           V == {v[n] : n \in 0 .. N}
           p == [n \in 0 .. N |-> ParentScope(n)]
           G == [n \in 0 .. N |-> [x \in V |-> x]]
           Here(n) == IF n = 0 THEN {} ELSE Named(ts, n, name, mask)
           Eqn(g) == g = [n \in 0 .. N |->
                            CASE n = 0 -> NoEntry
                              [] Here(n) # {} -> First(Here(n))
                              [] OTHER -> g[ParentScope(n)]]
<1>1. N \in Nat /\ DOMAIN nodes = 1 .. N /\ \A n \in 0 .. N : n # 0 => n \in DOMAIN nodes
  BY DEF Tree
<1>2. \A n \in DOMAIN nodes : /\ ParentScope(n) = Scope(nodes, n) /\ ParentScope(n) \in 0 .. n - 1
                              /\ ParentScope(n) \in 0 .. N
  <2> SUFFICES ASSUME NEW n \in DOMAIN nodes
               PROVE  /\ ParentScope(n) = Scope(nodes, n) /\ ParentScope(n) \in 0 .. n - 1
                      /\ ParentScope(n) \in 0 .. N
    OBVIOUS
  <2>1. ParentScope(n) = Scope(nodes, n)
    BY AroundIs
  <2>2. Scope(nodes, n) \in 0 .. n - 1
    BY ScopeBefore
  <2> QED
    BY <1>1, <2>1, <2>2
<1>3. \A n : n \in T <=> n \in 0 .. N /\ n # 0 /\ Here(n) # {}
  OBVIOUS
<1>4. \A n : n # 0 => Here(n) = Named(ts, n, name, mask)
  OBVIOUS
<1> HIDE DEF T, Here
<1>5. /\ \A n \in 0 .. N : n \notin stop => p[n] \in 0 .. n - 1
      /\ \A n \in 0 .. N : p[n] = ParentScope(n)
      /\ \A n \in 0 .. N : v[n] = IF n \in T THEN First(Named(ts, n, name, mask)) ELSE NoEntry
      /\ \A n \in 0 .. N : n \in stop <=> (n = 0 \/ n \in T)
  BY <1>1, <1>2
<1> HIDE DEF v
<1>6. \A n \in 0 .. N : v[n] \in V
  OBVIOUS
<1>7. \A n \in 0 .. N : \A x \in V : G[n][x] = x
  OBVIOUS
<1> HIDE DEF V, p, G, stop
<1>8. PICK f : Walks(f, N, V, stop, v, p, G)
  <2>1. IsWalk(N, V, stop, v, p, G)
    BY <1>1, <1>5, <1>6, <1>7 DEF IsWalk
  <2> HIDE DEF N
  <2> QED
    BY ONLY <2>1, WalkExists
<1>9. f \in [0 .. N -> V] /\ \A n \in 0 .. N : f[n] = IF n \in stop THEN v[n] ELSE G[n][f[p[n]]]
  BY <1>8 DEF Walks
<1>10. ASSUME NEW n \in 0 .. N
       PROVE  f[n] = CASE n = 0 -> NoEntry
                       [] Here(n) # {} -> First(Here(n))
                       [] OTHER -> f[ParentScope(n)]
  <2>1. CASE n = 0
    <3>1. n \in stop /\ n \notin T /\ Here(n) = {}
      BY <1>3, <1>5, <2>1 DEF Here
    <3>2. f[n] = NoEntry
      BY <1>5, <1>9, <3>1
    <3> QED
      BY <2>1, <3>1, <3>2
  <2>2. CASE n # 0 /\ n \in T
    <3>1. n \in stop /\ Here(n) # {} /\ Here(n) = Named(ts, n, name, mask)
      BY <1>3, <1>4, <1>5, <2>2
    <3>2. f[n] = First(Here(n))
      BY <1>5, <1>9, <2>2, <3>1
    <3> QED
      BY <2>2, <3>1, <3>2
  <2>3. CASE n # 0 /\ n \notin T
    <3>1. n \notin stop /\ Here(n) = {} /\ n \in DOMAIN nodes
      BY <1>1, <1>3, <1>5, <2>3
    <3>2. ParentScope(n) \in 0 .. N
      BY <1>2, <3>1
    <3>3. f[ParentScope(n)] \in V
      BY <1>9, <3>2
    <3>4. f[n] = f[ParentScope(n)]
      BY <1>5, <1>7, <1>9, <3>1, <3>3
    <3> QED
      BY <2>3, <3>1, <3>4
  <2> QED
    BY <2>1, <2>2, <2>3
<1>11. Eqn(f)
  BY <1>9, <1>10
<1> DEFINE e == CHOOSE g : Eqn(g)
<1>12. Eqn(e)
  <2> HIDE DEF Eqn
  <2> QED
    BY <1>11
<1>13. \A n : GetSymbol(ts, n, name, mask) = e[n]
  BY DEF GetSymbol, First, Here
<1> HIDE DEF e
<1>14. \A n \in 0 .. N : e[n] = CASE n = 0 -> NoEntry
                                  [] Here(n) # {} -> First(Here(n))
                                  [] OTHER -> e[ParentScope(n)]
  BY <1>12
<1>15. e[0] = NoEntry
  <2> DEFINE zero == 0
  <2>1. zero = 0 /\ Here(zero) = {}
    BY DEF Here
  <2> HIDE DEF zero
  <2>2. zero \in 0 .. N
    BY <1>1, <2>1
  <2>3. e[zero] = NoEntry
    BY ONLY <1>14, <2>1, <2>2
  <2> QED
    BY <2>1, <2>3
<1>16. ASSUME NEW n \in DOMAIN nodes
       PROVE  e[n] = IF Named(ts, n, name, mask) # {} THEN First(Named(ts, n, name, mask))
                     ELSE e[Scope(nodes, n)]
  <2>1. n \in 0 .. N /\ n # 0 /\ ParentScope(n) = Scope(nodes, n)
    BY <1>1, <1>2
  <2> QED
    BY <1>4, <1>14, <2>1
<1> QED
  BY <1>13, <1>15, <1>16

(* The entries of a name in the scopes around and at n, and those of the innermost. *)
Visible(ns, ts, name, mask, n) == {e \in ts : e.name = name /\ e.table \in mask /\ Under(ns, e.block, n)}
BlocksOf(es) == {e.block : e \in es}
Nearest(es) == {e \in es : e.block = Innermost(BlocksOf(es))}
InBlocks(ns, ts) == \A e \in ts : e.block \in DOMAIN ns /\ ns[e.block].kind = "block"

LEMMA GetSymbolFinds ==
  ASSUME Tree(nodes), Formed(nodes), NEW b \in DOMAIN nodes, nodes[b].kind = "block", AllLinked(nodes, b),
         NEW ts, InBlocks(nodes, ts), NEW name, NEW mask
  PROVE  LET es == Visible(nodes, ts, name, mask, b)
         IN /\ GetSymbol(ts, b, name, mask) = IF es = {} THEN NoEntry ELSE First(Nearest(es))
            /\ es # {} => Nearest(es) # {}
<1> DEFINE Es(n) == Visible(nodes, ts, name, mask, n)
           Here(n) == Named(ts, n, name, mask)
           Right(n, x) == /\ x = IF Es(n) = {} THEN NoEntry ELSE First(Nearest(Es(n)))
                          /\ Es(n) # {} => Nearest(Es(n)) # {}
<1>1. PICK f : /\ \A n : GetSymbol(ts, n, name, mask) = f[n]
               /\ f[0] = NoEntry
               /\ \A n \in DOMAIN nodes : f[n] = IF Here(n) # {} THEN First(Here(n)) ELSE f[Scope(nodes, n)]
  BY GetSymbolIs
<1> DEFINE S == {n \in DOMAIN nodes : nodes[n].kind = "block" /\ AllLinked(nodes, n) /\ ~Right(n, f[n])}
<1>2. DOMAIN nodes = 1 .. Len(nodes) /\ Len(nodes) \in Nat
  BY DEF Tree
<1>3. ASSUME NEW n \in S
      PROVE  \E j \in S : j < n
  <2>1. n \in DOMAIN nodes /\ nodes[n].kind = "block" /\ AllLinked(nodes, n) /\ ~Right(n, f[n])
    OBVIOUS
  <2>2. f[n] = IF Here(n) # {} THEN First(Here(n)) ELSE f[Scope(nodes, n)]
    BY <1>1, <2>1
  <2>3. Here(n) = {e \in Es(n) : e.block = n}
    BY DEF Named, Visible, Under
  <2>4. \A e \in Es(n) : e.block = n \/ (e.block \in AboveIn(nodes, n) /\ nodes[e.block].kind = "block")
    BY DEF Visible, Under, InBlocks
  <2>5. \A k \in AboveIn(nodes, n) : k \in Nat /\ k < n
    BY <2>1, AboveLess
  <2> HIDE DEF S, Es, Here
  <2>6. CASE Here(n) # {}
    <3>1. n \in BlocksOf(Es(n)) /\ \A k \in BlocksOf(Es(n)) : k \in Nat /\ k <= n
      BY <1>2, <2>1, <2>3, <2>4, <2>5, <2>6 DEF BlocksOf
    <3>2. Innermost(BlocksOf(Es(n))) = n
      <4> DEFINE A == BlocksOf(Es(n))
      <4> HIDE DEF A
      <4>1. n \in A /\ (\A k \in A : k \in Nat /\ k <= n) /\ n \in Nat
        BY <1>2, <2>1, <3>1 DEF A
      <4>2. Innermost(A) = n
        BY ONLY <4>1, InnermostIs
      <4> QED
        BY <4>2 DEF A
    <3>3. Nearest(Es(n)) = Here(n) /\ Es(n) # {}
      BY <2>3, <2>6, <3>2 DEF Nearest
    <3> QED
      BY <2>1, <2>2, <2>6, <3>3
  <2>7. CASE Here(n) = {}
    <3>1. CASE n = 1 /\ Scope(nodes, n) = 0 /\ AboveIn(nodes, n) = {}
      <4>1. Es(n) = {}
        BY <2>3, <2>4, <2>7, <3>1
      <4> QED
        BY <1>1, <2>1, <2>2, <2>7, <3>1, <4>1
    <3>2. ASSUME NEW x \in DOMAIN nodes, x = Scope(nodes, n), x < n, nodes[x].kind = "block", AllLinked(nodes, x),
                 {x} \cup AboveIn(nodes, x) \subseteq AboveIn(nodes, n),
                 \A m \in AboveIn(nodes, n) : nodes[m].kind = "block" => m \in {x} \cup AboveIn(nodes, x)
          PROVE  \E j \in S : j < n
      <4>1. Es(n) = Es(x)
        <5>1. \A e \in Es(n) : Under(nodes, e.block, x)
          BY <2>3, <2>4, <2>7, <3>2 DEF Under
        <5>2. \A e : Under(nodes, e.block, x) => Under(nodes, e.block, n)
          BY <3>2 DEF Under
        <5> QED
          BY <5>1, <5>2 DEF Es, Visible
      <4>2. ~Right(x, f[x])
        BY <2>1, <2>2, <2>7, <3>2, <4>1
      <4>3. x \in S
        BY <3>2, <4>2 DEF S
      <4> QED
        BY <3>2, <4>3
    <3> QED
      BY <2>1, <3>1, <3>2, ScopeIs
  <2> QED
    BY <2>6, <2>7
<1>4. S = {}
  <2>1. S \in SUBSET Nat
    BY <1>2
  <2> HIDE DEF S
  <2> QED
    BY ONLY <1>3, <2>1, NoLeastNoElement
<1> QED
  BY <1>1, <1>4

(* One entry for a name in a table.                                            *)
Single(ts) == \A d, e \in ts : d.block = e.block /\ d.table = e.table /\ d.name = e.name => d = e

LEMMA EarlierIs ==
  /\ \A d, e : d.table = "FUNCTION" /\ e.table \in {"VARIABLE", "TYPE"} => Earlier(d, e)
  /\ \A d, e : d.table = "VARIABLE" /\ e.table = "TYPE" => Earlier(d, e)
  /\ \A d, e : e.table = "FUNCTION" => ~Earlier(d, e)
  /\ \A d, e : Earlier(d, e) /\ e.table = "VARIABLE" => d.table = "FUNCTION"
<1>1. /\ DOMAIN Order = 1 .. 4 /\ Order[1] = "FUNCTION" /\ Order[2] = "VARIABLE"
      /\ Order[3] = "CLASS" /\ Order[4] = "TYPE"
  BY DEF Order
<1> QED
  BY <1>1 DEF Earlier

(* A function before a variable before a type.                                  *)
LEMMA FirstIs ==
  ASSUME NEW here, here # {}, \A e \in here : e.table \in {"FUNCTION", "VARIABLE", "TYPE"},
         \A d, e \in here : d.table = e.table => d = e
  PROVE  LET in(table) == {e \in here : e.table = table}
         IN First(here) = CASE in("FUNCTION") # {} -> CHOOSE e \in in("FUNCTION") : TRUE
                            [] in("FUNCTION") = {} /\ in("VARIABLE") # {} -> CHOOSE e \in in("VARIABLE") : TRUE
                            [] OTHER -> CHOOSE e \in in("TYPE") : TRUE
<1> DEFINE in(table) == {e \in here : e.table = table}
           Best(e) == \A d \in here \ {e} : Earlier(e, d)
<1>1. ASSUME NEW table, NEW e \in in(table)
      PROVE  (CHOOSE d \in in(table) : TRUE) = e
  <2>1. (CHOOSE d \in in(table) : TRUE) \in in(table)
    BY <1>1
  <2> QED
    BY <2>1
<1>2. ASSUME NEW e \in here, Best(e), \A d \in here : Best(d) => d = e
      PROVE  First(here) = e
  <2> HIDE DEF Best
  <2>1. First(here) = CHOOSE d \in here : Best(d)
    BY DEF First, Best
  <2> QED
    BY <1>2, <2>1
<1>3. CASE in("FUNCTION") # {}
  <2>1. PICK e \in in("FUNCTION") : TRUE
    BY <1>3
  <2>2. Best(e)
    BY <2>1, EarlierIs
  <2>3. \A d \in here : Best(d) => d = e
    BY <2>1, EarlierIs
  <2>4. First(here) = e
    BY <1>2, <2>1, <2>2, <2>3
  <2> QED
    BY <1>1, <1>3, <2>4
<1>4. CASE in("FUNCTION") = {} /\ in("VARIABLE") # {}
  <2>1. PICK e \in in("VARIABLE") : TRUE
    BY <1>4
  <2>2. Best(e)
    BY <1>4, <2>1, EarlierIs
  <2>3. \A d \in here : Best(d) => d = e
    BY <1>4, <2>1, EarlierIs
  <2>4. First(here) = e
    BY <1>2, <2>1, <2>2, <2>3
  <2> QED
    BY <1>1, <1>4, <2>4
<1>5. CASE in("FUNCTION") = {} /\ in("VARIABLE") = {}
  <2>1. PICK e \in here : TRUE
    OBVIOUS
  <2>2. e \in in("TYPE") /\ \A d \in here : d = e
    BY <1>5, <2>1
  <2>3. Best(e)
    BY <2>2
  <2>4. First(here) = e
    BY <1>2, <2>2, <2>3
  <2> QED
    BY <1>1, <1>5, <2>2, <2>4
<1> QED
  BY <1>3, <1>4, <1>5

-----------------------------------------------------------------------------
(* Declarations.                                                             *)

DeclaredTables(kind) ==
  CASE kind \in {"let", "define"} -> {"VARIABLE"}
    [] kind = "class" -> {"TYPE", "CLASS"}
    [] kind = "function" -> {"VARIABLE", "FUNCTION"}
    [] OTHER -> {}
DeclaresIn(ns, n, b) == {Entry(b, table, ns[n].name, n) : table \in DeclaredTables(ns[n].kind)}
ArgumentsIn(ns, n) ==
  IF ns[n].argument = None THEN {} ELSE {Entry(ns[n].body[1], "VARIABLE", ns[n].argument, n)}
EntriesIn(ns, n) == DeclaresIn(ns, n, HolderIn(ns, n)) \cup ArgumentsIn(ns, n)
DeclarationsIn(ns) == UNION {EntriesIn(ns, n) : n \in DOMAIN ns \ {1}}

KnownIn(ns, e, n) ==
  \/ ns[e.node].kind \notin VariableKinds
  \/ e.node < n
  \/ e.node = n /\ ns[n].kind = "define"
SeenIn(ns, n, look) ==
  {e \in DeclarationsIn(ns) : /\ e.block \in AboveIn(ns, n) /\ e.name = look.name
                              /\ e.table \in Mask(look.mode) /\ KnownIn(ns, e, n)}
Chosen(es) ==
  LET in(table) == {e \in Nearest(es) : e.table = table}
  IN CASE es = {} -> NoEntry
       [] in("FUNCTION") # {} -> CHOOSE e \in in("FUNCTION") : TRUE
       [] in("FUNCTION") = {} /\ in("VARIABLE") # {} -> CHOOSE e \in in("VARIABLE") : TRUE
       [] OTHER -> CHOOSE e \in in("TYPE") : TRUE
MeaningIn(ns, n, look) == Chosen(SeenIn(ns, n, look))
TypesIn(ns, n) == IF ns[n].type = None THEN {} ELSE {[name |-> ns[n].type, mode |-> "type"]}
AllLooksIn(ns, n) == LooksOf(ns[n].value) \cup TypesIn(ns, n)

LEMMA NamesAre ==
  /\ Declarations = DeclarationsIn(nodes)
  /\ \A n, b : Declares(n, b) = DeclaresIn(nodes, n, b)
  /\ \A n : /\ Arguments(n) = ArgumentsIn(nodes, n)
            /\ Types(n) = TypesIn(nodes, n) /\ AllLooks(n) = AllLooksIn(nodes, n)
  /\ \A n, look : Meaning(n, look) = MeaningIn(nodes, n, look)
<1>1. \A n, b : Declares(n, b) = DeclaresIn(nodes, n, b)
  <2> SUFFICES ASSUME NEW n, NEW b
               PROVE  Declares(n, b) = DeclaresIn(nodes, n, b)
    OBVIOUS
  <2>1. DeclaredTables(nodes[n].kind) = CASE nodes[n].kind \in {"let", "define"} -> {"VARIABLE"}
                                          [] nodes[n].kind = "class" -> {"TYPE", "CLASS"}
                                          [] nodes[n].kind = "function" -> {"VARIABLE", "FUNCTION"}
                                          [] OTHER -> {}
    BY DEF DeclaredTables
  <2> QED
    BY <2>1 DEF Declares, DeclaresIn
<1>2. \A n : Arguments(n) = ArgumentsIn(nodes, n)
  BY DEF Arguments, ArgumentsIn
<1>3. \A n : Types(n) = TypesIn(nodes, n)
  BY DEF Types, TypesIn
<1>4. \A n : AllLooks(n) = AllLooksIn(nodes, n)
  BY <1>3 DEF AllLooks, AllLooksIn
<1>5. Declarations = DeclarationsIn(nodes)
  <2>1. \A n : Declares(n, Holder(n)) \cup Arguments(n) = EntriesIn(nodes, n)
    BY <1>1, <1>2, RulesAre DEF EntriesIn
  <2> QED
    BY <2>1 DEF Declarations, DeclarationsIn
<1>6. ASSUME NEW n, NEW look
      PROVE  Meaning(n, look) = MeaningIn(nodes, n, look)
  <2> DEFINE seen == {e \in Declarations : /\ e.block \in Above(n) /\ e.name = look.name
                                           /\ e.table \in Mask(look.mode) /\ Known(e, n)}
             here(table) == {e \in seen : e.block = Innermost({d.block : d \in seen}) /\ e.table = table}
  <2>1. seen = SeenIn(nodes, n, look)
    BY <1>5, RulesAre DEF SeenIn, Known, KnownIn, VariableKinds
  <2>2. \A table : here(table) = {e \in Nearest(seen) : e.table = table}
    BY DEF Nearest, BlocksOf
  <2>3. Meaning(n, look) = CASE seen = {} -> NoEntry
                             [] here("FUNCTION") # {} -> CHOOSE e \in here("FUNCTION") : TRUE
                             [] here("FUNCTION") = {} /\ here("VARIABLE") # {} -> CHOOSE e \in here("VARIABLE") : TRUE
                             [] OTHER -> CHOOSE e \in here("TYPE") : TRUE
    BY DEF Meaning
  <2> HIDE DEF seen, here
  <2>4. Meaning(n, look) = Chosen(seen)
    BY <2>2, <2>3 DEF Chosen
  <2> QED
    BY <2>1, <2>4 DEF MeaningIn
<1> QED
  BY <1>1, <1>2, <1>3, <1>4, <1>5, <1>6

(* The entries of a node.                                                      *)
LEMMA EntryIs ==
  ASSUME NEW b, NEW table, NEW name, NEW n
  PROVE  /\ Entry(b, table, name, n).block = b /\ Entry(b, table, name, n).table = table
         /\ Entry(b, table, name, n).name = name /\ Entry(b, table, name, n).node = n
BY DEF Entry

LEMMA TablesAre ==
  ASSUME NEW kind
  PROVE  /\ kind \in VariableKinds => DeclaredTables(kind) = {"VARIABLE"}
         /\ kind = "class" => DeclaredTables(kind) = {"TYPE", "CLASS"}
         /\ kind = "function" => DeclaredTables(kind) = {"VARIABLE", "FUNCTION"}
         /\ kind \notin VariableKinds \cup {"class", "function"} => DeclaredTables(kind) = {}
<1>1. CASE kind \in VariableKinds
  BY <1>1 DEF DeclaredTables, VariableKinds
<1>2. CASE kind = "class"
  BY <1>2 DEF DeclaredTables, VariableKinds
<1>3. CASE kind = "function"
  BY <1>3 DEF DeclaredTables, VariableKinds
<1>4. CASE kind \notin VariableKinds \cup {"class", "function"}
  BY <1>4 DEF DeclaredTables, VariableKinds
<1> QED
  BY <1>1, <1>2, <1>3, <1>4

LEMMA DeclaresAre ==
  ASSUME NEW ns, NEW n, NEW b, NEW e \in DeclaresIn(ns, n, b)
  PROVE  /\ e.node = n /\ e.block = b /\ e.name = ns[n].name /\ e.table \in DeclaredTables(ns[n].kind)
         /\ e = Entry(e.block, e.table, e.name, e.node)
         /\ ns[n].kind \in VariableKinds \cup {"class", "function"}
         /\ ns[n].kind \in VariableKinds => e.table = "VARIABLE"
         /\ ns[n].kind = "class" => e.table \in {"TYPE", "CLASS"}
         /\ ns[n].kind = "function" => e.table \in {"VARIABLE", "FUNCTION"}
<1>1. PICK table \in DeclaredTables(ns[n].kind) : e = Entry(b, table, ns[n].name, n)
  BY DEF DeclaresIn
<1>2. e.node = n /\ e.block = b /\ e.name = ns[n].name /\ e.table = table
  BY <1>1, EntryIs
<1> QED
  BY <1>1, <1>2, TablesAre

LEMMA ArgumentsAre ==
  ASSUME NEW ns, Tree(ns), Formed(ns), NEW n \in DOMAIN ns, NEW e \in ArgumentsIn(ns, n)
  PROVE  /\ e.node = n /\ e.block = ns[n].body[1] /\ e.name = ns[n].argument /\ e.table = "VARIABLE"
         /\ e = Entry(e.block, e.table, e.name, e.node)
         /\ ns[n].kind \in FunctionKinds /\ n # 1
         /\ e.block \in DOMAIN ns /\ ns[e.block].kind = "block" /\ HolderIn(ns, e.block) = n
         /\ e.block # HolderIn(ns, n) /\ AboveIn(ns, e.block) = {n} \cup AboveIn(ns, n) /\ e.block # 1
<1>1. ns[n].argument # None /\ e = Entry(ns[n].body[1], "VARIABLE", ns[n].argument, n)
  BY DEF ArgumentsIn
<1>2. e.node = n /\ e.block = ns[n].body[1] /\ e.name = ns[n].argument /\ e.table = "VARIABLE"
  BY <1>1, EntryIs
<1>3. Form(ns, n) /\ FormOf(ns[n]) /\ ns[n] \in NodeRecords
  BY DEF Formed, Form, Tree
<1>4. ns[n].kind \in FunctionKinds /\ Len(ns[n].body) = 1
  BY <1>1, <1>3 DEF FormOf
<1>5. ns[n].body \in Seq(Nat)
  BY <1>3 DEF NodeRecords
<1>6. 1 \in DOMAIN ns[n].body
  BY <1>4, <1>5
<1>7. /\ e.block \in DOMAIN ns /\ HolderIn(ns, e.block) = n /\ n < e.block /\ e.block # 1
      /\ AboveIn(ns, e.block) = {n} \cup AboveIn(ns, n)
  BY <1>2, <1>6, UnderHolder
<1>8. ns[n].kind # "block" /\ n # 1
  BY <1>4 DEF FunctionKinds, Formed
<1>9. ns[e.block].kind = "block"
  BY <1>2, <1>3, <1>6, <1>8 DEF Form
<1>10. e.block # HolderIn(ns, n)
  <2>1. HolderIn(ns, n) \in 1 .. n - 1 /\ DOMAIN ns = 1 .. Len(ns) /\ Len(ns) \in Nat
    BY <1>8, HolderHolds DEF Tree
  <2> QED
    BY <1>7, <2>1
<1> QED
  BY <1>1, <1>2, <1>4, <1>7, <1>8, <1>9, <1>10

LEMMA DeclarationIs ==
  ASSUME NEW ns, Tree(ns), Formed(ns), NEW e \in DeclarationsIn(ns)
  PROVE  /\ e.node \in DOMAIN ns /\ e.node # 1 /\ e \in EntriesIn(ns, e.node)
         /\ e.block \in DOMAIN ns /\ ns[e.block].kind = "block"
         /\ e = Entry(e.block, e.table, e.name, e.node)
         /\ \/ e \in DeclaresIn(ns, e.node, HolderIn(ns, e.node)) /\ e.block = HolderIn(ns, e.node)
            \/ e \in ArgumentsIn(ns, e.node) /\ HolderIn(ns, e.block) = e.node /\ e.block # 1
<1>1. PICK n \in DOMAIN ns \ {1} : e \in EntriesIn(ns, n)
  BY DEF DeclarationsIn
<1>2. CASE e \in DeclaresIn(ns, n, HolderIn(ns, n))
  <2>1. /\ e.node = n /\ e.block = HolderIn(ns, n) /\ e = Entry(e.block, e.table, e.name, e.node)
        /\ ns[n].kind \in VariableKinds \cup {"class", "function"}
    BY <1>2, DeclaresAre
  <2>2. /\ HolderIn(ns, n) \in DOMAIN ns
        /\ \E i \in DOMAIN ns[HolderIn(ns, n)].body : ns[HolderIn(ns, n)].body[i] = n
    BY <1>1, HolderHolds
  <2>3. Form(ns, HolderIn(ns, n)) /\ ns[n].kind # "block"
    BY <2>1, <2>2 DEF Formed, VariableKinds
  <2>4. ns[HolderIn(ns, n)].kind = "block"
    BY <2>2, <2>3 DEF Form
  <2> QED
    BY <1>1, <1>2, <2>1, <2>2, <2>4
<1>3. CASE e \in ArgumentsIn(ns, n)
  <2>1. /\ e.node = n /\ e = Entry(e.block, e.table, e.name, e.node)
        /\ e.block \in DOMAIN ns /\ ns[e.block].kind = "block" /\ HolderIn(ns, e.block) = n /\ e.block # 1
    BY <1>1, <1>3, ArgumentsAre
  <2> QED
    BY <1>1, <1>3, <2>1
<1> QED
  BY <1>1, <1>2, <1>3 DEF EntriesIn

(* Where the entries that are seen and in the tables are the same, so is what they mean. *)
Sees(ns, ts, n, look) ==
  \A e : e.block \in AboveIn(ns, n) /\ e.name = look.name /\ e.table \in Mask(look.mode) =>
    (e \in ts <=> e \in DeclarationsIn(ns) /\ KnownIn(ns, e, n))
LookModes == Modes \cup {"type"}

LEMMA MaskIs ==
  ASSUME NEW mode \in LookModes
  PROVE  /\ Mask(mode) \subseteq {"FUNCTION", "VARIABLE", "TYPE"}
         /\ mode = "type" => Mask(mode) = {"TYPE"}
<1>1. mode \in {"get", "set", "identity", "native", "new", "type"}
  BY DEF LookModes, Modes
<1> QED
  BY <1>1 DEF Mask

LEMMA LookUp ==
  ASSUME Tree(nodes), Formed(nodes), NEW b \in DOMAIN nodes, nodes[b].kind = "block", AllLinked(nodes, b),
         NEW n \in DOMAIN nodes, AboveIn(nodes, n) = {b} \cup AboveIn(nodes, b),
         NEW ts, InBlocks(nodes, ts), Single(ts), NEW look, look.mode \in LookModes, Sees(nodes, ts, n, look)
  PROVE  GetSymbol(ts, b, look.name, Mask(look.mode)) = MeaningIn(nodes, n, look)
<1> DEFINE es == Visible(nodes, ts, look.name, Mask(look.mode), b)
<1>1. /\ GetSymbol(ts, b, look.name, Mask(look.mode)) = IF es = {} THEN NoEntry ELSE First(Nearest(es))
      /\ es # {} => Nearest(es) # {}
  BY GetSymbolFinds
<1>2. es = SeenIn(nodes, n, look)
  <2>1. \A e : Under(nodes, e.block, b) <=> e.block \in AboveIn(nodes, n)
    BY DEF Under
  <2> QED
    BY <2>1 DEF Visible, SeenIn, Sees
<1>3. CASE es = {}
  <2> HIDE DEF es
  <2>1. Chosen(es) = NoEntry
    BY <1>3 DEF Chosen, Nearest
  <2> QED
    BY <1>1, <1>2, <1>3, <2>1 DEF MeaningIn
<1>4. CASE es # {}
  <2> DEFINE here == Nearest(es)
  <2>1. here # {}
    BY <1>1, <1>4
  <2>2. \A e \in here : e \in ts /\ e.name = look.name /\ e.table \in Mask(look.mode) /\ e.block = Innermost(BlocksOf(es))
    BY DEF Nearest, Visible
  <2>3. \A e \in here : e.table \in {"FUNCTION", "VARIABLE", "TYPE"}
    BY <2>2, MaskIs
  <2>4. \A d, e \in here : d.table = e.table => d = e
    BY <2>2 DEF Single
  <2> HIDE DEF here
  <2> DEFINE in(table) == {e \in here : e.table = table}
  <2>5. First(here) = CASE in("FUNCTION") # {} -> CHOOSE e \in in("FUNCTION") : TRUE
                        [] in("FUNCTION") = {} /\ in("VARIABLE") # {} -> CHOOSE e \in in("VARIABLE") : TRUE
                        [] OTHER -> CHOOSE e \in in("TYPE") : TRUE
    BY ONLY <2>1, <2>3, <2>4, FirstIs
  <2>6. Chosen(es) = CASE es = {} -> NoEntry
                       [] in("FUNCTION") # {} -> CHOOSE e \in in("FUNCTION") : TRUE
                       [] in("FUNCTION") = {} /\ in("VARIABLE") # {} -> CHOOSE e \in in("VARIABLE") : TRUE
                       [] OTHER -> CHOOSE e \in in("TYPE") : TRUE
    BY DEF Chosen, here
  <2> HIDE DEF in
  <2>7. Chosen(es) = First(here)
    <3> HIDE DEF es
    <3> QED
      BY ONLY <1>4, <2>5, <2>6
  <2> QED
    BY <1>1, <1>2, <1>4, <2>7 DEF MeaningIn, here
<1> QED
  BY <1>3, <1>4

-----------------------------------------------------------------------------
(* What has been declared by now.                                            *)

HoistedIn(ns, e) ==
  \/ ns[e.node].kind = "class"
  \/ ns[e.node].kind = "function" /\ e.block = HolderIn(ns, e.node)
Pending(ns, cs, e) == IF HoistedIn(ns, e) THEN ToHoist(ns, cs, e.node) ELSE ToCome(ns, cs, e.node)

(* All the blocks around have a call, which is past what the inner ones are in.   *)
LEMMA CallOf ==
  ASSUME ControlInv, Running, NEW b \in {Block} \cup AboveIn(nodes, Block), nodes[b].kind = "block"
  PROVE  \E k \in DOMAIN calls :
           /\ calls[k].block = b
           /\ \/ k = Len(calls) /\ b = Block
              \/ /\ k < Len(calls) /\ b \in AboveIn(nodes, Block) /\ b # Block
                 /\ calls[k].at - 1 \in DOMAIN nodes[b].body
                 /\ Under(nodes, nodes[b].body[calls[k].at - 1], Block)
<1>1. /\ CallsInv(nodes, calls) /\ Len(calls) \in DOMAIN calls /\ Block = calls[Len(calls)].block
      /\ Tree(nodes) /\ Block \in DOMAIN nodes
  BY RunningIs
<1>2. CASE b = Block
  BY <1>1, <1>2
<1>3. CASE b \in AboveIn(nodes, Block)
  <2>1. Around1(nodes, calls, Len(calls))
    BY <1>1 DEF CallsInv
  <2>2. PICK k \in DOMAIN calls : /\ k < Len(calls) /\ calls[k].block = b /\ calls[k].at - 1 \in DOMAIN nodes[b].body
                                  /\ Under(nodes, nodes[b].body[calls[k].at - 1], Block)
    BY <1>1, <1>3, <2>1 DEF Around1
  <2>3. b # Block
    BY <1>1, <1>3, AboveLess
  <2> QED
    BY <1>3, <2>2, <2>3
<1> QED
  BY <1>2, <1>3

(* Functions, classes and arguments of the blocks around.                       *)
LEMMA EarlierDeclared ==
  ASSUME ControlInv, Running, NEW e \in DeclarationsIn(nodes), e.block \in {Block} \cup AboveIn(nodes, Block),
         nodes[e.node].kind \notin VariableKinds, e.block = Block => Last(calls).at # 0
  PROVE  ~Pending(nodes, calls, e)
<1>1. /\ Tree(nodes) /\ Formed(nodes) /\ Called(nodes, calls) /\ Apart(nodes, calls)
      /\ Block = calls[Len(calls)].block /\ Last(calls).at = calls[Len(calls)].at /\ Block \in DOMAIN nodes
      /\ nodes \in Seq(NodeRecords)
  BY RunningIs
<1>2. /\ e.node \in DOMAIN nodes /\ e.node # 1
      /\ e.block \in DOMAIN nodes /\ nodes[e.block].kind = "block"
      /\ \/ e \in DeclaresIn(nodes, e.node, HolderIn(nodes, e.node)) /\ e.block = HolderIn(nodes, e.node)
         \/ e \in ArgumentsIn(nodes, e.node) /\ HolderIn(nodes, e.block) = e.node /\ e.block # 1
  BY <1>1, DeclarationIs
<1>3. PICK k \in DOMAIN calls :
        /\ calls[k].block = e.block
        /\ \/ k = Len(calls) /\ e.block = Block
           \/ calls[k].at - 1 \in DOMAIN nodes[e.block].body
  BY <1>2, CallOf
<1>4. CASE e \in DeclaresIn(nodes, e.node, HolderIn(nodes, e.node)) /\ e.block = HolderIn(nodes, e.node)
  <2>1. HoistedIn(nodes, e)
    <3>1. nodes[e.node].kind \in VariableKinds \cup {"class", "function"}
      BY <1>4, DeclaresAre
    <3> QED
      BY <1>4, <3>1 DEF HoistedIn
  <2>2. PICK j \in DOMAIN nodes[e.block].body : nodes[e.block].body[j] = e.node
    BY <1>1, <1>2, <1>4, HolderHolds
  <2>3. ToHoist(nodes, calls, e.node) <=> calls[k].at = 0
    <3>1. j \in DOMAIN nodes[calls[k].block].body /\ nodes[calls[k].block].body[j] = e.node
      BY <1>3, <2>2
    <3>2. ToHoist(nodes, calls, nodes[calls[k].block].body[j]) <=> calls[k].at = 0
      BY <1>1, <3>1, StatementComing
    <3> QED
      BY <3>1, <3>2
  <2>4. calls[k].at # 0
    <3>1. CASE k = Len(calls) /\ e.block = Block
      BY <1>1, <3>1
    <3>2. CASE calls[k].at - 1 \in DOMAIN nodes[e.block].body
      <4>1. nodes[e.block] \in NodeRecords
        BY <1>1, <1>2
      <4>2. nodes[e.block].body \in Seq(Nat)
        BY <4>1 DEF NodeRecords
      <4>3. calls[k].at - 1 >= 1
        BY <3>2, <4>2
      <4> QED
        BY <4>3
    <3> QED
      BY <1>3, <3>1, <3>2
  <2> QED
    BY <2>1, <2>3, <2>4 DEF Pending
<1>5. CASE e \in ArgumentsIn(nodes, e.node) /\ HolderIn(nodes, e.block) = e.node /\ e.block # 1
  <2>1. nodes[e.node].kind \in FunctionKinds /\ e.block # HolderIn(nodes, e.node)
    BY <1>1, <1>2, <1>5, ArgumentsAre
  <2>2. ~HoistedIn(nodes, e)
    BY <2>1 DEF HoistedIn, FunctionKinds
  <2>3. Under(nodes, e.node, calls[k].block)
    BY <1>1, <1>2, <1>3, <1>5, AboveIs DEF Under
  <2>4. ~ToCome(nodes, calls, e.node)
    BY <1>1, <2>3, AboveNotComing
  <2> QED
    BY <2>2, <2>4 DEF Pending
<1> QED
  BY <1>2, <1>4, <1>5

(* A variable of a block around: its declaration lies before the statement that    *)
(* analyze is at, or after it.                                                *)
LEMMA VariableDeclared ==
  ASSUME ControlInv, NEW kinds, At(kinds), NEW e \in DeclarationsIn(nodes),
         e.block \in AboveIn(nodes, Statement), nodes[e.node].kind \in VariableKinds
  PROVE  ~Pending(nodes, calls, e) <=> e.node < Statement
<1>1. /\ Tree(nodes) /\ Formed(nodes) /\ Sorted(nodes) /\ Called(nodes, calls) /\ Apart(nodes, calls)
      /\ Block = calls[Len(calls)].block /\ Last(calls).at = calls[Len(calls)].at /\ Block \in DOMAIN nodes
      /\ nodes \in Seq(NodeRecords) /\ Running /\ DOMAIN nodes \subseteq Nat /\ nodes[Block].kind = "block"
  <2>1. Running
    BY DEF At
  <2>2. DOMAIN nodes \subseteq Nat
    <3>1. DOMAIN nodes = 1 .. Len(nodes) /\ Len(nodes) \in Nat
      BY <2>1, RunningIs
    <3> QED
      BY <3>1
  <2> QED
    BY <2>1, <2>2, RunningIs
<1>2. /\ calls[Len(calls)].at \in DOMAIN nodes[Block].body
      /\ Statement = nodes[Block].body[calls[Len(calls)].at]
      /\ Statement \in DOMAIN nodes /\ Statement # 1 /\ HolderIn(nodes, Statement) = Block
      /\ AboveIn(nodes, Statement) = {Block} \cup AboveIn(nodes, Block)
  BY AtIs
<1>3. /\ e.node \in DOMAIN nodes /\ e.node # 1
      /\ e.block \in DOMAIN nodes /\ nodes[e.block].kind = "block"
      /\ \/ e \in DeclaresIn(nodes, e.node, HolderIn(nodes, e.node)) /\ e.block = HolderIn(nodes, e.node)
         \/ e \in ArgumentsIn(nodes, e.node)
  BY <1>1, DeclarationIs
<1>4. e.block = HolderIn(nodes, e.node)
  <2>1. e \in ArgumentsIn(nodes, e.node) => nodes[e.node].kind \in FunctionKinds
    BY <1>1, <1>3, ArgumentsAre
  <2> QED
    BY <1>3, <2>1 DEF VariableKinds, FunctionKinds
<1>5. ~HoistedIn(nodes, e)
  BY DEF HoistedIn, VariableKinds
<1> DEFINE b == e.block
           body == nodes[b].body
<1>6. PICK i \in DOMAIN body : body[i] = e.node
  BY <1>1, <1>3, <1>4, HolderHolds
<1>7. body \in Seq(Nat)
  <2>1. nodes[b] \in NodeRecords
    BY <1>1, <1>3
  <2> QED
    BY <2>1 DEF NodeRecords
<1>8. PICK k \in DOMAIN calls :
        /\ calls[k].block = b
        /\ \/ k = Len(calls) /\ b = Block
           \/ /\ k < Len(calls) /\ b \in AboveIn(nodes, Block) /\ b # Block
              /\ calls[k].at - 1 \in DOMAIN body
              /\ Under(nodes, body[calls[k].at - 1], Block)
  BY <1>1, <1>2, <1>3, CallOf
<1>9. ToCome(nodes, calls, e.node) <=> i >= calls[k].at
  <2>1. i \in DOMAIN nodes[calls[k].block].body /\ nodes[calls[k].block].body[i] = e.node
    BY <1>6, <1>8
  <2>2. ToCome(nodes, calls, nodes[calls[k].block].body[i]) <=> i >= calls[k].at
    BY <1>1, <2>1, StatementComing
  <2> QED
    BY <2>1, <2>2
<1>10. ~Pending(nodes, calls, e) <=> ~(i >= calls[k].at)
  BY <1>5, <1>9 DEF Pending
(* The statement of block b that Statement is in.                              *)
<1>11. \E j \in DOMAIN body : /\ (j = calls[k].at /\ body[j] = Statement) \/ (j = calls[k].at - 1 /\ body[j] \in AboveIn(nodes, Statement))
  <2>1. CASE k = Len(calls) /\ b = Block
    BY <1>2, <2>1
  <2>2. CASE calls[k].at - 1 \in DOMAIN body /\ Under(nodes, body[calls[k].at - 1], Block)
    BY <1>2, <2>2 DEF Under
  <2> QED
    BY <1>8, <2>1, <2>2
<1>12. PICK j \in DOMAIN body : /\ (j = calls[k].at /\ body[j] = Statement) \/ (j = calls[k].at - 1 /\ body[j] \in AboveIn(nodes, Statement))
  BY <1>11
<1>13. i \in Nat /\ j \in Nat /\ calls[k].at \in Nat
  <2>1. calls[k].at \in Nat
    BY <1>1, CallIs
  <2> HIDE DEF body
  <2>2. i \in Nat /\ j \in Nat
    BY <1>7
  <2> QED
    BY <2>1, <2>2
<1>14. /\ body[j] \in DOMAIN nodes /\ body[j] \in Nat /\ Statement \in Nat /\ Under(nodes, body[j], Statement)
       /\ body[j] <= Statement /\ (body[j] # Statement => body[j] < Statement) /\ e.node \in Nat
  <2>1. body[j] \in DOMAIN nodes
    BY <1>1, <1>3, UnderHolder
  <2>2. body[j] \in AboveIn(nodes, Statement) => body[j] < Statement
    BY <1>1, <1>2, AboveLess
  <2> QED
    BY <1>1, <1>2, <1>3, <1>12, <2>1, <2>2 DEF Under
<1>15. CASE i < j
  <2>1. e.node < body[j]
    BY <1>1, <1>3, <1>6, <1>15 DEF Sorted
  <2> QED
    BY <1>10, <1>12, <1>13, <1>14, <1>15, <2>1
<1>16. CASE i > j
  <2>1. j < i /\ nodes[body[i]].kind \in VariableKinds
    BY <1>6, <1>13, <1>16
  <2>2. Statement < body[i]
    BY <1>1, <1>2, <1>3, <1>14, <2>1 DEF Sorted
  <2> QED
    BY <1>6, <1>10, <1>12, <1>13, <1>14, <1>16, <2>2
<1>17. CASE i = j
  <2>1. body[j] = Statement
    <3>1. SUFFICES ASSUME body[j] \in AboveIn(nodes, Statement)
                   PROVE  FALSE
      BY <1>12
    <3>2. e.node \in AboveIn(nodes, Statement)
      BY <1>6, <1>17, <3>1
    <3>3. \E m \in DOMAIN nodes[e.node].body : TRUE
      BY <1>1, <1>2, <3>2, AboveDown
    <3>4. FormOf(nodes[e.node])
      BY <1>1, <1>3 DEF Formed, Form
    <3>5. nodes[e.node].kind \notin {"block", "if"} \cup FunctionKinds \cup LoopKinds
      BY DEF VariableKinds, FunctionKinds, LoopKinds
    <3>6. nodes[e.node].body = <<>>
      BY <3>4, <3>5 DEF FormOf
    <3> QED
      BY <3>3, <3>6
  <2>2. j = calls[k].at
    <3>1. body[j] \notin AboveIn(nodes, Statement)
      BY <1>1, <1>2, <2>1, AboveLess
    <3> QED
      BY <1>12, <3>1
  <2> QED
    BY <1>6, <1>10, <1>13, <1>14, <1>17, <2>1, <2>2
<1> QED
  BY <1>13, <1>15, <1>16, <1>17

-----------------------------------------------------------------------------
(* The invariant: tables, finds and verdicts.                                *)

TypesPending(ns, cs, n) == IF ns[n].kind = "define" THEN ToCome(ns, cs, n) ELSE ToHoist(ns, cs, n)
FoundAt(fs, n, look) == \E f \in fs : f.node = n /\ f.look = look
GoodFind(ns, f) ==
  f.node \in DOMAIN ns /\ f.entry = MeaningIn(ns, f.node, f.look) /\ Fault(f.look, f.entry) = ""
EmptyNode(ns, n) ==
  ns[n].kind = "return nothing" \/ (ns[n].kind \in LoopKinds /\ ns[n].body = <<>>)

TablesInv ==
  tables = {e \in DeclarationsIn(nodes) : ~Pending(nodes, calls, e)} /\ Single(tables)
FoundInv ==
  /\ \A f \in found : GoodFind(nodes, f)
  /\ \A n \in DOMAIN nodes : \A look \in LooksOf(nodes[n].value) :
       ToCome(nodes, calls, n) \/ FoundAt(found, n, look)
  /\ \A n \in DOMAIN nodes : \A look \in TypesIn(nodes, n) :
       TypesPending(nodes, calls, n) \/ FoundAt(found, n, look)
EmptyInv == \A n \in DOMAIN nodes : EmptyNode(nodes, n) => ToCome(nodes, calls, n)
NamesInv ==
  /\ ~Begun => tables = {} /\ found = {}
  /\ Begun => TablesInv /\ FoundInv /\ EmptyInv

(* What declares is no block.                                                  *)
LEMMA DeclarationKinds ==
  ASSUME NEW ns, Tree(ns), Formed(ns), NEW e \in DeclarationsIn(ns)
  PROVE  /\ ns[e.node].kind \in VariableKinds \cup {"class"} \cup FunctionKinds /\ ns[e.node].kind # "block"
         /\ ns[e.node].kind \in VariableKinds => e.table = "VARIABLE" /\ e.block = HolderIn(ns, e.node)
         /\ e.table \in {"TYPE", "CLASS"} => ns[e.node].kind = "class" /\ e.block = HolderIn(ns, e.node)
<1>1. /\ e.node \in DOMAIN ns
      /\ \/ e \in DeclaresIn(ns, e.node, HolderIn(ns, e.node)) /\ e.block = HolderIn(ns, e.node)
         \/ e \in ArgumentsIn(ns, e.node)
  BY DeclarationIs
<1>2. CASE e \in DeclaresIn(ns, e.node, HolderIn(ns, e.node)) /\ e.block = HolderIn(ns, e.node)
  <2>1. /\ ns[e.node].kind \in VariableKinds \cup {"class", "function"}
        /\ ns[e.node].kind \in VariableKinds => e.table = "VARIABLE"
        /\ ns[e.node].kind = "function" => e.table \in {"VARIABLE", "FUNCTION"}
    BY <1>2, DeclaresAre
  <2> QED
    BY <1>2, <2>1 DEF VariableKinds, FunctionKinds
<1>3. CASE e \in ArgumentsIn(ns, e.node)
  <2>1. ns[e.node].kind \in FunctionKinds /\ e.table = "VARIABLE"
    BY <1>1, <1>3, ArgumentsAre
  <2> QED
    BY <2>1 DEF VariableKinds, FunctionKinds
<1> QED
  BY <1>1, <1>2, <1>3

(* What is declared when analyze comes to a statement.                          *)
NewAt(ns, s) == {e \in DeclarationsIn(ns) : e.node = s /\ ~HoistedIn(ns, e)}

LEMMA EntriesOf ==
  ASSUME NEW ns, Tree(ns), Formed(ns), NEW s \in DOMAIN ns, s # 1
  PROVE  \A e : e \in DeclarationsIn(ns) /\ e.node = s <=> e \in EntriesIn(ns, s)
<1>1. \A e \in EntriesIn(ns, s) : e.node = s
  BY DeclaresAre, ArgumentsAre DEF EntriesIn
<1>2. \A e \in EntriesIn(ns, s) : e \in DeclarationsIn(ns)
  BY DEF DeclarationsIn
<1>3. \A e \in DeclarationsIn(ns) : e \in EntriesIn(ns, e.node)
  BY DeclarationIs
<1> QED
  BY <1>1, <1>2, <1>3

LEMMA NewIs ==
  ASSUME NEW ns, Tree(ns), Formed(ns), NEW s \in DOMAIN ns, s # 1
  PROVE  /\ ns[s].kind \in VariableKinds => NewAt(ns, s) = DeclaresIn(ns, s, HolderIn(ns, s))
         /\ ns[s].kind \in FunctionKinds => NewAt(ns, s) = ArgumentsIn(ns, s)
         /\ ns[s].kind \notin VariableKinds \cup FunctionKinds => NewAt(ns, s) = {}
<1>1. \A e : e \in NewAt(ns, s) <=> e \in EntriesIn(ns, s) /\ ~HoistedIn(ns, e)
  BY EntriesOf DEF NewAt
<1>2. FormOf(ns[s])
  BY DEF Formed, Form
<1>3. ns[s].kind \notin FunctionKinds => ArgumentsIn(ns, s) = {}
  BY <1>2 DEF FormOf, ArgumentsIn
<1>4. \A e \in DeclaresIn(ns, s, HolderIn(ns, s)) :
        /\ e.node = s /\ e.block = HolderIn(ns, s) /\ ns[s].kind \in VariableKinds \cup {"class", "function"}
  BY DeclaresAre
<1>5. \A e \in ArgumentsIn(ns, s) : e.node = s /\ e.block # HolderIn(ns, s) /\ ns[s].kind \in FunctionKinds
  BY ArgumentsAre
<1>6. \A e \in DeclaresIn(ns, s, HolderIn(ns, s)) : HoistedIn(ns, e) <=> ns[s].kind \notin VariableKinds
  BY <1>4 DEF HoistedIn, VariableKinds
<1>7. \A e \in ArgumentsIn(ns, s) : ~HoistedIn(ns, e)
  BY <1>5 DEF HoistedIn, FunctionKinds
<1>8. ns[s].kind \in FunctionKinds => ns[s].kind \notin VariableKinds
  BY DEF VariableKinds, FunctionKinds
<1> QED
  BY <1>1, <1>3, <1>6, <1>7, <1>8 DEF EntriesIn

(* The rules do not depend on parents.                                         *)
LEMMA FrozenNames ==
  ASSUME NEW ns, Tree(ns), Formed(ns), NEW ns2, ns2 \in Seq(NodeRecords), Frozen(ns, ns2)
  PROVE  /\ DOMAIN ns2 = DOMAIN ns /\ DeclarationsIn(ns2) = DeclarationsIn(ns)
         /\ \A n \in DOMAIN ns : /\ TypesIn(ns2, n) = TypesIn(ns, n)
                                 /\ ns2[n].kind = ns[n].kind /\ ns2[n].value = ns[n].value
                                 /\ EmptyNode(ns2, n) <=> EmptyNode(ns, n)
         /\ \A n \in DOMAIN ns : \A look : MeaningIn(ns2, n, look) = MeaningIn(ns, n, look)
         /\ \A e \in DeclarationsIn(ns) : HoistedIn(ns2, e) <=> HoistedIn(ns, e)
<1>1. /\ DOMAIN ns2 = DOMAIN ns
      /\ \A n \in DOMAIN ns :
           /\ ns2[n].kind = ns[n].kind /\ ns2[n].body = ns[n].body /\ ns2[n].name = ns[n].name
           /\ ns2[n].argument = ns[n].argument /\ ns2[n].type = ns[n].type /\ ns2[n].value = ns[n].value
  BY DEF Frozen
<1>2. /\ \A n \in DOMAIN ns : n # 1 => HolderIn(ns2, n) = HolderIn(ns, n)
      /\ \A n \in DOMAIN ns : AboveIn(ns2, n) = AboveIn(ns, n)
  BY FrozenAbove
<1>3. \A n \in DOMAIN ns : n # 1 => EntriesIn(ns2, n) = EntriesIn(ns, n)
  BY <1>1, <1>2 DEF EntriesIn, DeclaresIn, ArgumentsIn
<1>4. DeclarationsIn(ns2) = DeclarationsIn(ns)
  <2>1. \A n \in DOMAIN ns \ {1} : EntriesIn(ns2, n) = EntriesIn(ns, n)
    BY <1>3
  <2> QED
    BY <1>1, <2>1 DEF DeclarationsIn
<1>5. \A e \in DeclarationsIn(ns) : e.node \in DOMAIN ns /\ e.node # 1
  BY DeclarationIs
<1>6. \A e \in DeclarationsIn(ns) : HoistedIn(ns2, e) <=> HoistedIn(ns, e)
  BY <1>1, <1>2, <1>5 DEF HoistedIn
<1>7. ASSUME NEW n \in DOMAIN ns, NEW look
      PROVE  MeaningIn(ns2, n, look) = MeaningIn(ns, n, look)
  <2>1. \A e \in DeclarationsIn(ns) : KnownIn(ns2, e, n) <=> KnownIn(ns, e, n)
    BY <1>1, <1>5 DEF KnownIn
  <2>2. SeenIn(ns2, n, look) = SeenIn(ns, n, look)
    BY <1>2, <1>4, <2>1 DEF SeenIn
  <2> QED
    BY <2>2 DEF MeaningIn
<1>8. \A n \in DOMAIN ns : TypesIn(ns2, n) = TypesIn(ns, n) /\ (EmptyNode(ns2, n) <=> EmptyNode(ns, n))
  BY <1>1 DEF TypesIn, EmptyNode
<1> QED
  BY <1>1, <1>4, <1>6, <1>7, <1>8

-----------------------------------------------------------------------------
(* What a statement looks up.                                                *)

LEMMA FindsAre ==
  ASSUME NEW n \in DOMAIN nodes, NEW b, NEW ts, NEW looks,
         \A look \in looks : GetSymbol(ts, b, look.name, Mask(look.mode)) = MeaningIn(nodes, n, look)
  PROVE  LET finds == Finds(ts, n, b, looks)
         IN /\ Faults(finds) = {} => \A f \in finds : GoodFind(nodes, f)
            /\ \A look \in looks : FoundAt(finds, n, look)
            /\ \A how \in Faults(finds) :
                 \E look \in looks : Fault(look, MeaningIn(nodes, n, look)) = how /\ how # ""
<1> DEFINE finds == Finds(ts, n, b, looks)
           find(look) == [node |-> n, look |-> look, entry |-> GetSymbol(ts, b, look.name, Mask(look.mode))]
<1>1. finds = {find(look) : look \in looks}
  BY DEF Finds
<1>2. \A look : find(look).node = n /\ find(look).look = look
                /\ find(look).entry = GetSymbol(ts, b, look.name, Mask(look.mode))
  OBVIOUS
<1> HIDE DEF finds, find
<1>3. \A f \in finds : \E look \in looks : f.node = n /\ f.look = look /\ f.entry = MeaningIn(nodes, n, look)
  BY <1>1, <1>2
<1>4. Faults(finds) = {Fault(f.look, f.entry) : f \in finds} \ {""}
  BY DEF Faults
<1>5. ASSUME Faults(finds) = {}, NEW f \in finds
      PROVE  GoodFind(nodes, f)
  <2>1. PICK look \in looks : f.node = n /\ f.look = look /\ f.entry = MeaningIn(nodes, n, look)
    BY <1>3
  <2>2. Fault(f.look, f.entry) = ""
    BY <1>4, <1>5
  <2> QED
    BY <2>1, <2>2 DEF GoodFind
<1>6. \A look \in looks : FoundAt(finds, n, look)
  BY <1>1, <1>2 DEF FoundAt
<1>7. ASSUME NEW how \in Faults(finds)
      PROVE  \E look \in looks : Fault(look, MeaningIn(nodes, n, look)) = how /\ how # ""
  <2>1. PICK f \in finds : how = Fault(f.look, f.entry) /\ how # ""
    BY <1>4
  <2>2. PICK look \in looks : f.node = n /\ f.look = look /\ f.entry = MeaningIn(nodes, n, look)
    BY <1>3
  <2> QED
    BY <2>1, <2>2
<1> QED
  BY <1>5, <1>6, <1>7 DEF finds

(* The looks of a node are of the kinds that have a mask; only a value's can be      *)
(* misused.                                                                  *)
LEMMA LooksAre ==
  ASSUME NEW ns, Tree(ns), Formed(ns), NEW n \in DOMAIN ns
  PROVE  /\ \A look \in LooksOf(ns[n].value) : look.mode \in LookModes
         /\ ns[n].kind # "expression" => \A look \in LooksOf(ns[n].value) : look.mode = "get"
         /\ \A look \in TypesIn(ns, n) : look.mode = "type" /\ look.mode \in LookModes
         /\ ns[n].kind \notin {"define", "class", "function"} => TypesIn(ns, n) = {}
         /\ ns[n].kind = "block" => LooksOf(ns[n].value) = {} /\ ~EmptyNode(ns, n)
<1>1. ns[n] \in NodeRecords /\ FormOf(ns[n])
  BY DEF Tree, Formed, Form
<1>2. ns[n].value \in Looks
  BY <1>1 DEF NodeRecords
<1> DEFINE v == ns[n].value
<1>3. v \in [name : Names \cup {None}, mode : Modes \cup {"none"}]
  BY <1>2 DEF Looks
<1>4. /\ v = NoLook \/ v.mode # "none"
      /\ ns[n].kind # "expression" => v = NoLook \/ v.mode = "get"
      /\ ns[n].kind = "block" => v = NoLook
      /\ ns[n].kind \notin {"define", "class", "function"} => ns[n].type = None
  <2>1. ns[n].kind = "block" =>
          ns[n].kind \notin {"expression", "return", "if"} \cup VariableKinds \cup LoopKinds
    BY DEF VariableKinds, LoopKinds
  <2> QED
    BY <1>1, <2>1 DEF FormOf
<1> HIDE DEF v
<1>5. \A look \in LooksOf(v) : v # NoLook /\ (look = v \/ (v.mode = "native" /\ look.mode = "set"))
  <2> SUFFICES ASSUME NEW look \in LooksOf(v)
               PROVE  v # NoLook /\ (look = v \/ (v.mode = "native" /\ look.mode = "set"))
    OBVIOUS
  <2>1. CASE v = NoLook
    <3>1. v.mode # "native"
      BY <2>1 DEF NoLook
    <3>2. LooksOf(v) = {}
      BY <2>1, <3>1 DEF LooksOf
    <3> QED
      BY <3>2
  <2>2. CASE v # NoLook /\ v.mode = "native"
    <3>1. LooksOf(v) = {v, [v EXCEPT !.mode = "set"]}
      BY <2>2 DEF LooksOf
    <3>2. [v EXCEPT !.mode = "set"].mode = "set"
      BY <1>3
    <3> QED
      BY <2>2, <3>1, <3>2
  <2>3. CASE v # NoLook /\ v.mode # "native"
    <3>1. LooksOf(v) = {v}
      BY <2>3 DEF LooksOf
    <3> QED
      BY <2>3, <3>1
  <2> QED
    BY <2>1, <2>2, <2>3
<1>6. \A look \in LooksOf(v) : look.mode \in LookModes
  BY <1>3, <1>4, <1>5 DEF LookModes, Modes
<1>7. ns[n].kind # "expression" => \A look \in LooksOf(v) : look.mode = "get"
  BY <1>4, <1>5
<1>8. \A look \in TypesIn(ns, n) : look.mode = "type" /\ look.mode \in LookModes
  BY DEF TypesIn, LookModes
<1>9. ns[n].kind = "block" => LooksOf(v) = {} /\ ~EmptyNode(ns, n)
  BY <1>4, <1>5 DEF EmptyNode, LoopKinds
<1> QED
  BY <1>4, <1>6, <1>7, <1>8, <1>9 DEF v, TypesIn

LEMMA TablesGood ==
  ASSUME ControlInv, NamesInv, Running
  PROVE  /\ InBlocks(nodes, tables) /\ Single(tables) /\ TablesInv /\ FoundInv /\ EmptyInv
         /\ \A e : e \in tables <=> e \in DeclarationsIn(nodes) /\ ~Pending(nodes, calls, e)
<1>1. Begun /\ Tree(nodes) /\ Formed(nodes)
  BY RunningIs DEF Begun
<1>2. TablesInv /\ FoundInv /\ EmptyInv
  BY <1>1 DEF NamesInv
<1>3. /\ tables = {e \in DeclarationsIn(nodes) : ~Pending(nodes, calls, e)} /\ Single(tables)
  BY <1>2 DEF TablesInv
<1>4. InBlocks(nodes, tables)
  BY <1>1, <1>3, DeclarationIs DEF InBlocks
<1> QED
  BY <1>2, <1>3, <1>4

(* What is in the tables now is what the statement sees.                        *)
LEMMA SeesNow ==
  ASSUME ControlInv, NamesInv, NEW kinds, At(kinds), NEW look
  PROVE  /\ nodes[Statement].kind # "define" \/ "VARIABLE" \notin Mask(look.mode) =>
              Sees(nodes, tables, Statement, look)
         /\ nodes[Statement].kind = "define" =>
              Sees(nodes, tables \cup DeclaresIn(nodes, Statement, Block), Statement, look)
<1>1. Running /\ Last(calls).at # 0
  <2>1. Running /\ Last(calls).at \in 1 .. Len(nodes[Block].body)
    BY DEF At
  <2> QED
    BY <2>1
<1>2. /\ Tree(nodes) /\ Formed(nodes) /\ Statement \in DOMAIN nodes /\ HolderIn(nodes, Statement) = Block
      /\ AboveIn(nodes, Statement) = {Block} \cup AboveIn(nodes, Block) /\ Statement # 1
  BY <1>1, RunningIs, AtIs
<1>3. \A e : e \in tables <=> e \in DeclarationsIn(nodes) /\ ~Pending(nodes, calls, e)
  BY <1>1, TablesGood
<1>4. ASSUME NEW e \in DeclarationsIn(nodes), e.block \in AboveIn(nodes, Statement)
      PROVE  e \in tables <=> nodes[e.node].kind \notin VariableKinds \/ e.node < Statement
  <2>1. CASE nodes[e.node].kind \notin VariableKinds
    BY <1>1, <1>2, <1>3, <1>4, <2>1, EarlierDeclared
  <2>2. CASE nodes[e.node].kind \in VariableKinds
    BY <1>3, <1>4, <2>2, VariableDeclared
  <2> QED
    BY <2>1, <2>2
<1>5. ASSUME NEW e \in DeclarationsIn(nodes), e.node = Statement, nodes[Statement].kind = "define"
      PROVE  e \in DeclaresIn(nodes, Statement, Block) /\ e.table = "VARIABLE" /\ nodes[e.node].kind \in VariableKinds
  <2>1. nodes[e.node].kind \in VariableKinds /\ nodes[Statement].kind \notin FunctionKinds
    BY <1>5 DEF VariableKinds, FunctionKinds
  <2>2. e.table = "VARIABLE" /\ e \in EntriesIn(nodes, Statement)
    BY <1>2, <1>5, <2>1, DeclarationKinds, EntriesOf
  <2>3. e \notin ArgumentsIn(nodes, Statement)
    BY <1>2, <2>1, ArgumentsAre
  <2> QED
    BY <1>2, <2>1, <2>2, <2>3 DEF EntriesIn
<1>6. ASSUME nodes[Statement].kind # "define" \/ "VARIABLE" \notin Mask(look.mode)
      PROVE  Sees(nodes, tables, Statement, look)
  <2> SUFFICES ASSUME NEW e, e.block \in AboveIn(nodes, Statement), e.table \in Mask(look.mode)
               PROVE  e \in tables <=> e \in DeclarationsIn(nodes) /\ KnownIn(nodes, e, Statement)
    BY DEF Sees
  <2>1. ~(e \in DeclarationsIn(nodes) /\ e.node = Statement /\ nodes[Statement].kind = "define")
    BY <1>5, <1>6
  <2> QED
    BY <1>3, <1>4, <2>1 DEF KnownIn
<1>7. ASSUME nodes[Statement].kind = "define"
      PROVE  Sees(nodes, tables \cup DeclaresIn(nodes, Statement, Block), Statement, look)
  <2> SUFFICES ASSUME NEW e, e.block \in AboveIn(nodes, Statement)
               PROVE  e \in tables \cup DeclaresIn(nodes, Statement, Block) <=>
                        e \in DeclarationsIn(nodes) /\ KnownIn(nodes, e, Statement)
    BY DEF Sees
  <2>1. e \in DeclaresIn(nodes, Statement, Block) =>
          e \in DeclarationsIn(nodes) /\ e.node = Statement /\ KnownIn(nodes, e, Statement)
    BY <1>2, <1>7, DeclaresAre, EntriesOf DEF EntriesIn, KnownIn
  <2>2. e \in DeclarationsIn(nodes) /\ e.node = Statement => e \in DeclaresIn(nodes, Statement, Block)
    BY <1>5, <1>7
  <2> QED
    BY <1>3, <1>4, <2>1, <2>2 DEF KnownIn
<1> QED
  BY <1>6, <1>7

(* And what it finds is what the text says.                                     *)
LEMMA LooksNow ==
  ASSUME ControlInv, NamesInv, NEW kinds, At(kinds)
  PROVE  /\ nodes[Statement].kind # "define" => \A look \in LooksOf(nodes[Statement].value) :
              GetSymbol(tables, Block, look.name, Mask(look.mode)) = MeaningIn(nodes, Statement, look)
         /\ \A look \in TypesIn(nodes, Statement) :
              GetSymbol(tables, Block, look.name, Mask(look.mode)) = MeaningIn(nodes, Statement, look)
         /\ LET ts == tables \cup DeclaresIn(nodes, Statement, Block)
            IN nodes[Statement].kind = "define" /\ Single(ts) => \A look \in LooksOf(nodes[Statement].value) :
              GetSymbol(ts, Block, look.name, Mask(look.mode)) = MeaningIn(nodes, Statement, look)
<1> DEFINE ts == tables \cup DeclaresIn(nodes, Statement, Block)
<1>1. /\ Tree(nodes) /\ Formed(nodes)
      /\ Block \in DOMAIN nodes /\ nodes[Block].kind = "block" /\ AllLinked(nodes, Block)
      /\ Statement \in DOMAIN nodes
      /\ AboveIn(nodes, Statement) = {Block} \cup AboveIn(nodes, Block)
  BY StatementIn
<1>2. InBlocks(nodes, tables) /\ Single(tables)
  BY TablesGood DEF At
<1>3. InBlocks(nodes, ts)
  <2>1. \A e \in DeclaresIn(nodes, Statement, Block) : e.block = Block
    BY DeclaresAre
  <2> QED
    BY <1>1, <1>2, <2>1 DEF InBlocks
<1>4. /\ \A look \in LooksOf(nodes[Statement].value) : look.mode \in LookModes
      /\ \A look \in TypesIn(nodes, Statement) : look.mode = "type" /\ look.mode \in LookModes
  BY <1>1, LooksAre
<1> HIDE DEF ts
<1>5. ASSUME NEW look \in LooksOf(nodes[Statement].value), nodes[Statement].kind # "define"
      PROVE  GetSymbol(tables, Block, look.name, Mask(look.mode)) = MeaningIn(nodes, Statement, look)
  <2>1. Sees(nodes, tables, Statement, look) /\ look.mode \in LookModes
    BY <1>4, <1>5, SeesNow
  <2> QED
    BY ONLY <1>1, <1>2, <2>1, LookUp
<1>6. ASSUME NEW look \in TypesIn(nodes, Statement)
      PROVE  GetSymbol(tables, Block, look.name, Mask(look.mode)) = MeaningIn(nodes, Statement, look)
  <2>1. look.mode \in LookModes /\ "VARIABLE" \notin Mask(look.mode)
    BY <1>4, MaskIs
  <2>2. Sees(nodes, tables, Statement, look)
    BY <2>1, SeesNow
  <2> QED
    BY ONLY <1>1, <1>2, <2>1, <2>2, LookUp
<1>7. ASSUME NEW look \in LooksOf(nodes[Statement].value), nodes[Statement].kind = "define", Single(ts)
      PROVE  GetSymbol(ts, Block, look.name, Mask(look.mode)) = MeaningIn(nodes, Statement, look)
  <2>1. Sees(nodes, ts, Statement, look) /\ look.mode \in LookModes
    BY <1>4, <1>7, SeesNow DEF ts
  <2> QED
    BY ONLY <1>1, <1>3, <1>7, <2>1, LookUp
<1> QED
  BY <1>5, <1>6, <1>7 DEF ts

(* A name is added to a table that does not hold it.                            *)
LEMMA SingleAdds ==
  ASSUME NEW ts, Single(ts), NEW n, NEW b, ~Defined(ts, DeclaresIn(nodes, n, b))
  PROVE  Single(ts \cup DeclaresIn(nodes, n, b))
<1>1. \A e \in DeclaresIn(nodes, n, b) : e = Entry(e.block, e.table, e.name, e.node) /\ e.node = n
  BY DeclaresAre
<1>2. \A e \in DeclaresIn(nodes, n, b), d \in ts : ~(d.block = e.block /\ d.table = e.table /\ d.name = e.name)
  BY DEF Defined, Named
<1>3. ASSUME NEW d \in ts \cup DeclaresIn(nodes, n, b), NEW e \in ts \cup DeclaresIn(nodes, n, b),
             d.block = e.block, d.table = e.table, d.name = e.name
      PROVE  d = e
  <2>1. CASE d \in ts /\ e \in ts
    BY <1>3, <2>1 DEF Single
  <2>2. CASE d \in DeclaresIn(nodes, n, b) /\ e \in DeclaresIn(nodes, n, b)
    BY <1>1, <1>3, <2>2
  <2> QED
    BY <1>2, <1>3, <2>1, <2>2
<1> QED
  BY <1>3 DEF Single

-----------------------------------------------------------------------------
(* The invariant goes on.                                                    *)

(* What is found when analyze passes a statement, and what it declares.         *)
PassedNames(finds) ==
  /\ tables' = tables \cup NewAt(nodes, Statement) /\ Single(tables')
  /\ found' = found \cup finds /\ \A f \in finds : GoodFind(nodes, f)
  /\ \A look \in LooksOf(nodes[Statement].value) : FoundAt(finds, Statement, look)
  /\ nodes[Statement].kind = "define" =>
       \A look \in TypesIn(nodes, Statement) : FoundAt(finds, Statement, look)
  /\ ~EmptyNode(nodes, Statement)

(* The tree that the rules are read from is the same but for parents.           *)
SameRules ==
  /\ DOMAIN nodes' = DOMAIN nodes /\ DeclarationsIn(nodes') = DeclarationsIn(nodes)
  /\ \A n \in DOMAIN nodes : /\ TypesIn(nodes', n) = TypesIn(nodes, n)
                             /\ nodes'[n].kind = nodes[n].kind /\ nodes'[n].value = nodes[n].value
                             /\ EmptyNode(nodes', n) <=> EmptyNode(nodes, n)
  /\ \A n \in DOMAIN nodes : \A look : MeaningIn(nodes', n, look) = MeaningIn(nodes, n, look)
  /\ \A e \in DeclarationsIn(nodes) : HoistedIn(nodes', e) <=> HoistedIn(nodes, e)

LEMMA RulesStay ==
  ASSUME Tree(nodes), Formed(nodes), UNCHANGED nodes \/ (nodes' \in Seq(NodeRecords) /\ Frozen(nodes, nodes'))
  PROVE  SameRules
<1>1. CASE nodes' = nodes
  BY <1>1 DEF SameRules
<1>2. CASE nodes' \in Seq(NodeRecords) /\ Frozen(nodes, nodes')
  BY <1>2, FrozenNames DEF SameRules
<1> QED
  BY <1>1, <1>2

(* What is still to come, when it does so for the declarations, the looks and the  *)
(* types alike.                                                              *)
LEMMA NamesBy ==
  ASSUME Tree(nodes), Formed(nodes), SameRules, Begun', TablesInv, FoundInv, EmptyInv, Single(tables'), NEW finds,
         found' = found \cup finds, \A f \in finds : GoodFind(nodes, f),
         \A e \in DeclarationsIn(nodes) : e \in tables' <=> e \in tables \/ ~Pending(nodes', calls', e),
         \A e \in DeclarationsIn(nodes) : Pending(nodes', calls', e) => Pending(nodes, calls, e),
         tables' \subseteq DeclarationsIn(nodes),
         \A n \in DOMAIN nodes : \A look \in LooksOf(nodes[n].value) :
           ToCome(nodes, calls, n) => ToCome(nodes', calls', n) \/ FoundAt(finds, n, look),
         \A n \in DOMAIN nodes : \A look \in TypesIn(nodes, n) :
           TypesPending(nodes, calls, n) => TypesPending(nodes', calls', n) \/ FoundAt(finds, n, look),
         \A n \in DOMAIN nodes : EmptyNode(nodes, n) /\ ToCome(nodes, calls, n) => ToCome(nodes', calls', n)
  PROVE  NamesInv'
<1>1. /\ DOMAIN nodes' = DOMAIN nodes /\ DeclarationsIn(nodes') = DeclarationsIn(nodes)
      /\ \A n \in DOMAIN nodes : /\ TypesIn(nodes', n) = TypesIn(nodes, n) /\ nodes'[n].value = nodes[n].value
                                 /\ EmptyNode(nodes', n) <=> EmptyNode(nodes, n)
      /\ \A n \in DOMAIN nodes : \A look : MeaningIn(nodes', n, look) = MeaningIn(nodes, n, look)
  BY DEF SameRules
<1>2. tables' = {e \in DeclarationsIn(nodes') : ~Pending(nodes', calls', e)}
  <2>1. \A e \in DeclarationsIn(nodes) : e \in tables <=> ~Pending(nodes, calls, e)
    BY DEF TablesInv
  <2>2. \A e \in DeclarationsIn(nodes) : e \in tables' <=> ~Pending(nodes', calls', e)
    BY <2>1
  <2> QED
    BY <1>1, <2>2
<1>3. \A f \in found' : GoodFind(nodes', f)
  <2> SUFFICES ASSUME NEW f \in found'
               PROVE  GoodFind(nodes', f)
    OBVIOUS
  <2>1. GoodFind(nodes, f)
    BY DEF FoundInv
  <2> QED
    BY <1>1, <2>1 DEF GoodFind
<1>4. \A n, look : FoundAt(found, n, look) \/ FoundAt(finds, n, look) => FoundAt(found', n, look)
  BY DEF FoundAt
<1>5. \A n \in DOMAIN nodes' : \A look \in LooksOf(nodes'[n].value) :
        ToCome(nodes', calls', n) \/ FoundAt(found', n, look)
  <2> SUFFICES ASSUME NEW n \in DOMAIN nodes, NEW look \in LooksOf(nodes[n].value)
               PROVE  ToCome(nodes', calls', n) \/ FoundAt(found', n, look)
    BY <1>1
  <2>1. ToCome(nodes, calls, n) \/ FoundAt(found, n, look)
    BY DEF FoundInv
  <2> QED
    BY <1>4, <2>1
<1>6. \A n \in DOMAIN nodes' : \A look \in TypesIn(nodes', n) :
        TypesPending(nodes', calls', n) \/ FoundAt(found', n, look)
  <2> SUFFICES ASSUME NEW n \in DOMAIN nodes, NEW look \in TypesIn(nodes, n)
               PROVE  TypesPending(nodes', calls', n) \/ FoundAt(found', n, look)
    BY <1>1
  <2>1. TypesPending(nodes, calls, n) \/ FoundAt(found, n, look)
    BY DEF FoundInv
  <2> QED
    BY <1>4, <2>1
<1>7. \A n \in DOMAIN nodes' : EmptyNode(nodes', n) => ToCome(nodes', calls', n)
  BY <1>1 DEF EmptyInv
<1>8. (TablesInv)' /\ (FoundInv)' /\ (EmptyInv)'
  BY <1>2, <1>3, <1>5, <1>6, <1>7 DEF TablesInv, FoundInv, EmptyInv
<1> QED
  BY <1>8 DEF NamesInv

(* What analyze passes is declared, and has its looks found.                    *)
LEMMA PassNames ==
  ASSUME ControlInv, NamesInv, NEW kinds, At(kinds), NEW inner, Passed(inner), SameRules,
         NEW finds, PassedNames(finds)
  PROVE  NamesInv'
<1>1. Running /\ Begun'
  BY DEF At, Passed, Begun
<1>2. /\ Tree(nodes) /\ Formed(nodes) /\ Statement \in DOMAIN nodes /\ Statement # 1
      /\ ToCome(nodes, calls, Statement)
  BY <1>1, RunningIs, AtIs
<1>3. TablesInv /\ FoundInv /\ EmptyInv
  BY <1>1, TablesGood
<1>4. \A n \in DOMAIN nodes : nodes[n].kind # "block" =>
        /\ ToCome(nodes', calls', n) <=> ToCome(nodes, calls, n) /\ n # Statement
        /\ ToHoist(nodes', calls', n) <=> ToHoist(nodes, calls, n)
  BY DEF Passed
<1>5. \A n \in DOMAIN nodes : nodes'[n].kind = nodes[n].kind
  BY DEF SameRules
<1>6. ASSUME NEW e \in DeclarationsIn(nodes)
      PROVE  Pending(nodes', calls', e) <=> Pending(nodes, calls, e) /\ e \notin NewAt(nodes, Statement)
  <2>1. e.node \in DOMAIN nodes /\ nodes[e.node].kind # "block"
    BY <1>2, DeclarationIs, DeclarationKinds
  <2>2. HoistedIn(nodes', e) <=> HoistedIn(nodes, e)
    BY DEF SameRules
  <2>3. e \in NewAt(nodes, Statement) <=> e.node = Statement /\ ~HoistedIn(nodes, e)
    BY DEF NewAt
  <2> QED
    BY <1>4, <2>1, <2>2, <2>3 DEF Pending
<1>7. NewAt(nodes, Statement) \subseteq DeclarationsIn(nodes) /\ tables \subseteq DeclarationsIn(nodes)
  BY <1>3 DEF NewAt, TablesInv
<1>8. tables' = tables \cup NewAt(nodes, Statement) /\ Single(tables')
      /\ found' = found \cup finds /\ \A f \in finds : GoodFind(nodes, f)
  BY DEF PassedNames
<1>9. \A e \in DeclarationsIn(nodes) : e \in tables' <=> e \in tables \/ ~Pending(nodes', calls', e)
  <2>1. \A e \in DeclarationsIn(nodes) : e \in tables <=> ~Pending(nodes, calls, e)
    BY <1>3 DEF TablesInv
  <2> QED
    BY <1>6, <1>8, <2>1
<1>10. \A n \in DOMAIN nodes : \A look \in LooksOf(nodes[n].value) :
         ToCome(nodes, calls, n) => ToCome(nodes', calls', n) \/ FoundAt(finds, n, look)
  <2> SUFFICES ASSUME NEW n \in DOMAIN nodes, NEW look \in LooksOf(nodes[n].value), ToCome(nodes, calls, n)
               PROVE  ToCome(nodes', calls', n) \/ FoundAt(finds, n, look)
    OBVIOUS
  <2>1. nodes[n].kind # "block"
    BY <1>2, LooksAre
  <2> QED
    BY <1>4, <2>1 DEF PassedNames
<1>11. \A n \in DOMAIN nodes : \A look \in TypesIn(nodes, n) :
         TypesPending(nodes, calls, n) => TypesPending(nodes', calls', n) \/ FoundAt(finds, n, look)
  <2> SUFFICES ASSUME NEW n \in DOMAIN nodes, NEW look \in TypesIn(nodes, n), TypesPending(nodes, calls, n)
               PROVE  TypesPending(nodes', calls', n) \/ FoundAt(finds, n, look)
    OBVIOUS
  <2>1. nodes[n].kind \in {"define", "class", "function"}
    BY <1>2, LooksAre
  <2>2. /\ ToCome(nodes', calls', n) <=> ToCome(nodes, calls, n) /\ n # Statement
        /\ ToHoist(nodes', calls', n) <=> ToHoist(nodes, calls, n)
        /\ nodes'[n].kind = nodes[n].kind
    BY <1>4, <1>5, <2>1
  <2> QED
    BY <2>1, <2>2 DEF PassedNames, TypesPending
<1>12. \A n \in DOMAIN nodes : EmptyNode(nodes, n) /\ ToCome(nodes, calls, n) => ToCome(nodes', calls', n)
  <2> SUFFICES ASSUME NEW n \in DOMAIN nodes, EmptyNode(nodes, n), ToCome(nodes, calls, n)
               PROVE  ToCome(nodes', calls', n)
    OBVIOUS
  <2>1. nodes[n].kind # "block" /\ n # Statement
    BY <1>2, LooksAre DEF PassedNames
  <2> QED
    BY <1>4, <2>1
<1>13. \A e \in DeclarationsIn(nodes) : Pending(nodes', calls', e) => Pending(nodes, calls, e)
  BY <1>6
<1>14. tables' \subseteq DeclarationsIn(nodes)
  BY <1>7, <1>8
<1> QED
  BY ONLY <1>1, <1>2, <1>3, SameRules, <1>8, <1>9, <1>10, <1>11, <1>12, <1>13, <1>14, NamesBy

(* Where nothing is declared, and the looks are in the tables as they were.       *)
LEMMA GoneNames ==
  ASSUME ControlInv, NamesInv, NEW kinds, At(kinds), nodes[Statement].kind \notin VariableKinds \cup FunctionKinds,
         NEW inner, Goneto(inner), tables' = tables, ~EmptyNode(nodes, Statement),
         \/ /\ found' = found \cup Conditions /\ Faults(Conditions) = {}
         \/ LooksOf(nodes[Statement].value) = {} /\ found' = found
  PROVE  NamesInv'
<1>1. Passed(inner) /\ nodes' = nodes /\ Running
  BY DEF Goneto, At
<1>2. Tree(nodes) /\ Formed(nodes) /\ Statement \in DOMAIN nodes /\ Statement # 1
  BY <1>1, RunningIs, AtIs
<1>3. SameRules
  BY <1>1 DEF SameRules
<1>4. NewAt(nodes, Statement) = {}
  BY <1>2, NewIs
<1>5. Single(tables)
  BY <1>1, TablesGood
<1>6. nodes[Statement].kind # "define"
  BY DEF VariableKinds
<1>7. CASE found' = found \cup Conditions /\ Faults(Conditions) = {}
  <2>1. \A look \in LooksOf(nodes[Statement].value) :
          GetSymbol(tables, Block, look.name, Mask(look.mode)) = MeaningIn(nodes, Statement, look)
    BY <1>6, LooksNow
  <2>2. /\ \A f \in Conditions : GoodFind(nodes, f)
        /\ \A look \in LooksOf(nodes[Statement].value) : FoundAt(Conditions, Statement, look)
    BY <1>2, <1>7, <2>1, FindsAre DEF Conditions
  <2>3. PassedNames(Conditions)
    BY <1>4, <1>5, <1>6, <1>7, <2>2 DEF PassedNames
  <2> QED
    BY <1>1, <1>3, <2>3, PassNames
<1>8. CASE LooksOf(nodes[Statement].value) = {} /\ found' = found
  <2>1. PassedNames({})
    BY <1>4, <1>5, <1>6, <1>8 DEF PassedNames
  <2> QED
    BY <1>1, <1>3, <2>1, PassNames
<1> QED
  BY <1>7, <1>8

LEMMA LetNames ==
  ASSUME ControlInv, NamesInv, At({"let"}), Faults(Conditions) = {}, ~Defined(tables, Declares(Statement, Block)),
         Goneto({}), tables' = tables \cup Declares(Statement, Block), found' = found \cup Conditions
  PROVE  NamesInv'
<1>1. Passed({}) /\ nodes' = nodes /\ Running
  BY DEF Goneto, At
<1>2. /\ Tree(nodes) /\ Formed(nodes) /\ Statement \in DOMAIN nodes /\ Statement # 1
      /\ HolderIn(nodes, Statement) = Block /\ nodes[Statement].kind = "let"
  <2>1. Tree(nodes) /\ Formed(nodes)
    BY <1>1, RunningIs
  <2>2. /\ Statement \in DOMAIN nodes /\ Statement # 1
        /\ HolderIn(nodes, Statement) = Block /\ nodes[Statement].kind \in {"let"}
    BY AtIs
  <2> QED
    BY <2>1, <2>2
<1>3. SameRules
  BY <1>1 DEF SameRules
<1>4. Declares(Statement, Block) = DeclaresIn(nodes, Statement, Block)
  BY NamesAre
<1>5. NewAt(nodes, Statement) = DeclaresIn(nodes, Statement, Block)
  BY <1>2, NewIs DEF VariableKinds
<1>6. Single(tables')
  <2>1. Single(tables) /\ ~Defined(tables, DeclaresIn(nodes, Statement, Block))
    BY <1>1, <1>4, TablesGood
  <2> QED
    BY <1>4, <2>1, SingleAdds
<1>7. nodes[Statement].kind # "define" /\ ~EmptyNode(nodes, Statement)
  BY <1>2 DEF EmptyNode, LoopKinds
<1>8. \A look \in LooksOf(nodes[Statement].value) :
        GetSymbol(tables, Block, look.name, Mask(look.mode)) = MeaningIn(nodes, Statement, look)
  BY <1>7, LooksNow
<1>9. /\ \A f \in Conditions : GoodFind(nodes, f)
      /\ \A look \in LooksOf(nodes[Statement].value) : FoundAt(Conditions, Statement, look)
  BY <1>2, <1>8, FindsAre DEF Conditions
<1>10. PassedNames(Conditions)
  BY <1>4, <1>5, <1>6, <1>7, <1>9 DEF PassedNames
<1> QED
  BY <1>1, <1>3, <1>10, PassNames

LEMMA DefineNames ==
  ASSUME ControlInv, NamesInv, At({"define"}),
         LET typed == Finds(tables, Statement, Block, Types(Statement))
             entries == Declares(Statement, Block)
             finds == Finds(tables \cup entries, Statement, Block, LooksOf(nodes[Statement].value))
         IN /\ Faults(typed \cup finds) = {} /\ ~Defined(tables, entries)
            /\ Goneto({}) /\ tables' = tables \cup entries
            /\ found' = found \cup typed \cup finds
  PROVE  NamesInv'
<1> DEFINE typed == Finds(tables, Statement, Block, Types(Statement))
           entries == Declares(Statement, Block)
           finds == Finds(tables \cup entries, Statement, Block, LooksOf(nodes[Statement].value))
<1>1. /\ Faults(typed \cup finds) = {} /\ ~Defined(tables, entries)
      /\ Goneto({}) /\ tables' = tables \cup entries
      /\ found' = found \cup (typed \cup finds)
  OBVIOUS
<1>2. Passed({}) /\ nodes' = nodes /\ Running
  BY <1>1 DEF Goneto, At
<1>3. /\ Tree(nodes) /\ Formed(nodes) /\ Statement \in DOMAIN nodes /\ Statement # 1
      /\ HolderIn(nodes, Statement) = Block /\ nodes[Statement].kind = "define"
  <2>1. Tree(nodes) /\ Formed(nodes)
    BY <1>2, RunningIs
  <2>2. /\ Statement \in DOMAIN nodes /\ Statement # 1
        /\ HolderIn(nodes, Statement) = Block /\ nodes[Statement].kind \in {"define"}
    BY AtIs
  <2> QED
    BY <2>1, <2>2
<1>4. SameRules
  BY <1>2 DEF SameRules
<1>5. entries = DeclaresIn(nodes, Statement, Block) /\ Types(Statement) = TypesIn(nodes, Statement)
  BY NamesAre
<1>6. NewAt(nodes, Statement) = entries
  BY <1>3, <1>5, NewIs DEF VariableKinds
<1>7. Single(tables \cup entries)
  <2>1. Single(tables) /\ ~Defined(tables, DeclaresIn(nodes, Statement, Block))
    BY <1>1, <1>2, <1>5, TablesGood
  <2> QED
    BY <1>5, <2>1, SingleAdds
<1>8. ~EmptyNode(nodes, Statement)
  BY <1>3 DEF EmptyNode, LoopKinds
<1>9. /\ \A look \in LooksOf(nodes[Statement].value) :
           GetSymbol(tables \cup entries, Block, look.name, Mask(look.mode)) = MeaningIn(nodes, Statement, look)
      /\ \A look \in Types(Statement) :
           GetSymbol(tables, Block, look.name, Mask(look.mode)) = MeaningIn(nodes, Statement, look)
  BY <1>3, <1>5, <1>7, LooksNow
<1>10. /\ Faults(typed) = {} /\ Faults(finds) = {}
  <2> HIDE DEF typed, finds, entries
  <2> QED
    BY <1>1 DEF Faults
<1>11. /\ \A f \in typed : GoodFind(nodes, f)
       /\ \A look \in Types(Statement) : FoundAt(typed, Statement, look)
  BY <1>3, <1>9, <1>10, FindsAre
<1>12. /\ \A f \in finds : GoodFind(nodes, f)
       /\ \A look \in LooksOf(nodes[Statement].value) : FoundAt(finds, Statement, look)
  BY <1>3, <1>9, <1>10, FindsAre
<1> HIDE DEF typed, finds, entries
<1>13. PassedNames(typed \cup finds)
  <2>1. \A look : FoundAt(typed, Statement, look) \/ FoundAt(finds, Statement, look) =>
                    FoundAt(typed \cup finds, Statement, look)
    BY DEF FoundAt
  <2> QED
    BY <1>1, <1>5, <1>6, <1>7, <1>8, <1>11, <1>12, <2>1 DEF PassedNames
<1> QED
  BY <1>2, <1>4, <1>13, PassNames

(* The block of a function that analyze comes to has nothing in its tables.      *)
LEMMA NothingInside ==
  ASSUME ControlInv, NamesInv, At(FunctionKinds), NEW e \in ArgumentsIn(nodes, Statement),
         NEW d \in tables
  PROVE  d.block # e.block
<1> SUFFICES ASSUME d.block = e.block
             PROVE  FALSE
  OBVIOUS
<1>1. /\ Running /\ Tree(nodes) /\ Formed(nodes) /\ Called(nodes, calls)
      /\ Len(calls) \in DOMAIN calls /\ Block = calls[Len(calls)].block /\ Block \in DOMAIN nodes
  BY RunningIs DEF At
<1>2. /\ Statement \in DOMAIN nodes /\ calls[Len(calls)].at \in DOMAIN nodes[Block].body
      /\ Statement = nodes[Block].body[calls[Len(calls)].at] /\ ToCome(nodes, calls, Statement)
  BY AtIs
<1>3. /\ e.node = Statement /\ e.block \in DOMAIN nodes /\ HolderIn(nodes, e.block) = Statement /\ e.block # 1
      /\ e.block # HolderIn(nodes, Statement)
      /\ AboveIn(nodes, e.block) = {Statement} \cup AboveIn(nodes, Statement)
  BY <1>1, <1>2, ArgumentsAre
<1>4. d \in DeclarationsIn(nodes) /\ ~Pending(nodes, calls, d)
  BY <1>1, TablesGood
<1>5. /\ d.node \in DOMAIN nodes /\ d.node # 1
      /\ \/ d.block = HolderIn(nodes, d.node)
         \/ d \in ArgumentsIn(nodes, d.node) /\ HolderIn(nodes, d.block) = d.node
  BY <1>1, <1>4, DeclarationIs
<1>6. CASE d.block = HolderIn(nodes, d.node)
  <2>1. Statement \in AboveIn(nodes, d.node)
    <3>1. AboveIn(nodes, d.node) = {e.block} \cup AboveIn(nodes, e.block)
      BY <1>1, <1>5, <1>6, AboveIs
    <3> QED
      BY <1>3, <3>1
  <2>2. calls[Len(calls)].at >= calls[Len(calls)].at
    <3>1. calls[Len(calls)].at \in Nat
      BY <1>1, CallIs
    <3> QED
      BY <3>1
  <2>3. Coming(nodes, calls[Len(calls)], d.node) /\ Unhoisted(nodes, calls[Len(calls)], d.node)
    BY <1>1, <1>2, <2>1, <2>2 DEF Coming, Unhoisted, Under
  <2> QED
    BY <1>1, <1>4, <2>3 DEF Pending, ToCome, ToHoist
<1>7. CASE d \in ArgumentsIn(nodes, d.node) /\ HolderIn(nodes, d.block) = d.node
  <2>1. d.node = Statement
    BY <1>3, <1>7
  <2>2. ~HoistedIn(nodes, d)
    <3>1. nodes[Statement].kind \in FunctionKinds
      BY AtIs
    <3> QED
      BY <1>3, <2>1, <3>1 DEF HoistedIn, FunctionKinds
  <2> QED
    BY <1>2, <1>4, <2>1, <2>2 DEF Pending
<1> QED
  BY <1>5, <1>6, <1>7

LEMMA FunctionNames ==
  ASSUME ControlInv, NamesInv, AnalyzeFunction
  PROVE  NamesInv'
<1>1. At(FunctionKinds) /\ tables' = tables \cup Arguments(Statement) /\ found' = found /\ Running
  BY AnalyzeFunctionIs DEF At
<1>2. /\ Frozen(nodes, nodes') /\ nodes' \in Seq(NodeRecords)
      /\ Passed(Inner(nodes, Statement))
  BY FunctionStep
<1>3. /\ Tree(nodes) /\ Formed(nodes) /\ Statement \in DOMAIN nodes /\ Statement # 1
      /\ nodes[Statement].kind \in FunctionKinds /\ FormOf(nodes[Statement])
  BY <1>1, RunningIs, AtIs
<1>4. SameRules
  BY <1>2, <1>3, RulesStay
<1>5. Arguments(Statement) = ArgumentsIn(nodes, Statement)
  BY NamesAre
<1>6. NewAt(nodes, Statement) = ArgumentsIn(nodes, Statement)
  BY <1>3, NewIs
<1>7. Single(tables')
  <2>1. Single(tables)
    BY <1>1, TablesGood
  <2>2. \A d, e \in ArgumentsIn(nodes, Statement) : d = e
    BY DEF ArgumentsIn
  <2>3. \A d \in tables : \A e \in ArgumentsIn(nodes, Statement) : d.block # e.block
    BY <1>1, NothingInside
  <2> QED
    BY <1>1, <1>5, <2>1, <2>2, <2>3 DEF Single
<1>8. nodes[Statement].kind # "define" /\ ~EmptyNode(nodes, Statement)
  BY <1>3 DEF EmptyNode, FunctionKinds, LoopKinds
<1>9. LooksOf(nodes[Statement].value) = {}
  <2>1. nodes[Statement].kind \notin {"expression", "return", "if"} \cup VariableKinds \cup LoopKinds
    BY <1>3 DEF FunctionKinds, VariableKinds, LoopKinds
  <2>2. nodes[Statement].value = NoLook
    BY <1>3, <2>1 DEF FormOf
  <2>3. NoLook.mode # "native"
    BY DEF NoLook
  <2> QED
    BY <2>2, <2>3 DEF LooksOf
<1>10. PassedNames({})
  BY <1>1, <1>5, <1>6, <1>7, <1>8, <1>9 DEF PassedNames
<1> QED
  BY <1>1, <1>2, <1>4, <1>10, PassNames

-----------------------------------------------------------------------------
(* Hoisting.                                                                 *)

(* Declarations of the statements in ns of a block.                             *)
DeclaredBy(ns, b) == UNION {DeclaresIn(nodes, n, b) : n \in ns}
Under1(ns, n) == {m \in ns : m < n}

(* One after another, each where there is none of its names.                    *)
LEMMA SinglesAdd ==
  ASSUME NEW ts, Single(ts), NEW S \in SUBSET Nat, NEW b,
         \A n \in S : ~Defined(ts \cup DeclaredBy(Under1(S, n), b), DeclaresIn(nodes, n, b))
  PROVE  Single(ts \cup DeclaredBy(S, b))
<1>1. \A n : \A e \in DeclaresIn(nodes, n, b) : e = Entry(e.block, e.table, e.name, e.node) /\ e.node = n
  BY DeclaresAre
<1>2. \A n \in S : \A e \in DeclaresIn(nodes, n, b) : \A d \in ts \cup DeclaredBy(Under1(S, n), b) :
        ~(d.block = e.block /\ d.table = e.table /\ d.name = e.name)
  BY DEF Defined, Named
<1>3. \A n \in S : \A d \in ts : d \in ts \cup DeclaredBy(Under1(S, n), b)
  OBVIOUS
<1>4. \A m, n \in S : m < n => \A d \in DeclaresIn(nodes, m, b) : d \in ts \cup DeclaredBy(Under1(S, n), b)
  BY DEF DeclaredBy, Under1
<1>5. \A e \in DeclaredBy(S, b) : e.node \in S /\ e \in DeclaresIn(nodes, e.node, b)
  BY <1>1 DEF DeclaredBy
<1>6. ASSUME NEW d \in ts \cup DeclaredBy(S, b), NEW e \in ts \cup DeclaredBy(S, b),
             d.block = e.block, d.table = e.table, d.name = e.name
      PROVE  d = e
  <2>1. CASE d \in ts /\ e \in ts
    BY <1>6, <2>1 DEF Single
  <2>2. CASE d \in ts /\ e \in DeclaredBy(S, b)
    BY <1>2, <1>3, <1>5, <1>6, <2>2
  <2>3. CASE e \in ts /\ d \in DeclaredBy(S, b)
    BY <1>2, <1>3, <1>5, <1>6, <2>3
  <2>4. CASE d \in DeclaredBy(S, b) /\ e \in DeclaredBy(S, b)
    <3>1. d.node \in S /\ e.node \in S /\ d \in DeclaresIn(nodes, d.node, b) /\ e \in DeclaresIn(nodes, e.node, b)
      BY <1>5, <2>4
    <3>2. ~(d.node < e.node) /\ ~(e.node < d.node)
      BY <1>2, <1>4, <1>6, <3>1
    <3>3. d.node = e.node
      <4>1. d.node \in Nat /\ e.node \in Nat
        BY <3>1
      <4> QED
        BY <3>2, <4>1
    <3> QED
      BY <1>1, <1>6, <3>1, <3>3
  <2> QED
    BY <1>6, <2>1, <2>2, <2>3, <2>4
<1> QED
  BY <1>6 DEF Single

(* What Hoist does, in the terms of the rules.                                  *)
These(kind) == {n \in Range(nodes[Block].body) : nodes[n].kind = kind}
Redefined(ns) ==
  {n \in ns : Defined(tables \cup DeclaredBy(Under1(ns, n), Block), DeclaresIn(nodes, n, Block))}
WithClasses == tables \cup DeclaredBy(These("class"), Block)
TypesFound(ns) == UNION {Finds(WithClasses, n, Block, TypesIn(nodes, n)) : n \in ns}
Lost == {n \in These("function") : Faults(TypesFound({n})) # {}}

LEMMA HoistIs ==
  ASSUME ControlInv, Hoist
  PROVE  /\ Running /\ Last(calls).at = 0
         /\ \/ Redefined(These("class")) # {} /\ Ends("defined")
            \/ /\ Redefined(These("class")) = {} /\ Faults(TypesFound(These("class"))) # {} /\ Ends("undeclared")
            \/ /\ Redefined(These("class")) = {}
               /\ \/ Lost # {} /\ Ends("undeclared")
                  \/ Redefined(These("function")) # {} /\ Ends("defined")
            \/ /\ Redefined(These("class")) = {} /\ Redefined(These("function")) = {}
               /\ Faults(TypesFound(These("class"))) = {} /\ Lost = {}
               /\ tables' = WithClasses \cup DeclaredBy(These("function"), Block)
               /\ found' = found \cup TypesFound(These("class") \cup These("function")) /\ ended' = ended
<1> DEFINE these(kind) == {n \in Range(nodes[Block].body) : nodes[n].kind = kind}
           entries(ns) == UNION {Declares(n, Block) : n \in ns}
           before(ns, n) == {m \in ns : m < n}
           redefined(ns) ==
             {n \in ns : Defined(tables \cup entries(before(ns, n)), Declares(n, Block))}
           classes == tables \cup entries(these("class"))
           finds(ns) == UNION {Finds(classes, n, Block, Types(n)) : n \in ns}
           lost == {n \in these("function") : Faults(finds({n})) # {}}
           wrong == lost \cup redefined(these("function"))
<1>1. /\ Running /\ Last(calls).at = 0
      /\ IF redefined(these("class")) # {} THEN Ends("defined")
         ELSE IF Faults(finds(these("class"))) # {} THEN Ends("undeclared")
         ELSE IF wrong # {} THEN
           LET first == CHOOSE n \in wrong : \A m \in wrong : n <= m
           IN Ends(IF first \in lost THEN "undeclared" ELSE "defined")
         ELSE Goes(classes \cup entries(these("function")),
                   finds(these("class") \cup these("function")), Onward)
  BY DEF Hoist
<1>2. /\ \A n : Declares(n, Block) = DeclaresIn(nodes, n, Block) /\ Types(n) = TypesIn(nodes, n)
  BY NamesAre
<1>3. \A kind : these(kind) = These(kind)
  BY DEF These
<1>4. \A ns : entries(ns) = DeclaredBy(ns, Block)
  BY <1>2 DEF DeclaredBy
<1>5. \A ns : redefined(ns) = Redefined(ns)
  <2> SUFFICES ASSUME NEW ns
               PROVE  redefined(ns) = Redefined(ns)
    OBVIOUS
  <2>1. \A n : before(ns, n) = Under1(ns, n)
    BY DEF Under1
  <2> HIDE DEF entries, before
  <2>2. \A n : Defined(tables \cup entries(before(ns, n)), Declares(n, Block)) <=>
               Defined(tables \cup DeclaredBy(Under1(ns, n), Block), DeclaresIn(nodes, n, Block))
    BY <1>2, <1>4, <2>1
  <2> QED
    BY <2>2 DEF Redefined
<1>6. classes = WithClasses
  BY <1>3, <1>4 DEF WithClasses
<1>7. \A ns : finds(ns) = TypesFound(ns)
  BY <1>2, <1>6 DEF TypesFound
<1>8. lost = Lost
  BY <1>3, <1>7 DEF Lost
<1> DEFINE first == CHOOSE n \in wrong : \A m \in wrong : n <= m
<1>9. /\ Running /\ Last(calls).at = 0
      /\ IF Redefined(These("class")) # {} THEN Ends("defined")
         ELSE IF Faults(TypesFound(These("class"))) # {} THEN Ends("undeclared")
         ELSE IF wrong # {} THEN Ends(IF first \in Lost THEN "undeclared" ELSE "defined")
         ELSE Goes(WithClasses \cup DeclaredBy(These("function"), Block),
                   TypesFound(These("class") \cup These("function")), Onward)
  BY <1>1, <1>3, <1>4, <1>5, <1>6, <1>7, <1>8
<1>10. wrong = Lost \cup Redefined(These("function"))
  BY <1>3, <1>5, <1>8
<1> HIDE DEF these, entries, before, redefined, classes, finds, lost, wrong, first
<1>11. CASE wrong # {} /\ Ends(IF first \in Lost THEN "undeclared" ELSE "defined")
  <2>1. (Lost # {} /\ Ends("undeclared")) \/ (Redefined(These("function")) # {} /\ Ends("defined"))
    <3>1. CASE first \in Lost
      BY <1>11, <3>1
    <3>2. CASE first \notin Lost
      <4>1. first \in wrong
        <5>1. wrong \in SUBSET Nat
          <6>1. nodes[Block].body \in Seq(Nat)
            BY <1>9, RunningIs
          <6>2. Range(nodes[Block].body) \subseteq Nat
            BY <6>1 DEF Range
          <6> QED
            BY <1>10, <6>2 DEF Lost, Redefined, These
        <5>2. \E n \in wrong : \A m \in wrong : n <= m
          BY ONLY <1>11, <5>1, LeastElement
        <5> QED
          BY <5>2 DEF first
      <4> QED
        BY <1>10, <1>11, <3>2, <4>1
    <3> QED
      BY <3>1, <3>2
  <2> QED
    BY <1>9, <1>11, <2>1
<1> QED
  BY <1>9, <1>10, <1>11 DEF Goes

(* The statements of the block that Hoist is for.                               *)
LEMMA HoistIn ==
  ASSUME ControlInv, NamesInv, Running, Last(calls).at = 0, NEW n \in Range(nodes[Block].body)
  PROVE  /\ n \in DOMAIN nodes /\ n \in Nat /\ n # 1 /\ HolderIn(nodes, n) = Block
         /\ AboveIn(nodes, n) = {Block} \cup AboveIn(nodes, Block)
         /\ ToHoist(nodes, calls, n)
<1>1. /\ Tree(nodes) /\ Formed(nodes) /\ Called(nodes, calls) /\ Apart(nodes, calls)
      /\ Len(calls) \in DOMAIN calls /\ Block = calls[Len(calls)].block /\ Last(calls).at = calls[Len(calls)].at
      /\ Block \in DOMAIN nodes
  BY RunningIs
<1>2. PICK j \in DOMAIN nodes[Block].body : nodes[Block].body[j] = n
  BY DEF Range
<1>3. /\ n \in DOMAIN nodes /\ HolderIn(nodes, n) = Block /\ Block < n /\ n # 1
      /\ AboveIn(nodes, n) = {Block} \cup AboveIn(nodes, Block)
  BY <1>1, <1>2, UnderHolder
<1>4. n \in Nat
  <2>1. DOMAIN nodes = 1 .. Len(nodes) /\ Len(nodes) \in Nat
    BY RunningIs
  <2> QED
    BY <1>3, <2>1
<1>5. ToHoist(nodes, calls, n)
  <2>1. j \in DOMAIN nodes[calls[Len(calls)].block].body /\ calls[Len(calls)].at = 0
        /\ nodes[calls[Len(calls)].block].body[j] = n
    BY <1>1, <1>2
  <2> QED
    BY <1>1, <2>1, StatementComing
<1> QED
  BY <1>3, <1>4, <1>5

LEMMA TheseDeclare ==
  ASSUME ControlInv, NamesInv, Running, Last(calls).at = 0, NEW kind \in {"class", "function"},
         NEW e \in DeclaredBy(These(kind), Block)
  PROVE  /\ e.node \in These(kind) /\ e.node \in Range(nodes[Block].body) /\ e \in DeclaresIn(nodes, e.node, Block)
         /\ e.block = Block /\ nodes[e.node].kind = kind
         /\ e \in DeclarationsIn(nodes) /\ HoistedIn(nodes, e) /\ Pending(nodes, calls, e)
<1>1. PICK n \in These(kind) : e \in DeclaresIn(nodes, n, Block)
  BY DEF DeclaredBy
<1>2. e.node = n /\ e.block = Block
  BY <1>1, DeclaresAre
<1>3. n \in Range(nodes[Block].body) /\ nodes[n].kind = kind
  BY DEF These
<1>4. /\ n \in DOMAIN nodes /\ n # 1 /\ HolderIn(nodes, n) = Block /\ ToHoist(nodes, calls, n)
  BY <1>3, HoistIn
<1>5. Tree(nodes) /\ Formed(nodes)
  BY RunningIs
<1>6. e \in DeclarationsIn(nodes)
  BY <1>1, <1>4, <1>5, EntriesOf DEF EntriesIn
<1>7. HoistedIn(nodes, e)
  BY <1>2, <1>3, <1>4 DEF HoistedIn
<1> QED
  BY <1>1, <1>2, <1>3, <1>4, <1>6, <1>7 DEF Pending

(* The names of classes and of functions do not meet.                           *)
LEMMA HoistSingle ==
  ASSUME ControlInv, NamesInv, Running, Last(calls).at = 0
  PROVE  /\ Redefined(These("class")) = {} => Single(WithClasses)
         /\ Redefined(These("class")) = {} /\ Redefined(These("function")) = {} =>
              Single(WithClasses \cup DeclaredBy(These("function"), Block))
<1> DEFINE C == DeclaredBy(These("class"), Block)
           F == DeclaredBy(These("function"), Block)
<1>1. Single(tables)
  BY TablesGood
<1>2. ASSUME NEW kind, Redefined(These(kind)) = {}
      PROVE  Single(tables \cup DeclaredBy(These(kind), Block))
  <2>1. These(kind) \in SUBSET Nat
    BY HoistIn DEF These
  <2>2. \A n \in These(kind) :
          ~Defined(tables \cup DeclaredBy(Under1(These(kind), n), Block), DeclaresIn(nodes, n, Block))
    BY <1>2 DEF Redefined
  <2> QED
    BY <1>1, <2>1, <2>2, SinglesAdd
<1>3. \A d \in C : d.table \in {"TYPE", "CLASS"}
  BY TheseDeclare, DeclaresAre
<1>4. \A d \in F : d.table \in {"VARIABLE", "FUNCTION"}
  BY TheseDeclare, DeclaresAre
<1> HIDE DEF C, F
<1>5. ASSUME Single(tables \cup C), Single(tables \cup F)
      PROVE  Single((tables \cup C) \cup F)
  <2>1. \A d \in C, e \in F : d.table # e.table
    BY <1>3, <1>4
  <2> QED
    BY <1>5, <2>1 DEF Single
<1> QED
  BY <1>2, <1>5 DEF C, F, WithClasses

(* The types that Hoist looks up.                                               *)
LEMMA HoistLooks ==
  ASSUME ControlInv, NamesInv, Running, Last(calls).at = 0, Redefined(These("class")) = {},
         NEW n \in Range(nodes[Block].body), NEW look \in TypesIn(nodes, n)
  PROVE  GetSymbol(WithClasses, Block, look.name, Mask(look.mode)) = MeaningIn(nodes, n, look)
<1>1. /\ n \in DOMAIN nodes /\ n # 1 /\ HolderIn(nodes, n) = Block
      /\ AboveIn(nodes, n) = {Block} \cup AboveIn(nodes, Block)
  BY HoistIn
<1>2. /\ Tree(nodes) /\ Formed(nodes) /\ Block \in DOMAIN nodes /\ nodes[Block].kind = "block"
      /\ CallsInv(nodes, calls) /\ Len(calls) \in DOMAIN calls /\ Block = calls[Len(calls)].block
  BY RunningIs
<1>3. AllLinked(nodes, Block)
  BY <1>2 DEF CallsInv
<1>4. look.mode = "type" /\ look.mode \in LookModes /\ Mask(look.mode) = {"TYPE"}
  BY <1>1, <1>2, LooksAre, MaskIs
<1>5. Single(WithClasses)
  BY HoistSingle
<1>6. /\ InBlocks(nodes, tables)
      /\ \A e : e \in tables <=> e \in DeclarationsIn(nodes) /\ ~Pending(nodes, calls, e)
  BY TablesGood
<1>7. \A e \in DeclaredBy(These("class"), Block) : e.block = Block /\ e \in DeclarationsIn(nodes)
  BY TheseDeclare
<1>8. InBlocks(nodes, WithClasses)
  BY <1>2, <1>6, <1>7 DEF InBlocks, WithClasses
<1>9. ASSUME NEW e, e.block \in AboveIn(nodes, n), e.table = "TYPE"
      PROVE  e \in WithClasses <=> e \in DeclarationsIn(nodes) /\ KnownIn(nodes, e, n)
  <2>1. e \in WithClasses => e \in DeclarationsIn(nodes)
    BY <1>6, <1>7 DEF WithClasses
  <2>2. ASSUME e \in DeclarationsIn(nodes)
        PROVE  KnownIn(nodes, e, n) /\ e \in WithClasses
    <3>1. nodes[e.node].kind = "class" /\ e.block = HolderIn(nodes, e.node) /\ nodes[e.node].kind \notin VariableKinds
      BY <1>2, <1>9, <2>2, DeclarationKinds DEF VariableKinds
    <3>2. KnownIn(nodes, e, n)
      BY <3>1 DEF KnownIn
    <3>3. CASE e.block = Block
      <4>1. /\ e.node \in DOMAIN nodes /\ e.node # 1 /\ e \in EntriesIn(nodes, e.node)
        BY <1>2, <2>2, DeclarationIs
      <4>2. e \notin ArgumentsIn(nodes, e.node)
        BY <1>2, <3>1, <4>1, ArgumentsAre DEF FunctionKinds
      <4>3. e \in DeclaresIn(nodes, e.node, Block)
        BY <3>1, <3>3, <4>1, <4>2 DEF EntriesIn
      <4>4. e.node \in These("class")
        <5>1. \E i \in DOMAIN nodes[Block].body : nodes[Block].body[i] = e.node
          <6>1. \E i \in DOMAIN nodes[HolderIn(nodes, e.node)].body : nodes[HolderIn(nodes, e.node)].body[i] = e.node
            BY ONLY <1>2, <4>1, HolderHolds
          <6>2. HolderIn(nodes, e.node) = Block
            BY <3>1, <3>3
          <6> QED
            BY <6>1, <6>2
        <5> QED
          BY <3>1, <5>1 DEF These, Range
      <4> QED
        BY <3>2, <4>3, <4>4 DEF WithClasses, DeclaredBy
    <3>4. CASE e.block # Block
      <4>1. ~Pending(nodes, calls, e)
        BY <1>1, <1>9, <2>2, <3>1, <3>4, EarlierDeclared
      <4> QED
        BY <1>6, <2>2, <3>2, <4>1 DEF WithClasses
    <3> QED
      BY <3>3, <3>4
  <2> QED
    BY <2>1, <2>2
<1>10. Sees(nodes, WithClasses, n, look)
  BY <1>4, <1>9 DEF Sees
<1> QED
  BY ONLY <1>1, <1>2, <1>3, <1>4, <1>5, <1>8, <1>10, LookUp

LEMMA HoistNames ==
  ASSUME ControlInv, NamesInv, Running, Last(calls).at = 0,
         Redefined(These("class")) = {}, Redefined(These("function")) = {},
         Faults(TypesFound(These("class"))) = {}, Lost = {},
         tables' = WithClasses \cup DeclaredBy(These("function"), Block),
         found' = found \cup TypesFound(These("class") \cup These("function")),
         Raised(nodes, calls, calls'), calls' # <<>>, nodes' = nodes
  PROVE  NamesInv'
<1> DEFINE body == nodes[Block].body
           finds == TypesFound(These("class") \cup These("function"))
<1>1. /\ Tree(nodes) /\ Formed(nodes) /\ Block = calls[Len(calls)].block /\ Begun' /\ Block \in DOMAIN nodes
  BY RunningIs DEF Begun
<1>2. /\ TablesInv /\ FoundInv /\ EmptyInv
      /\ \A e : e \in tables <=> e \in DeclarationsIn(nodes) /\ ~Pending(nodes, calls, e)
  BY TablesGood
<1>3. SameRules
  BY DEF SameRules
<1>4. Single(tables')
  BY HoistSingle
<1>5. /\ \A n : ToCome(nodes', calls', n) <=> ToCome(nodes, calls, n)
      /\ \A n \in DOMAIN nodes : ToHoist(nodes', calls', n) <=> ToHoist(nodes, calls, n) /\ n \notin Range(body)
  BY <1>1, RaisedCalls
(* What is declared.                                                           *)
<1>6. ASSUME NEW e \in DeclarationsIn(nodes)
      PROVE  Pending(nodes', calls', e) <=>
               Pending(nodes, calls, e) /\ ~(HoistedIn(nodes, e) /\ e.node \in Range(body))
  <2>1. e.node \in DOMAIN nodes
    BY <1>1, DeclarationIs
  <2> QED
    BY <1>5, <2>1 DEF Pending
<1>7. ASSUME NEW e \in DeclarationsIn(nodes), HoistedIn(nodes, e), e.node \in Range(body)
      PROVE  e \in tables'
  <2>1. /\ e.node \in DOMAIN nodes /\ e.node # 1 /\ e \in EntriesIn(nodes, e.node) /\ HolderIn(nodes, e.node) = Block
    BY <1>1, <1>7, DeclarationIs, HoistIn
  <2>2. e \notin ArgumentsIn(nodes, e.node)
    <3>1. nodes[e.node].kind = "class" \/ e.block = HolderIn(nodes, e.node)
      BY <1>7 DEF HoistedIn
    <3>2. "class" \notin FunctionKinds
      BY DEF FunctionKinds
    <3> QED
      BY <1>1, <2>1, <3>1, <3>2, ArgumentsAre
  <2>3. e \in DeclaresIn(nodes, e.node, Block)
    BY <2>1, <2>2 DEF EntriesIn
  <2>4. e.node \in These("class") \/ e.node \in These("function")
    BY <1>7 DEF HoistedIn, These
  <2> QED
    BY <2>3, <2>4 DEF DeclaredBy, WithClasses
<1>8. ASSUME NEW e \in tables', e \notin tables
      PROVE  e \in DeclarationsIn(nodes) /\ HoistedIn(nodes, e) /\ e.node \in Range(body)
  <2>1. e \in DeclaredBy(These("class"), Block) \/ e \in DeclaredBy(These("function"), Block)
    BY <1>8 DEF WithClasses
  <2> QED
    BY <2>1, TheseDeclare
<1>9. /\ \A e \in DeclarationsIn(nodes) : e \in tables' <=> e \in tables \/ ~Pending(nodes', calls', e)
      /\ \A e \in DeclarationsIn(nodes) : Pending(nodes', calls', e) => Pending(nodes, calls, e)
      /\ tables' \subseteq DeclarationsIn(nodes)
  <2>1. tables \subseteq tables'
    BY DEF WithClasses
  <2> QED
    BY <1>2, <1>6, <1>7, <1>8, <2>1
(* What is found.                                                              *)
<1>10. \A n \in These("class") \cup These("function") :
         /\ n \in Range(body) /\ n \in DOMAIN nodes
         /\ \A look \in TypesIn(nodes, n) :
              GetSymbol(WithClasses, Block, look.name, Mask(look.mode)) = MeaningIn(nodes, n, look)
  BY HoistIn, HoistLooks DEF These
<1>11. ASSUME NEW n \in These("class") \cup These("function")
       PROVE  /\ \A f \in Finds(WithClasses, n, Block, TypesIn(nodes, n)) : GoodFind(nodes, f)
              /\ \A look \in TypesIn(nodes, n) : FoundAt(Finds(WithClasses, n, Block, TypesIn(nodes, n)), n, look)
  <2> DEFINE fs == Finds(WithClasses, n, Block, TypesIn(nodes, n))
  <2>1. Faults(fs) = {}
    <3>1. CASE n \in These("class")
      <4>1. fs \subseteq TypesFound(These("class"))
        BY <3>1 DEF TypesFound
      <4> HIDE DEF fs
      <4> QED
        BY <4>1 DEF Faults
    <3>2. CASE n \in These("function")
      <4>1. n \notin Lost
        OBVIOUS
      <4>2. Faults(TypesFound({n})) = {}
        BY <3>2, <4>1 DEF Lost
      <4>3. TypesFound({n}) = fs
        BY DEF TypesFound
      <4> QED
        BY <4>2, <4>3
    <3> QED
      BY <1>11, <3>1, <3>2
  <2> QED
    BY <1>10, <1>11, <2>1, FindsAre
<1>12. finds = UNION {Finds(WithClasses, n, Block, TypesIn(nodes, n)) : n \in These("class") \cup These("function")}
  BY DEF TypesFound
<1> HIDE DEF finds
<1>13. \A f \in finds : GoodFind(nodes, f)
  BY <1>11, <1>12
<1>14. \A n \in These("class") \cup These("function") : \A look \in TypesIn(nodes, n) : FoundAt(finds, n, look)
  BY <1>11, <1>12 DEF FoundAt
<1>15. \A n \in DOMAIN nodes : \A look \in TypesIn(nodes, n) :
         TypesPending(nodes, calls, n) => TypesPending(nodes', calls', n) \/ FoundAt(finds, n, look)
  <2> SUFFICES ASSUME NEW n \in DOMAIN nodes, NEW look \in TypesIn(nodes, n), TypesPending(nodes, calls, n)
               PROVE  TypesPending(nodes', calls', n) \/ FoundAt(finds, n, look)
    OBVIOUS
  <2>1. nodes[n].kind \in {"define", "class", "function"}
    BY <1>1, LooksAre
  <2>2. CASE nodes[n].kind = "define" \/ n \notin Range(body)
    BY <1>5, <2>2 DEF TypesPending
  <2>3. CASE nodes[n].kind # "define" /\ n \in Range(body)
    <3>1. n \in These("class") \cup These("function")
      BY <2>1, <2>3 DEF These
    <3> QED
      BY <1>14, <3>1
  <2> QED
    BY <2>2, <2>3
<1>16. found' = found \cup finds
  BY DEF finds
<1>17. /\ \A n \in DOMAIN nodes : \A look \in LooksOf(nodes[n].value) :
            ToCome(nodes, calls, n) => ToCome(nodes', calls', n) \/ FoundAt(finds, n, look)
       /\ \A n \in DOMAIN nodes : EmptyNode(nodes, n) /\ ToCome(nodes, calls, n) => ToCome(nodes', calls', n)
  BY <1>5
<1> QED
  BY ONLY <1>1, <1>2, <1>3, <1>4, <1>9, <1>13, <1>15, <1>16, <1>17, NamesBy

LEMMA StartNames ==
  ASSUME ControlInv, NamesInv, Start
  PROVE  NamesInv'
<1>1. /\ calls = <<>> /\ ended = "" /\ calls' = <<Call(1)>> /\ tables' = tables /\ found' = found /\ nodes' = nodes
      /\ Tree(nodes) /\ Formed(nodes)
  BY DEF Start, Writing, ControlInv, TreeInv
<1>2. tables' = {} /\ found' = {}
  BY <1>1 DEF NamesInv, Begun
<1>3. Begun'
  <2>1. <<Call(1)>> # <<>>
    OBVIOUS
  <2> QED
    BY <1>1, <2>1 DEF Begun
<1>4. \A n \in DOMAIN nodes : n # 1 => ToCome(nodes', calls', n) /\ ToHoist(nodes', calls', n)
  BY <1>1, FirstCall
<1>5. \A e \in DeclarationsIn(nodes) : Pending(nodes', calls', e)
  <2>1. \A e \in DeclarationsIn(nodes) : e.node \in DOMAIN nodes /\ e.node # 1
    BY <1>1, DeclarationIs
  <2> QED
    BY <1>4, <2>1 DEF Pending
<1>6. (TablesInv)'
  BY <1>1, <1>2, <1>5 DEF TablesInv, Single
<1>7. /\ LooksOf(nodes[1].value) = {} /\ TypesIn(nodes, 1) = {} /\ ~EmptyNode(nodes, 1)
  <2>1. 1 \in DOMAIN nodes
    <3>1. nodes \in Seq(NodeRecords) /\ Len(nodes) >= 1
      BY <1>1 DEF Tree
    <3> QED
      BY <3>1
  <2>2. nodes[1].kind = "block"
    BY <1>1 DEF Formed
  <2>3. TypesIn(nodes, 1) = {}
    BY <1>1, <2>1, <2>2, LooksAre
  <2> QED
    BY <1>1, <2>1, <2>2, <2>3, LooksAre
<1>8. (FoundInv)' /\ (EmptyInv)'
  BY <1>1, <1>2, <1>4, <1>7 DEF FoundInv, EmptyInv, TypesPending
<1> QED
  BY <1>3, <1>6, <1>8 DEF NamesInv

(* What names nothing.                                                         *)
LEMMA NoLooks ==
  ASSUME NEW ns, Formed(ns), NEW n \in DOMAIN ns,
         ns[n].kind \in {"block", "class", "control", "return nothing"} \cup FunctionKinds
  PROVE  LooksOf(ns[n].value) = {}
<1>1. FormOf(ns[n])
  BY DEF Formed, Form
<1>2. ns[n].kind \notin {"expression", "return", "if"} \cup VariableKinds \cup LoopKinds
  BY DEF FunctionKinds, VariableKinds, LoopKinds
<1>3. ns[n].value = NoLook
  BY <1>1, <1>2 DEF FormOf
<1>4. NoLook.mode # "native"
  BY DEF NoLook
<1> QED
  BY <1>3, <1>4 DEF LooksOf

(* Nothing but the calls of analyze goes on.                                    *)
LEMMA SameNames ==
  ASSUME Tree(nodes), Formed(nodes), NamesInv, Begun, Begun', UNCHANGED <<nodes, tables, found>>,
         \A n : /\ ToCome(nodes', calls', n) <=> ToCome(nodes, calls, n)
                /\ ToHoist(nodes', calls', n) <=> ToHoist(nodes, calls, n)
  PROVE  NamesInv'
<1>1. TablesInv /\ FoundInv /\ EmptyInv
  BY DEF NamesInv
<1>2. \A e : Pending(nodes', calls', e) <=> Pending(nodes, calls, e)
  BY DEF Pending
<1>3. \A n : TypesPending(nodes', calls', n) <=> TypesPending(nodes, calls, n)
  BY DEF TypesPending
<1>4. (TablesInv)'
  BY <1>1, <1>2 DEF TablesInv
<1>5. (FoundInv)'
  BY <1>1, <1>3 DEF FoundInv
<1>6. (EmptyInv)'
  BY <1>1 DEF EmptyInv
<1> QED
  BY <1>4, <1>5, <1>6 DEF NamesInv

LEMMA StoppedNames ==
  ASSUME ControlInv, NamesInv, Running, Stops
  PROVE  NamesInv'
<1>1. UNCHANGED <<nodes, calls, tables, found>> /\ Begun /\ Begun'
  BY DEF Stops, Ends, Begun, Running
<1> QED
  BY <1>1, RunningIs, SameNames

LEMMA NamesStep ==
  ASSUME ControlInv, NamesInv, [Next]_vars
  PROVE  NamesInv'
<1>1. CASE Parse
  <2>1. calls' = <<>> /\ ended' = "" /\ calls = <<>> /\ ended = "" /\ tables' = tables /\ found' = found
    BY <1>1, ParseStep DEF ControlInv
  <2>2. ~Begun' /\ tables' = {} /\ found' = {}
    BY <2>1 DEF Begun, NamesInv
  <2> QED
    BY <2>2 DEF NamesInv
<1>2. CASE Start
  BY <1>2, StartNames
<1>3. CASE Hoist
  <2>1. Running /\ Last(calls).at = 0
    BY <1>3 DEF Hoist
  <2>2. CASE Stops
    BY <2>1, <2>2, StoppedNames
  <2>3. CASE ~Stops
    <3>1. Raised(nodes, calls, calls') /\ calls' # <<>> /\ nodes' = nodes
      BY <1>3, <2>3, HoistShape
    <3>2. ~Ends("defined") /\ ~Ends("undeclared")
      BY <2>3 DEF Stops, Verdicts
    <3>3. /\ Redefined(These("class")) = {} /\ Redefined(These("function")) = {}
          /\ Faults(TypesFound(These("class"))) = {} /\ Lost = {}
          /\ tables' = WithClasses \cup DeclaredBy(These("function"), Block)
          /\ found' = found \cup TypesFound(These("class") \cup These("function"))
      BY <1>3, <3>2, HoistIs
    <3> QED
      BY ONLY ControlInv, NamesInv, <2>1, <3>1, <3>3, HoistNames
  <2> QED
    BY <2>2, <2>3
<1>4. CASE AnalyzeBlock
  <2>1. At({"block"}) /\ Goneto({Statement}) /\ tables' = tables /\ found' = found
    BY <1>4, BlockShape
  <2>2. nodes[Statement].kind \in {"block"} /\ Statement \in DOMAIN nodes /\ Tree(nodes) /\ Formed(nodes)
    BY <2>1, StatementIn
  <2>3. LooksOf(nodes[Statement].value) = {} /\ ~EmptyNode(nodes, Statement)
    BY <2>2, LooksAre
  <2>4. nodes[Statement].kind \notin VariableKinds \cup FunctionKinds
    BY <2>2 DEF VariableKinds, FunctionKinds
  <2> QED
    BY <2>1, <2>3, <2>4, GoneNames
<1>5. CASE AnalyzeExpression
  <2>1. /\ At({"expression"}) /\ Running
        /\ \/ Stops
           \/ Faults(Conditions) = {} /\ Goneto({}) /\ tables' = tables /\ found' = found \cup Conditions
    BY <1>5, ExpressionShape DEF At
  <2>2. nodes[Statement].kind \in {"expression"}
    BY <2>1, StatementIn
  <2>3. nodes[Statement].kind \notin VariableKinds \cup FunctionKinds /\ ~EmptyNode(nodes, Statement)
    BY <2>2 DEF VariableKinds, FunctionKinds, EmptyNode, LoopKinds
  <2> QED
    BY <2>1, <2>3, GoneNames, StoppedNames
<1>6. CASE AnalyzeLet
  <2>1. /\ At({"let"}) /\ Running
        /\ \/ Stops
           \/ /\ Faults(Conditions) = {} /\ ~Defined(tables, Declares(Statement, Block))
              /\ Goneto({}) /\ tables' = tables \cup Declares(Statement, Block)
              /\ found' = found \cup Conditions
    BY <1>6, LetShape DEF At
  <2> QED
    BY <2>1, LetNames, StoppedNames
<1>7. CASE AnalyzeDefine
  <2> DEFINE typed == Finds(tables, Statement, Block, Types(Statement))
             entries == Declares(Statement, Block)
             finds == Finds(tables \cup entries, Statement, Block, LooksOf(nodes[Statement].value))
  <2>1. /\ At({"define"}) /\ Running
        /\ \/ Stops
           \/ /\ Faults(typed \cup finds) = {} /\ ~Defined(tables, entries)
              /\ Goneto({}) /\ tables' = tables \cup entries
              /\ found' = found \cup typed \cup finds
    BY <1>7, DefineShape DEF At
  <2> QED
    BY <2>1, DefineNames, StoppedNames
<1>8. CASE AnalyzeFunction
  BY <1>8, FunctionNames
<1>9. CASE AnalyzeIf
  <2>1. /\ At({"if"}) /\ Running
        /\ \/ Stops
           \/ /\ Faults(Conditions) = {} /\ Goneto(Inner(nodes, Statement)) /\ tables' = tables
              /\ found' = found \cup Conditions
    BY <1>9, IfShape DEF At
  <2>2. nodes[Statement].kind \in {"if"}
    BY <2>1, StatementIn
  <2>3. nodes[Statement].kind \notin VariableKinds \cup FunctionKinds /\ ~EmptyNode(nodes, Statement)
    BY <2>2 DEF VariableKinds, FunctionKinds, EmptyNode, LoopKinds
  <2> QED
    BY <2>1, <2>3, GoneNames, StoppedNames
<1>10. CASE AnalyzeLoop
  <2>1. /\ At(LoopKinds) /\ Running
        /\ \/ Stops
           \/ /\ Faults(Conditions) = {} /\ nodes[Statement].body # <<>>
              /\ Goneto(Inner(nodes, Statement)) /\ tables' = tables
              /\ found' = found \cup Conditions
    BY <1>10, LoopShape DEF At
  <2>2. nodes[Statement].kind \in LoopKinds
    BY <2>1, StatementIn
  <2>3. nodes[Statement].kind \notin VariableKinds \cup FunctionKinds /\ nodes[Statement].kind # "return nothing"
    BY <2>2 DEF VariableKinds, FunctionKinds, LoopKinds
  <2>4. nodes[Statement].body # <<>> => ~EmptyNode(nodes, Statement)
    BY <2>3 DEF EmptyNode
  <2> QED
    BY <2>1, <2>3, <2>4, GoneNames, StoppedNames
<1>11. CASE AnalyzeControl
  <2>1. /\ At({"control"}) /\ Running
        /\ Stops \/ (Goneto({}) /\ tables' = tables /\ found' = found)
    BY <1>11, ControlShape DEF At
  <2>2. /\ nodes[Statement].kind \in {"control"} /\ Statement \in DOMAIN nodes /\ Tree(nodes) /\ Formed(nodes)
    BY <2>1, StatementIn
  <2>3. nodes[Statement].kind \notin VariableKinds \cup FunctionKinds /\ ~EmptyNode(nodes, Statement)
    BY <2>2 DEF VariableKinds, FunctionKinds, EmptyNode, LoopKinds
  <2>4. LooksOf(nodes[Statement].value) = {}
    BY <2>2, NoLooks
  <2> QED
    BY <2>1, <2>3, <2>4, GoneNames, StoppedNames
<1>12. CASE AnalyzeReturn
  <2>1. /\ At({"return", "return nothing"}) /\ Running
        /\ \/ Stops
           \/ /\ nodes[Statement].kind = "return" /\ Faults(Conditions) = {}
              /\ Goneto({}) /\ found' = found \cup Conditions /\ tables' = tables
    BY <1>12, ReturnShape DEF At
  <2>2. nodes[Statement].kind = "return" =>
          nodes[Statement].kind \notin VariableKinds \cup FunctionKinds /\ ~EmptyNode(nodes, Statement)
    BY DEF VariableKinds, FunctionKinds, EmptyNode, LoopKinds
  <2> QED
    BY <2>1, <2>2, GoneNames, StoppedNames
<1>13. CASE SkipClass
  <2>1. At({"class"}) /\ Goneto({}) /\ tables' = tables /\ found' = found
    BY <1>13, ClassShape
  <2>2. /\ nodes[Statement].kind \in {"class"} /\ Statement \in DOMAIN nodes /\ Tree(nodes) /\ Formed(nodes)
    BY <2>1, StatementIn
  <2>3. nodes[Statement].kind \notin VariableKinds \cup FunctionKinds /\ ~EmptyNode(nodes, Statement)
    BY <2>2 DEF VariableKinds, FunctionKinds, EmptyNode, LoopKinds
  <2>4. LooksOf(nodes[Statement].value) = {}
    BY <2>2, NoLooks
  <2> QED
    BY <2>1, <2>3, <2>4, GoneNames
<1>14. CASE Leave
  <2>1. tables' = tables /\ found' = found /\ nodes' = nodes /\ Running
    BY <1>14 DEF Leave
  <2>2. \A n : /\ ToCome(nodes', calls', n) <=> ToCome(nodes, calls, n)
               /\ ToHoist(nodes', calls', n) <=> ToHoist(nodes, calls, n)
    BY <1>14, LeaveStep
  <2>3. Begun /\ Begun'
    <3>1. calls' = <<>> => ended' = "done"
      BY <1>14, <2>1, RunningIs, LeaveCalls DEF Leave
    <3> QED
      BY <2>1, <3>1 DEF Begun, Running
  <2> QED
    BY <2>1, <2>2, <2>3, RunningIs, SameNames
<1>15. CASE UNCHANGED vars
  <2>1. UNCHANGED <<nodes, calls, tables, found, ended>>
    BY <1>15 DEF vars
  <2> QED
    BY <2>1 DEF NamesInv, Begun, TablesInv, FoundInv, EmptyInv
<1> QED
  BY <1>1, <1>2, <1>3, <1>4, <1>5, <1>6, <1>7, <1>8, <1>9, <1>10, <1>11, <1>12, <1>13, <1>14, <1>15
  DEF Next, Analyze

-----------------------------------------------------------------------------
(* The theorems about names.                                                 *)

(* Once analysis has begun, the tables hold the declarations that analyze has come to   *)
(* and no others, each name once to a block and table; every name that it has come *)
(* to was found, as what the text says it means; and nothing that would crash is  *)
(* behind it (add_symbol, get_symbol and the order in which analyze.c calls them). *)
THEOREM NamesHold == Spec => []NamesInv
<1>1. Init => NamesInv
  <2> SUFFICES ASSUME Init
               PROVE  NamesInv
    OBVIOUS
  <2>1. tables = {} /\ found = {} /\ ~Begun
    BY DEF Init, Begun
  <2> QED
    BY <2>1 DEF NamesInv
<1>2. ControlInv /\ NamesInv /\ [Next]_vars => NamesInv'
  BY NamesStep
<1> QED
  BY <1>1, <1>2, ControlHolds, PTL DEF Spec

(* Every name that was looked up means the declaration in the innermost block     *)
(* around it that had declared it by then (get_symbol, parent_scope).             *)
THEOREM NamesResolve == Spec => []ResolvesInnermost
<1>1. NamesInv => ResolvesInnermost
  <2> SUFFICES ASSUME NamesInv, NEW f \in found
               PROVE  f.entry = Meaning(f.node, f.look)
    BY DEF ResolvesInnermost
  <2>1. GoodFind(nodes, f)
    BY DEF NamesInv, FoundInv
  <2> QED
    BY <2>1, NamesAre DEF GoodFind
<1> QED
  BY <1>1, NamesHold, PTL

(* At the end nothing is to come.                                              *)
LEMMA AllDone ==
  ASSUME ControlInv, TargetsInv, NamesInv, ended = "done"
  PROVE  /\ Tree(nodes) /\ Formed(nodes)
         /\ tables = DeclarationsIn(nodes) /\ Single(tables)
         /\ \A f \in found : GoodFind(nodes, f)
         /\ \A n \in DOMAIN nodes : \A look \in AllLooksIn(nodes, n) : FoundAt(found, n, look)
         /\ \A n \in DOMAIN nodes : ~EmptyNode(nodes, n)
         /\ \A t \in targets : /\ t = [node |-> t.node, target |-> TargetIn(nodes, t.node)]
                               /\ t.target # 0 /\ t.node \in JumpsIn(nodes)
         /\ \A n \in JumpsIn(nodes) : \E t \in targets : t.node = n
<1>1. Begun /\ calls = <<>> /\ Tree(nodes) /\ Formed(nodes)
  BY DEF Begun, ControlInv, TreeInv
<1>2. \A n : ~ToCome(nodes, calls, n) /\ ~ToHoist(nodes, calls, n)
  BY <1>1, NothingToCome
<1>3. TablesInv /\ FoundInv /\ EmptyInv
  BY <1>1 DEF NamesInv
<1>4. tables = DeclarationsIn(nodes) /\ Single(tables)
  <2>1. \A e : ~Pending(nodes, calls, e)
    BY <1>2 DEF Pending
  <2> QED
    BY <1>3, <2>1 DEF TablesInv
<1>5. ASSUME NEW n \in DOMAIN nodes, NEW look \in AllLooksIn(nodes, n)
      PROVE  FoundAt(found, n, look)
  <2>1. CASE look \in LooksOf(nodes[n].value)
    BY <1>2, <1>3, <2>1 DEF FoundInv
  <2>2. CASE look \in TypesIn(nodes, n)
    <3>1. ~TypesPending(nodes, calls, n)
      BY <1>2 DEF TypesPending
    <3> QED
      BY <1>3, <2>2, <3>1 DEF FoundInv
  <2> QED
    BY <2>1, <2>2 DEF AllLooksIn
<1>6. \A n \in DOMAIN nodes : ~EmptyNode(nodes, n)
  BY <1>2, <1>3 DEF EmptyInv
<1>7. \A n \in JumpsIn(nodes) : \E t \in targets : t.node = n
  BY <1>1, <1>2 DEF TargetsInv
<1> QED
  BY <1>1, <1>3, <1>4, <1>5, <1>6, <1>7 DEF FoundInv, TargetsInv

(* Each jump has one target, so there are as many targets as jumps.               *)
LEMMA OneTargetEach ==
  ASSUME ControlInv, TargetsInv, NamesInv, ended = "done"
  PROVE  {t.node : t \in targets} = Jumps /\ Cardinality(targets) = Cardinality(Jumps)
<1> DEFINE J == JumpsIn(nodes)
           target(n) == [node |-> n, target |-> TargetIn(nodes, n)]
           f == [n \in J |-> target(n)]
<1>1. /\ \A t \in targets : t = target(t.node) /\ t.node \in J
      /\ \A n \in J : \E t \in targets : t.node = n
  BY AllDone
<1>2. Jumps = J
  BY RulesAre
<1>3. {t.node : t \in targets} = J
  BY <1>1
<1>4. IsFiniteSet(J)
  <2>1. DOMAIN nodes = 1 .. Len(nodes) /\ Len(nodes) \in Int /\ 1 \in Int
    <3>1. nodes \in Seq(NodeRecords)
      BY DEF ControlInv, TreeInv, Tree
    <3> QED
      BY <3>1
  <2>2. IsFiniteSet(DOMAIN nodes)
    BY <2>1, FS_Interval
  <2>3. J \in SUBSET DOMAIN nodes
    BY DEF JumpsIn
  <2> QED
    BY <2>2, <2>3, FS_Subset
<1>5. \A m, n : target(m) = target(n) => m = n
  OBVIOUS
<1> HIDE DEF J, target
<1>6. f \in [J -> targets] /\ \A n \in J : f[n] = target(n)
  BY <1>1
<1> HIDE DEF f
<1>7. /\ \A m, n \in J : f[m] = f[n] => m = n
      /\ \A t \in targets : \E n \in J : f[n] = t
  BY <1>1, <1>5, <1>6
<1>8. ExistsBijection(J, targets)
  <2>1. f \in Bijection(J, targets)
    BY <1>6, <1>7 DEF Bijection, Injection, Surjection, IsInjective
  <2> QED
    BY <2>1 DEF ExistsBijection
<1>9. Cardinality(targets) = Cardinality(J)
  BY <1>4, <1>8, FS_Bijection
<1> QED
  BY <1>2, <1>3, <1>9

(* When analysis ends well, every declaration of the text is in its table, every    *)
(* name was looked up, and every jump has one target: the nested calls of analyze  *)
(* leave no statement out and take none twice.                                  *)
THEOREM AllAnalyzed == Spec => []EverythingAnalyzed
<1>1. ControlInv /\ TargetsInv /\ NamesInv => EverythingAnalyzed
  <2> SUFFICES ASSUME ControlInv, TargetsInv, NamesInv, ended = "done"
               PROVE  /\ tables = Declarations
                      /\ \A n \in DOMAIN nodes : \A look \in AllLooks(n) :
                           \E f \in found : f.node = n /\ f.look = look
                      /\ {t.node : t \in targets} = Jumps /\ Cardinality(targets) = Cardinality(Jumps)
    BY DEF EverythingAnalyzed
  <2>1. tables = Declarations
    BY AllDone, NamesAre
  <2>2. \A n \in DOMAIN nodes : \A look \in AllLooks(n) : \E f \in found : f.node = n /\ f.look = look
    BY AllDone, NamesAre DEF FoundAt
  <2> QED
    BY <2>1, <2>2, OneTargetEach
<1> QED
  BY <1>1, ControlHolds, TargetsHold, NamesHold, PTL

-----------------------------------------------------------------------------
(* Verdicts.                                                                 *)

RedeclaresIn(ns) == \E d, e \in DeclarationsIn(ns) :
  d # e /\ d.block = e.block /\ d.table = e.table /\ d.name = e.name
FaultyIn(ns, how) ==
  \E n \in DOMAIN ns : \E look \in AllLooksIn(ns, n) : Fault(look, MeaningIn(ns, n, look)) = how
ReasonIn(ns, how) ==
  \/ how = "defined" /\ RedeclaresIn(ns)
  \/ how \in {"undeclared", "misused"} /\ FaultyIn(ns, how)
  \/ how = "outside" /\ \E n \in JumpsIn(ns) : TargetIn(ns, n) = 0
  \/ how = "crash" /\ \E n \in DOMAIN ns : EmptyNode(ns, n)

VerdictInv == ended \in Verdicts => ReasonIn(nodes, ended)

LEMMA ReasonIs ==
  ASSUME Tree(nodes), NEW how \in Verdicts
  PROVE  /\ ReasonIn(nodes, how) => Reason(how)
         /\ how # "outside" => (Reason(how) <=> ReasonIn(nodes, how))
<1>1. Redeclares <=> RedeclaresIn(nodes)
  BY NamesAre DEF Redeclares, RedeclaresIn
<1>2. HasFault(how) <=> FaultyIn(nodes, how)
  <2>1. \A n : AllLooks(n) = AllLooksIn(nodes, n)
    BY NamesAre
  <2>2. \A n, look : Meaning(n, look) = MeaningIn(nodes, n, look)
    BY NamesAre
  <2> QED
    BY ONLY <2>1, <2>2 DEF HasFault, FaultyIn
<1>3. (\E n \in JumpsIn(nodes) : TargetIn(nodes, n) = 0) => Strays
  <2>1. ASSUME NEW n \in JumpsIn(nodes), TargetIn(nodes, n) = 0
        PROVE  TargetOf(n) = 0
    BY <2>1, RulesAre, LoopOfIs DEF TargetIn, TargetOf, JumpsIn
  <2> QED
    BY <2>1, RulesAre DEF Strays
<1>4. IsEmpty <=> \E n \in DOMAIN nodes : EmptyNode(nodes, n)
  BY DEF IsEmpty, EmptyNode
<1>5. how \in {"defined", "undeclared", "misused", "outside", "crash"}
  BY DEF Verdicts
<1>6. CASE how = "defined"
  BY <1>1, <1>6 DEF Reason, ReasonIn
<1>7. CASE how \in {"undeclared", "misused"}
  <2>1. Reason(how) <=> HasFault(how)
    BY <1>7 DEF Reason
  <2>2. ReasonIn(nodes, how) <=> FaultyIn(nodes, how)
    BY <1>7 DEF ReasonIn
  <2> QED
    BY <1>2, <2>1, <2>2
<1>8. CASE how = "outside"
  BY <1>3, <1>8 DEF Reason, ReasonIn
<1>9. CASE how = "crash"
  BY <1>4, <1>9 DEF Reason, ReasonIn
<1> QED
  BY <1>5, <1>6, <1>7, <1>8, <1>9

(* Only an assignment or an identity of a function is a misuse.                  *)
LEMMA FaultIs ==
  ASSUME NEW look, NEW entry
  PROVE  /\ Fault(look, entry) \in {"undeclared", "misused", ""}
         /\ look.mode \notin {"set", "identity"} => Fault(look, entry) # "misused"
BY DEF Fault

LEMMA EndsVerdict ==
  ASSUME NEW how, Ends(how), how \in Verdicts => ReasonIn(nodes, how)
  PROVE  VerdictInv'
BY DEF Ends, VerdictInv

(* Where the names mean what the text says, a fault is one of the text.            *)
LEMMA FaultsInText ==
  ASSUME NEW n \in DOMAIN nodes, NEW b, NEW ts, NEW looks, looks \subseteq AllLooksIn(nodes, n),
         \A look \in looks : GetSymbol(ts, b, look.name, Mask(look.mode)) = MeaningIn(nodes, n, look),
         NEW how, how \in Faults(Finds(ts, n, b, looks))
  PROVE  /\ ReasonIn(nodes, how) /\ how \in {"undeclared", "misused"}
         /\ (\A look \in looks : look.mode \notin {"set", "identity"}) => how = "undeclared"
<1>1. PICK look \in looks : Fault(look, MeaningIn(nodes, n, look)) = how /\ how # ""
  <2>1. \A h \in Faults(Finds(ts, n, b, looks)) :
          \E look \in looks : Fault(look, MeaningIn(nodes, n, look)) = h /\ h # ""
    BY FindsAre
  <2> QED
    BY <2>1
<1>2. how \in {"undeclared", "misused"}
  BY <1>1, FaultIs
<1>3. FaultyIn(nodes, how)
  BY <1>1 DEF FaultyIn
<1>4. look.mode \notin {"set", "identity"} => how = "undeclared"
  BY <1>1, <1>2, FaultIs
<1> QED
  BY <1>2, <1>3, <1>4 DEF ReasonIn

(* The value of a statement that is no definition.                               *)
LEMMA ConditionFaults ==
  ASSUME ControlInv, NamesInv, NEW kinds, At(kinds), "define" \notin kinds, NEW how \in Faults(Conditions)
  PROVE  /\ ReasonIn(nodes, how)
         /\ "expression" \notin kinds => how = "undeclared"
<1> DEFINE looks == LooksOf(nodes[Statement].value)
<1>1. Statement \in DOMAIN nodes /\ nodes[Statement].kind \in kinds /\ Tree(nodes) /\ Formed(nodes)
  BY StatementIn
<1>2. \A look \in looks : GetSymbol(tables, Block, look.name, Mask(look.mode)) = MeaningIn(nodes, Statement, look)
  BY <1>1, LooksNow
<1>3. looks \subseteq AllLooksIn(nodes, Statement)
  BY DEF AllLooksIn
<1>4. "expression" \notin kinds => \A look \in looks : look.mode = "get"
  BY <1>1, LooksAre
<1>5. how \in Faults(Finds(tables, Statement, Block, looks))
  BY DEF Conditions
<1> HIDE DEF looks
<1>6. /\ ReasonIn(nodes, how)
      /\ (\A look \in looks : look.mode \notin {"set", "identity"}) => how = "undeclared"
  BY ONLY <1>1, <1>2, <1>3, <1>5, FaultsInText
<1> QED
  BY <1>4, <1>6

(* Two declarations of one name in one table.                                    *)
LEMMA RedeclaresBy ==
  ASSUME NEW d \in DeclarationsIn(nodes), NEW e \in DeclarationsIn(nodes),
         d # e, d.block = e.block, d.table = e.table, d.name = e.name
  PROVE  ReasonIn(nodes, "defined")
BY DEF ReasonIn, RedeclaresIn

LEMMA DefinedIs ==
  ASSUME NEW ts, NEW entries, Defined(ts, entries)
  PROVE  \E d \in ts, e \in entries : d.block = e.block /\ d.table = e.table /\ d.name = e.name
BY DEF Defined, Named

LEMMA VariableDefined ==
  ASSUME ControlInv, NamesInv, At(VariableKinds), Defined(tables, Declares(Statement, Block))
  PROVE  ReasonIn(nodes, "defined")
<1>1. /\ Tree(nodes) /\ Formed(nodes) /\ Statement \in DOMAIN nodes /\ Statement # 1
      /\ HolderIn(nodes, Statement) = Block /\ nodes[Statement].kind \in VariableKinds
      /\ ToCome(nodes, calls, Statement)
  <2>1. Tree(nodes) /\ Formed(nodes)
    BY RunningIs DEF At
  <2>2. /\ Statement \in DOMAIN nodes /\ Statement # 1
        /\ HolderIn(nodes, Statement) = Block /\ nodes[Statement].kind \in VariableKinds
        /\ ToCome(nodes, calls, Statement)
    BY AtIs
  <2> QED
    BY <2>1, <2>2
<1>2. PICK d \in tables, e \in DeclaresIn(nodes, Statement, Block) :
        d.block = e.block /\ d.table = e.table /\ d.name = e.name
  BY DefinedIs, NamesAre
<1>3. e \in NewAt(nodes, Statement)
  BY <1>1, NewIs
<1>4. e \in DeclarationsIn(nodes) /\ Pending(nodes, calls, e)
  BY <1>1, <1>3 DEF NewAt, Pending
<1>5. d \in DeclarationsIn(nodes) /\ ~Pending(nodes, calls, d)
  BY TablesGood DEF At
<1> QED
  BY <1>2, <1>4, <1>5, RedeclaresBy

LEMMA HoistDefined ==
  ASSUME ControlInv, NamesInv, Running, Last(calls).at = 0, NEW kind \in {"class", "function"},
         Redefined(These(kind)) # {}
  PROVE  ReasonIn(nodes, "defined")
<1> DEFINE before(n) == Under1(These(kind), n)
<1>1. PICK n \in These(kind) : Defined(tables \cup DeclaredBy(before(n), Block), DeclaresIn(nodes, n, Block))
  BY DEF Redefined
<1>2. PICK d \in tables \cup DeclaredBy(before(n), Block), e \in DeclaresIn(nodes, n, Block) :
        d.block = e.block /\ d.table = e.table /\ d.name = e.name
  BY <1>1, DefinedIs
<1>3. e \in DeclaredBy(These(kind), Block)
  BY DEF DeclaredBy
<1>4. e.node = n
  BY DeclaresAre
<1>5. e \in DeclarationsIn(nodes) /\ Pending(nodes, calls, e)
  BY <1>3, TheseDeclare
<1>6. CASE d \in tables
  <2>1. d \in DeclarationsIn(nodes) /\ ~Pending(nodes, calls, d)
    BY <1>6, TablesGood
  <2> QED
    BY <1>2, <1>5, <2>1, RedeclaresBy
<1>7. CASE d \in DeclaredBy(before(n), Block)
  <2>1. PICK m \in before(n) : d \in DeclaresIn(nodes, m, Block)
    BY <1>7 DEF DeclaredBy
  <2>2. m \in These(kind) /\ m < n
    BY DEF Under1
  <2>3. d.node = m
    BY <2>1, DeclaresAre
  <2>4. d \in DeclaredBy(These(kind), Block)
    BY <2>1, <2>2 DEF DeclaredBy
  <2>5. d \in DeclarationsIn(nodes)
    BY <2>4, TheseDeclare
  <2>6. d # e
    <3>1. n \in Nat
      BY HoistIn DEF These
    <3> QED
      BY <1>4, <2>2, <2>3, <3>1
  <2> QED
    BY <1>2, <1>5, <2>5, <2>6, RedeclaresBy
<1> QED
  BY <1>2, <1>6, <1>7

LEMMA HoistUndeclared ==
  ASSUME ControlInv, NamesInv, Running, Last(calls).at = 0, Redefined(These("class")) = {},
         NEW ns, ns \subseteq Range(nodes[Block].body), Faults(TypesFound(ns)) # {}
  PROVE  ReasonIn(nodes, "undeclared")
<1> DEFINE finds(n) == Finds(WithClasses, n, Block, TypesIn(nodes, n))
<1>1. PICK n \in ns : Faults(finds(n)) # {}
  <2>1. TypesFound(ns) = UNION {finds(n) : n \in ns}
    BY DEF TypesFound
  <2>2. PICK f \in TypesFound(ns) : Fault(f.look, f.entry) # ""
    BY DEF Faults
  <2> HIDE DEF finds
  <2>3. PICK n \in ns : f \in finds(n)
    BY <2>1
  <2>4. Fault(f.look, f.entry) \in Faults(finds(n))
    BY <2>2, <2>3 DEF Faults
  <2> QED
    BY <2>3, <2>4
<1>2. PICK how : how \in Faults(finds(n))
  BY <1>1
<1>3. /\ n \in DOMAIN nodes /\ Tree(nodes) /\ Formed(nodes)
  BY HoistIn, RunningIs
<1> DEFINE looks == TypesIn(nodes, n)
<1>4. \A look \in looks : GetSymbol(WithClasses, Block, look.name, Mask(look.mode)) = MeaningIn(nodes, n, look)
  BY HoistLooks
<1>5. \A look \in looks : look.mode = "type"
  BY <1>3, LooksAre
<1>6. looks \subseteq AllLooksIn(nodes, n)
  BY DEF AllLooksIn
<1>7. how \in Faults(Finds(WithClasses, n, Block, looks))
  BY <1>2
<1> HIDE DEF looks
<1>8. /\ ReasonIn(nodes, how)
      /\ (\A look \in looks : look.mode \notin {"set", "identity"}) => how = "undeclared"
  BY ONLY <1>3, <1>4, <1>6, <1>7, FaultsInText
<1> QED
  BY <1>5, <1>8

LEMMA HoistVerdict ==
  ASSUME ControlInv, NamesInv, Hoist
  PROVE  VerdictInv'
<1>1. Running /\ Last(calls).at = 0 /\ ended = ""
  BY DEF Hoist, Running
<1>2. CASE Redefined(These("class")) # {} /\ Ends("defined")
  BY <1>1, <1>2, HoistDefined, EndsVerdict
<1>3. CASE Redefined(These("class")) = {} /\ Faults(TypesFound(These("class"))) # {} /\ Ends("undeclared")
  <2>1. These("class") \subseteq Range(nodes[Block].body)
    BY DEF These
  <2> QED
    BY <1>1, <1>3, <2>1, HoistUndeclared, EndsVerdict
<1>4. CASE Redefined(These("class")) = {} /\ Lost # {} /\ Ends("undeclared")
  <2>1. PICK n \in These("function") : Faults(TypesFound({n})) # {}
    BY <1>4 DEF Lost
  <2>2. {n} \subseteq Range(nodes[Block].body)
    BY DEF These
  <2> QED
    BY <1>1, <1>4, <2>1, <2>2, HoistUndeclared, EndsVerdict
<1>5. CASE Redefined(These("function")) # {} /\ Ends("defined")
  BY <1>1, <1>5, HoistDefined, EndsVerdict
<1>6. CASE ended' = ended
  BY <1>1, <1>6 DEF VerdictInv, Verdicts
<1> QED
  BY <1>2, <1>3, <1>4, <1>5, <1>6, HoistIs

LEMMA DefineVerdict ==
  ASSUME ControlInv, NamesInv, AnalyzeDefine
  PROVE  VerdictInv'
<1> DEFINE typed == Finds(tables, Statement, Block, Types(Statement))
           entries == Declares(Statement, Block)
           looks == LooksOf(nodes[Statement].value)
           finds == Finds(tables \cup entries, Statement, Block, looks)
<1>1. /\ At({"define"})
      /\ \/ \E how \in Faults(typed) : Ends(how)
         \/ ~Defined(tables, entries) /\ \E how \in Faults(typed \cup finds) : Ends(how)
         \/ Ends("defined") /\ Defined(tables, entries)
         \/ Goneto({})
  BY DefineShape
<1>2. Running /\ ended = "" /\ Statement \in DOMAIN nodes /\ nodes[Statement].kind \in {"define"}
  BY <1>1, StatementIn DEF At, Running
<1>3. entries = DeclaresIn(nodes, Statement, Block) /\ Types(Statement) = TypesIn(nodes, Statement)
  BY NamesAre
<1>4. ASSUME NEW how, how \in Faults(typed)
      PROVE  ReasonIn(nodes, how)
  <2> DEFINE types == TypesIn(nodes, Statement)
  <2>1. \A look \in types : GetSymbol(tables, Block, look.name, Mask(look.mode)) = MeaningIn(nodes, Statement, look)
    BY <1>1, LooksNow
  <2>2. types \subseteq AllLooksIn(nodes, Statement)
    BY DEF AllLooksIn
  <2>3. how \in Faults(Finds(tables, Statement, Block, types))
    BY <1>3, <1>4
  <2> HIDE DEF types
  <2> QED
    BY ONLY <1>2, <2>1, <2>2, <2>3, FaultsInText
<1>5. ASSUME NEW how, how \in Faults(finds), ~Defined(tables, entries)
      PROVE  ReasonIn(nodes, how)
  <2> DEFINE ts == tables \cup entries
  <2>1. Single(ts)
    <3>1. Single(tables) /\ ~Defined(tables, DeclaresIn(nodes, Statement, Block))
      BY <1>2, <1>3, <1>5, TablesGood
    <3> QED
      BY <1>3, <3>1, SingleAdds
  <2>2. \A look \in looks : GetSymbol(ts, Block, look.name, Mask(look.mode)) = MeaningIn(nodes, Statement, look)
    BY <1>1, <1>2, <1>3, <2>1, LooksNow
  <2>3. looks \subseteq AllLooksIn(nodes, Statement)
    BY DEF AllLooksIn
  <2>4. how \in Faults(Finds(ts, Statement, Block, looks))
    BY <1>5
  <2> HIDE DEF looks, ts
  <2> QED
    BY ONLY <1>2, <2>2, <2>3, <2>4, FaultsInText
<1>6. Defined(tables, entries) => ReasonIn(nodes, "defined")
  <2>1. At(VariableKinds)
    BY <1>1 DEF At, VariableKinds
  <2> QED
    BY <2>1, VariableDefined
<1>7. Goneto({}) => VerdictInv'
  BY <1>2 DEF Goneto, VerdictInv, Verdicts
<1> HIDE DEF typed, entries, finds
<1>8. Faults(typed \cup finds) = Faults(typed) \cup Faults(finds)
  BY DEF Faults
<1> QED
  BY <1>1, <1>4, <1>5, <1>6, <1>7, <1>8, EndsVerdict

(* A step that turns a program down has its reason.                              *)
LEMMA VerdictStep ==
  ASSUME ControlInv, NamesInv, VerdictInv, [Next]_vars
  PROVE  VerdictInv'
<1>1. CASE Parse
  <2>1. ended' = ""
    BY <1>1, ParseStep DEF ControlInv
  <2> QED
    BY <2>1 DEF VerdictInv, Verdicts
<1>2. CASE Start
  <2>1. ended' = ""
    BY <1>2 DEF Start, Writing
  <2> QED
    BY <2>1 DEF VerdictInv, Verdicts
<1>3. CASE Hoist
  BY <1>3, HoistVerdict
<1> DEFINE goes == ended' \notin Verdicts
           faulty == \E how \in Faults(Conditions) : Ends(how)
<1>4. goes => VerdictInv'
  BY DEF VerdictInv
<1>5. \A inner : Running /\ Goneto(inner) => goes
  BY DEF Running, Goneto, Verdicts
<1>6. ASSUME NEW kinds, At(kinds), "define" \notin kinds, faulty
      PROVE  VerdictInv'
  BY <1>6, ConditionFaults, EndsVerdict
<1>7. CASE AnalyzeBlock
  BY <1>4, <1>5, <1>7, BlockShape DEF At
<1>8. CASE AnalyzeExpression
  <2>1. At({"expression"}) /\ Running /\ (faulty \/ Goneto({}))
    BY <1>8, ExpressionShape DEF At
  <2>2. "define" \notin {"expression"}
    OBVIOUS
  <2> QED
    BY <1>4, <1>5, <1>6, <2>1, <2>2
<1>9. CASE AnalyzeLet
  <2>1. At({"let"}) /\ Running
        /\ \/ faulty
           \/ Ends("defined") /\ Defined(tables, Declares(Statement, Block))
           \/ Goneto({})
    BY <1>9, LetShape DEF At
  <2>2. "define" \notin {"let"} /\ At(VariableKinds)
    BY <2>1 DEF At, VariableKinds
  <2> QED
    BY <1>4, <1>5, <1>6, <2>1, <2>2, VariableDefined, EndsVerdict
<1>10. CASE AnalyzeDefine
  BY <1>10, DefineVerdict
<1>11. CASE AnalyzeFunction
  <2>1. ended' = "" 
    BY <1>11, AnalyzeFunctionIs DEF At, Running
  <2> QED
    BY <1>4, <2>1 DEF Verdicts
<1>12. CASE AnalyzeIf
  <2>1. At({"if"}) /\ Running /\ (faulty \/ Goneto(Inner(nodes, Statement)))
    BY <1>12, IfShape DEF At
  <2>2. "define" \notin {"if"}
    OBVIOUS
  <2> QED
    BY <1>4, <1>5, <1>6, <2>1, <2>2
<1>13. CASE AnalyzeLoop
  <2>1. At(LoopKinds) /\ Running
        /\ \/ faulty
           \/ Ends("crash") /\ nodes[Statement].body = <<>>
           \/ Goneto(Inner(nodes, Statement))
    BY <1>13, LoopShape DEF At
  <2>2. "define" \notin LoopKinds
    BY DEF LoopKinds
  <2>3. Statement \in DOMAIN nodes /\ nodes[Statement].kind \in LoopKinds
    BY <2>1, StatementIn
  <2>4. nodes[Statement].body = <<>> => ReasonIn(nodes, "crash")
    BY <2>3 DEF ReasonIn, EmptyNode
  <2> QED
    BY <1>4, <1>5, <1>6, <2>1, <2>2, <2>4, EndsVerdict
<1>14. CASE AnalyzeControl
  <2>1. At({"control"}) /\ Running /\ ((Ends("outside") /\ TargetFrom = 0) \/ Goneto({}))
    BY <1>14, ControlShape DEF At
  <2>2. Statement \in DOMAIN nodes /\ nodes[Statement].kind \in {"control"}
    BY <2>1, StatementIn
  <2>3. TargetFrom = TargetIn(nodes, Statement) /\ Statement \in JumpsIn(nodes)
    BY <2>1, <2>2, ControlFinds DEF TargetIn, JumpsIn, JumpKinds
  <2>4. TargetFrom = 0 => ReasonIn(nodes, "outside")
    BY <2>3 DEF ReasonIn
  <2> QED
    BY <1>4, <1>5, <2>1, <2>4, EndsVerdict
<1>15. CASE AnalyzeReturn
  <2>1. /\ At({"return", "return nothing"}) /\ Running
        /\ \/ Ends("outside") /\ FunctionAround(Block) = 0
           \/ Ends("crash") /\ nodes[Statement].kind = "return nothing"
           \/ Ends("undeclared") /\ Faults(Conditions) # {}
           \/ Goneto({})
    BY <1>15, ReturnShape DEF At
  <2>2. Statement \in DOMAIN nodes /\ nodes[Statement].kind \in {"return", "return nothing"}
    BY <2>1, StatementIn
  <2>3. FunctionAround(Block) = TargetIn(nodes, Statement) /\ Statement \in JumpsIn(nodes)
    BY <2>1, <2>2, ReturnFinds DEF TargetIn, JumpsIn, JumpKinds
  <2>4. FunctionAround(Block) = 0 => ReasonIn(nodes, "outside")
    BY <2>3 DEF ReasonIn
  <2>5. nodes[Statement].kind = "return nothing" => ReasonIn(nodes, "crash")
    BY <2>2 DEF ReasonIn, EmptyNode
  <2>6. Faults(Conditions) # {} => ReasonIn(nodes, "undeclared")
    <3> DEFINE kinds == {"return", "return nothing"}
    <3>1. At(kinds) /\ "define" \notin kinds /\ "expression" \notin kinds
      BY <2>1
    <3> HIDE DEF kinds
    <3>2. \A how \in Faults(Conditions) : ReasonIn(nodes, how) /\ how = "undeclared"
      BY <3>1, ConditionFaults
    <3> QED
      BY <3>2
  <2> QED
    BY <1>4, <1>5, <2>1, <2>4, <2>5, <2>6, EndsVerdict
<1>16. CASE SkipClass
  BY <1>4, <1>5, <1>16, ClassShape DEF At
<1>17. CASE Leave
  <2>1. ended' \in {"", "done"}
    BY <1>17 DEF Leave
  <2> QED
    BY <1>4, <2>1 DEF Verdicts
<1>18. CASE UNCHANGED vars
  BY <1>18 DEF vars, VerdictInv
<1> QED
  BY <1>1, <1>2, <1>3, <1>7, <1>8, <1>9, <1>10, <1>11, <1>12, <1>13, <1>14, <1>15, <1>16, <1>17, <1>18
  DEF Next, Analyze

(* A program that has been turned down has the fault that the verdict names (the     *)
(* error exits of analyze_statement, add_symbol, get_symbol and analyze_return).     *)
THEOREM VerdictsHold == Spec => []VerdictInv
<1>1. Init => VerdictInv
  BY DEF Init, VerdictInv, Verdicts
<1>2. ControlInv /\ NamesInv /\ VerdictInv /\ [Next]_vars => VerdictInv'
  BY VerdictStep
<1> QED
  BY <1>1, <1>2, ControlHolds, NamesHold, PTL DEF Spec

(* What is taken has no fault, but a jump that leaves its function.               *)
LEMMA TakenIsRight ==
  ASSUME ControlInv, TargetsInv, NamesInv, ended = "done", NEW how
  PROVE  ~ReasonIn(nodes, how)
<1>1. ~RedeclaresIn(nodes)
  BY AllDone DEF RedeclaresIn, Single
<1>2. ASSUME how \in {"undeclared", "misused"}
      PROVE  ~FaultyIn(nodes, how)
  <2> SUFFICES ASSUME NEW n \in DOMAIN nodes, NEW look \in AllLooksIn(nodes, n)
               PROVE  Fault(look, MeaningIn(nodes, n, look)) = ""
    BY <1>2 DEF FaultyIn
  <2>1. PICK f \in found : f.node = n /\ f.look = look
    BY AllDone DEF FoundAt
  <2>2. GoodFind(nodes, f)
    BY AllDone
  <2> QED
    BY <2>1, <2>2 DEF GoodFind
<1>3. ASSUME NEW n \in JumpsIn(nodes)
      PROVE  TargetIn(nodes, n) # 0
  <2>1. PICK t \in targets : t.node = n
    BY AllDone
  <2>2. t = [node |-> t.node, target |-> TargetIn(nodes, t.node)] /\ t.target # 0
    BY AllDone
  <2> QED
    BY <2>1, <2>2
<1>4. \A n \in DOMAIN nodes : ~EmptyNode(nodes, n)
  BY AllDone
<1> QED
  BY <1>1, <1>2, <1>3, <1>4 DEF ReasonIn

(* A program is turned down only for a reason that its text has, and taken only if   *)
(* its text has none, a jump out of a function to a loop around it left out (the     *)
(* verdicts of analyze, add_symbol and get_symbol against the rules of scope).       *)
THEOREM VerdictsRight == Spec => []RejectsOnlyWrong
<1>1. ControlInv /\ TargetsInv /\ NamesInv /\ VerdictInv => RejectsOnlyWrong
  <2> SUFFICES ASSUME ControlInv, TargetsInv, NamesInv, VerdictInv
               PROVE  RejectsOnlyWrong
    OBVIOUS
  <2>1. Tree(nodes)
    BY DEF ControlInv, TreeInv
  <2>2. ended \in Verdicts => Reason(ended)
    BY <2>1, ReasonIs DEF VerdictInv
  <2>3. ASSUME ended = "done", NEW how \in Verdicts \ {"outside"}
        PROVE  ~Reason(how)
    BY <2>1, <2>3, ReasonIs, TakenIsRight
  <2>4. ASSUME ended = "done", NEW n \in Jumps, TargetOf(n) = 0
        PROVE  LeavesFunction(n)
    <3>1. n \in JumpsIn(nodes) /\ n \in DOMAIN nodes
      BY RulesAre DEF JumpsIn
    <3>2. ~ReasonIn(nodes, "outside")
      BY <2>4, TakenIsRight
    <3>3. TargetIn(nodes, n) # 0
      BY <3>1, <3>2 DEF ReasonIn
    <3>4. nodes[n].kind = "control"
      BY <2>4, <3>3, RulesAre DEF TargetOf, TargetIn
    <3>5. LoopIn(nodes, n) # 0
      BY <3>3, <3>4 DEF TargetIn
    <3> QED
      BY <2>1, <3>1, <3>4, <3>5, LoopOfIs DEF LeavesFunction
  <2> QED
    BY <2>2, <2>3, <2>4 DEF RejectsOnlyWrong
<1> QED
  BY <1>1, ControlHolds, TargetsHold, NamesHold, VerdictsHold, PTL
=============================================================================
