---------------------------- MODULE CopiesProofs ----------------------------
(***************************************************************************)
(* Proofs about Copies, for blocks of every size.  The invariant says what  *)
(* generation gives the pass (SourceInv: operands come before their          *)
(* instruction, and origin follows copies), and, for the part of the block   *)
(* the pass has gone over, that the map leads each number to a new one that  *)
(* stands for it (MapInv), that the instructions kept do what they did       *)
(* (CodeInv) and are all that are not copies (KeptInv), while the rest of     *)
(* the array is untouched (ArrayInv).                                        *)
(***************************************************************************)
EXTENDS Copies, TLAPS

Instructions == [op : AllOperations, parameters : Seq(Int)]
Terminals ==
  [type : {"FINAL", "GOTO", "BRANCH"}, first_block : Int, second_block : Int, condition : Int,
   parameters : Seq(Int)]

(* An instruction with the number n.                                         *)
Fit(ins, n) ==
  /\ ins \in Instructions
  /\ \A s \in Reads(ins) : s \in DOMAIN ins.parameters /\ ins.parameters[s] \in 0 .. n - 1
  /\ ins.op = "INSTANCEOF" => ins.parameters # <<>> /\ ins.parameters[1] = n
  /\ ins.op = "NATIVE" => ins.parameters # <<>> /\ ins.parameters[1] = Len(ins.parameters) - 1

SourceInv ==
  /\ params \in Nat
  /\ source \in Seq(Instructions)
  /\ \A k \in 1 .. Len(source) : Fit(source[k], params + k - 1)
  /\ origin \in [Numbers -> Numbers]
  /\ \A n \in 0 .. params - 1 : origin[n] = n
  /\ \A k \in 1 .. Len(source) :
       origin[params + k - 1] =
         IF source[k].op = "GET_SYMBOL" THEN origin[source[k].parameters[1]] ELSE params + k - 1

GoodTail(t) ==
  /\ t \in Terminals
  /\ t.type # "FINAL" => t.first_block \in Numbers
  /\ t.type = "BRANCH" => t.second_block \in Numbers /\ t.condition \in Numbers
  /\ t.type = "FINAL" => t.parameters = <<>>
  /\ \A k \in DOMAIN t.parameters : t.parameters[k] \in Numbers

PassInv ==
  /\ i \in 0 .. Len(source)
  /\ offset \in 0 .. i
  /\ kept \in Seq(Int) /\ Len(kept) = offset
  /\ map \in [Numbers -> Int]

MapInv == \A n \in 0 .. params + i - 1 : StandsFor(map[n], n)

KeptInv ==
  /\ \A k \in 1 .. offset : /\ kept[k] \in params .. params + i - 1
                            /\ source[kept[k] - params + 1].op # "GET_SYMBOL"
  /\ \A k, l \in 1 .. offset : k < l => kept[k] < kept[l]
  /\ \A n \in params .. params + i - 1 :
       source[n - params + 1].op # "GET_SYMBOL" => \E k \in 1 .. offset : kept[k] = n

CodeInv == \A k \in 1 .. offset : SameInstruction(k)

ArrayInv ==
  /\ instructions \in Seq(Instructions)
  /\ phase = "optimize" => Len(instructions) = Len(source) /\ UnreadStays
  /\ phase = "done" => Len(instructions) = offset /\ i = Len(source)

IInv ==
  /\ phase \in {"generate", "optimize", "done"}
  /\ SourceInv
  /\ phase = "generate" => i = 0 /\ offset = 0 /\ kept = <<>>
  /\ phase # "generate" => GoodTail(end) /\ PassInv /\ MapInv /\ KeptInv /\ CodeInv /\ ArrayInv
  /\ phase = "optimize" => tail = end
  /\ phase = "done" => SameTail

-----------------------------------------------------------------------------
(* Sequences.                                                                *)

(* Facts about sequences and numbers.                                        *)

LEMMA AppendFacts ==
  ASSUME NEW S, NEW s \in Seq(S), NEW e \in S
  PROVE  /\ Append(s, e) \in Seq(S)
         /\ Len(Append(s, e)) = Len(s) + 1
         /\ \A k \in 1 .. Len(s) : Append(s, e)[k] = s[k]
         /\ Append(s, e)[Len(s) + 1] = e
OBVIOUS

LEMMA InstructionFacts ==
  ASSUME NEW ins \in Instructions
  PROVE  /\ ins = [op |-> ins.op, parameters |-> ins.parameters]
         /\ ins.op \in AllOperations /\ ins.parameters \in Seq(Int)
         /\ Len(ins.parameters) \in Nat /\ DOMAIN ins.parameters = 1 .. Len(ins.parameters)
<1>1. ins = [op |-> ins.op, parameters |-> ins.parameters] /\ ins.op \in AllOperations
      /\ ins.parameters \in Seq(Int)
  BY DEF Instructions
<1> QED
  BY <1>1

LEMMA Counts ==
  ASSUME params \in Nat, source \in Seq(Instructions)
  PROVE  /\ Len(source) \in Nat
         /\ Total \in Nat /\ Total = params + Len(source)
         /\ DOMAIN source = 1 .. Len(source)
         /\ Numbers = 0 .. params + Len(source) - 1
         /\ \A k \in 1 .. Len(source) : source[k] \in Instructions
BY DEF Total, Numbers

(* What a copy copies comes before it.                                        *)
LEMMA CopyFollows ==
  ASSUME NEW n, NEW ins, Fit(ins, n), ins.op = "GET_SYMBOL"
  PROVE  ins.parameters[1] \in 0 .. n - 1
<1>1. Reads(ins) = {1}
  BY DEF Reads, OnOne, OnTwo
<1> QED
  BY <1>1 DEF Fit

(* The pass renumbers the operands of what it keeps and nothing else, but for  *)
(* the number of an instanceof itself.                                       *)
LEMMA RenumbersOperands ==
  ASSUME NEW n \in Nat, NEW ins, Fit(ins, n), ins.op # "GET_SYMBOL"
  PROVE  \/ ins.op = "INSTANCEOF" /\ Reads(ins) = {} /\ Renumbered(ins) = {1}
         \/ ins.op # "INSTANCEOF" /\ Renumbered(ins) = Reads(ins)
<1>1. CASE ins.op = "NATIVE"
  <2>1. ins.parameters \in Seq(Int) /\ ins.parameters[1] = Len(ins.parameters) - 1
    BY <1>1 DEF Fit, Instructions
  <2>2. ins.parameters[1] + 1 = Len(ins.parameters)
    BY <2>1
  <2> QED
    BY <1>1, <2>2 DEF Reads, Renumbered, OnOne, OnTwo
<1>2. CASE ins.op # "NATIVE"
  BY <1>2 DEF Reads, Renumbered, OnOne, OnTwo
<1> QED
  BY <1>1, <1>2

(* What generation makes fits.                                               *)
LEMMA ParametersFit ==
  ASSUME params \in Nat, source \in Seq(Instructions),
         NEW op \in AllOperations, NEW parameters \in Parameters(op)
  PROVE  Fit(Instruction(op, parameters), Total)
<1> DEFINE ins == Instruction(op, parameters)
<1>0. Total \in Nat /\ Numbers = 0 .. Total - 1 /\ Plain \subseteq Nat
  BY Counts, PlainAssumption DEF Numbers
<1>1. ins.op = op /\ ins.parameters = parameters /\ ins = [op |-> op, parameters |-> parameters]
  BY DEF Instruction
<1>2. CASE op \in OnOne \cup {"GET_SYMBOL"}
  <2>1. PICK n \in Numbers : parameters = <<n>>
    BY <1>2 DEF Parameters, OnOne, OnTwo
  <2>2. Reads(ins) = {1} /\ op # "INSTANCEOF" /\ op # "NATIVE"
    BY <1>1, <1>2 DEF Reads, OnOne, OnTwo
  <2> QED
    BY <1>0, <1>1, <2>1, <2>2 DEF Fit, Instructions
<1>3. CASE op \in OnTwo
  <2>1. PICK n \in Numbers, m \in Numbers : parameters = <<n, m>>
    BY <1>3 DEF Parameters, OnOne, OnTwo
  <2>2. Reads(ins) = {1, 2} /\ op # "INSTANCEOF" /\ op # "NATIVE"
    BY <1>1, <1>3 DEF Reads, OnOne, OnTwo
  <2> QED
    BY <1>0, <1>1, <2>1, <2>2 DEF Fit, Instructions
<1>4. CASE op = "GET_FIELD"
  <2>1. PICK n \in Numbers, m \in Plain : parameters = <<n, m>>
    BY <1>4 DEF Parameters, OnOne, OnTwo
  <2>2. Reads(ins) = {1}
    BY <1>1, <1>4 DEF Reads, OnOne, OnTwo
  <2> QED
    BY <1>0, <1>1, <1>4, <2>1, <2>2 DEF Fit, Instructions
<1>5. CASE op = "SET_FIELD"
  <2>1. PICK n \in Numbers, m \in Plain, l \in Numbers : parameters = <<n, m, l>>
    BY <1>5 DEF Parameters, OnOne, OnTwo
  <2>2. Reads(ins) = {1, 3}
    BY <1>1, <1>5 DEF Reads, OnOne, OnTwo
  <2>3. n \in Int /\ m \in Int /\ l \in Int
    BY <1>0
  <2>4. parameters \in Seq(Int) /\ DOMAIN parameters = 1 .. 3 /\ parameters[1] = n /\ parameters[3] = l
    BY <2>1, <2>3
  <2> QED
    BY <1>0, <1>1, <1>5, <2>2, <2>4 DEF Fit, Instructions
<1>6. CASE op = "SET_INDEX"
  <2>1. PICK n \in Numbers, m \in Numbers, l \in Numbers : parameters = <<n, m, l>>
    BY <1>6 DEF Parameters, OnOne, OnTwo
  <2>2. Reads(ins) = {1, 2, 3}
    BY <1>1, <1>6 DEF Reads, OnOne, OnTwo
  <2> QED
    BY <1>0, <1>1, <1>6, <2>1, <2>2 DEF Fit, Instructions
<1>7. CASE op = "INSTANCEOF"
  <2>1. PICK m \in Plain : parameters = <<Total, m>>
    BY <1>7 DEF Parameters, OnOne, OnTwo
  <2>2. Reads(ins) = {}
    BY <1>1, <1>7 DEF Reads, OnOne, OnTwo
  <2>3. Total \in Int /\ m \in Int
    BY <1>0
  <2>4. parameters \in Seq(Int) /\ parameters # <<>> /\ parameters[1] = Total
    BY <2>1, <2>3
  <2> QED
    BY <1>0, <1>1, <1>7, <2>2, <2>4 DEF Fit, Instructions
<1>8. CASE op = "NATIVE"
  <2>1. PICK n \in 0 .. MaxArguments :
          \E list \in [1 .. n -> Numbers] : parameters = <<Len(list)>> \o list
    BY <1>8 DEF Parameters, OnOne, OnTwo
  <2>1a. PICK list \in [1 .. n -> Numbers] : parameters = <<Len(list)>> \o list
    BY <2>1
  <2>2. list \in Seq(Int) /\ Len(list) = n /\ n \in Nat
    BY <1>0, <2>1a, BoundsAssumption
  <2>3. <<Len(list)>> \in Seq(Int) /\ Len(<<Len(list)>>) = 1
    BY <2>2
  <2>4. parameters \in Seq(Int) /\ Len(parameters) = n + 1 /\ parameters[1] = n
        /\ \A s \in 2 .. n + 1 : parameters[s] = list[s - 1]
    BY <2>1a, <2>2, <2>3
  <2>5. Reads(ins) = 2 .. n + 1
    BY <1>1, <1>8, <2>4 DEF Reads, OnOne, OnTwo
  <2>6. \A s \in 2 .. n + 1 : s \in DOMAIN parameters /\ parameters[s] \in 0 .. Total - 1
    BY <1>0, <2>1a, <2>2, <2>4
  <2>7. parameters # <<>>
    BY <2>2, <2>4
  <2> QED
    BY <1>1, <1>8, <2>4, <2>5, <2>6, <2>7 DEF Fit, Instructions
<1>9. CASE op \in OnNone
  <2>1. parameters = <<>>
    BY <1>9 DEF Parameters, OnOne, OnTwo, OnNone
  <2>2. Reads(ins) = {} /\ op # "INSTANCEOF" /\ op # "NATIVE"
    BY <1>1, <1>9 DEF Reads, OnOne, OnTwo, OnNone
  <2> QED
    BY <1>1, <2>1, <2>2 DEF Fit, Instructions
<1> QED
  BY <1>2, <1>3, <1>4, <1>5, <1>6, <1>7, <1>8, <1>9 DEF AllOperations

-----------------------------------------------------------------------------
(* Each step preserves the invariant.                                        *)

LEMMA InitHolds ==
  ASSUME Init
  PROVE  IInv
<1>1. params \in Nat /\ source = <<>> /\ phase = "generate" /\ i = 0 /\ offset = 0 /\ kept = <<>>
      /\ origin = [n \in 0 .. params - 1 |-> n]
  BY BoundsAssumption DEF Init
<1>2. source \in Seq(Instructions) /\ Len(source) = 0
  BY <1>1
<1>3. Numbers = 0 .. params - 1
  BY <1>1, <1>2 DEF Numbers, Total
<1>4. SourceInv
  BY <1>1, <1>2, <1>3 DEF SourceInv
<1> QED
  BY <1>1, <1>4 DEF IInv

LEMMA GenerateHolds ==
  ASSUME IInv, NEW op \in Operations, NEW parameters \in Parameters(op), Generate(op, parameters)
  PROVE  IInv'
<1> DEFINE ins == Instruction(op, parameters)
<1> DEFINE next == Total
<1>1. /\ phase = "generate" /\ phase' = "generate" /\ params' = params
      /\ source' = Append(source, ins)
      /\ origin' = [n \in 0 .. next |-> IF n < next THEN origin[n]
                                        ELSE IF op = "GET_SYMBOL" THEN origin[parameters[1]] ELSE n]
      /\ i' = i /\ offset' = offset /\ kept' = kept
  BY DEF Generate
<1>2. SourceInv /\ i = 0 /\ offset = 0 /\ kept = <<>>
  BY <1>1 DEF IInv
<1>3. /\ params \in Nat /\ source \in Seq(Instructions) /\ Len(source) \in Nat
      /\ next = params + Len(source) /\ Numbers = 0 .. next - 1 /\ next \in Nat
  BY <1>2, Counts DEF SourceInv
<1>4. Fit(ins, next) /\ ins \in Instructions /\ ins.op = op /\ ins.parameters = parameters
  <2>1. op \in AllOperations
    BY OperationsAssumption
  <2>2. Fit(ins, next)
    BY <1>3, <2>1, ParametersFit
  <2> QED
    BY <2>2 DEF Fit, Instruction
<1> HIDE DEF ins, next
<1>5. /\ source' \in Seq(Instructions) /\ Len(source') = Len(source) + 1
      /\ \A k \in 1 .. Len(source) : source'[k] = source[k]
      /\ source'[Len(source) + 1] = ins
  BY <1>1, <1>3, <1>4, AppendFacts
<1>6. Numbers' = 0 .. next
  BY <1>1, <1>3, <1>5 DEF Numbers, Total
<1>7. ASSUME NEW k \in 1 .. Len(source')
      PROVE  Fit(source'[k], params' + k - 1)
  <2>1. CASE k = Len(source) + 1
    <3>1. params' + k - 1 = next
      BY <1>1, <1>3, <2>1
    <3> QED
      BY <1>4, <1>5, <2>1, <3>1
  <2>2. CASE k # Len(source) + 1
    <3>1. k \in 1 .. Len(source)
      BY <1>3, <1>5, <2>2
    <3>2. Fit(source[k], params + k - 1)
      BY <1>2, <3>1 DEF SourceInv
    <3> QED
      BY <1>1, <1>5, <3>1, <3>2
  <2> QED
    BY <2>1, <2>2
<1>8. \A n \in 0 .. next - 1 : origin'[n] = origin[n] /\ origin[n] \in 0 .. next - 1
  <2>1. origin \in [0 .. next - 1 -> 0 .. next - 1]
    BY <1>2, <1>3 DEF SourceInv
  <2>2. ASSUME NEW n \in 0 .. next - 1
        PROVE  origin'[n] = origin[n] /\ origin[n] \in 0 .. next - 1
    <3>1. n \in 0 .. next /\ n < next
      BY <1>3
    <3> QED
      BY <1>1, <2>1, <3>1
  <2> QED
    BY <2>2
<1>9. origin'[next] = IF op = "GET_SYMBOL" THEN origin[parameters[1]] ELSE next
  BY <1>1, <1>3
<1>10. op = "GET_SYMBOL" => parameters[1] \in 0 .. next - 1
  BY <1>4 DEF Fit, Reads, OnOne
<1>11. origin' \in [0 .. next -> 0 .. next]
  <2>1. \A n \in 0 .. next : origin'[n] \in 0 .. next
    BY <1>3, <1>8, <1>9, <1>10
  <2>2. origin' = [n \in 0 .. next |-> origin'[n]]
    BY <1>1
  <2> QED
    BY <2>1, <2>2
<1>12. \A n \in 0 .. params' - 1 : origin'[n] = n
  BY <1>1, <1>2, <1>3, <1>8 DEF SourceInv
<1>13. ASSUME NEW k \in 1 .. Len(source')
       PROVE  origin'[params' + k - 1] =
                IF source'[k].op = "GET_SYMBOL" THEN origin'[source'[k].parameters[1]]
                ELSE params' + k - 1
  <2>1. CASE k = Len(source) + 1
    <3>1. params' + k - 1 = next /\ source'[k] = ins
      BY <1>1, <1>3, <1>5, <2>1
    <3>2. op = "GET_SYMBOL" => origin'[parameters[1]] = origin[parameters[1]]
      BY <1>8, <1>10
    <3> QED
      BY <1>4, <1>9, <3>1, <3>2
  <2>2. CASE k # Len(source) + 1
    <3>1. k \in 1 .. Len(source) /\ source'[k] = source[k] /\ params + k - 1 \in 0 .. next - 1
      BY <1>3, <1>5, <2>2
    <3>2. Fit(source[k], params + k - 1)
          /\ origin[params + k - 1] =
               IF source[k].op = "GET_SYMBOL" THEN origin[source[k].parameters[1]] ELSE params + k - 1
      BY <1>2, <3>1 DEF SourceInv
    <3> DEFINE number == params + k - 1
    <3>3. Fit(source[k], number) /\ number \in 0 .. next - 1
      BY <3>1, <3>2
    <3> HIDE DEF number
    <3>4. source[k].op = "GET_SYMBOL" => source[k].parameters[1] \in 0 .. number - 1
      BY <3>3, CopyFollows
    <3>5. source[k].op = "GET_SYMBOL" => source[k].parameters[1] \in 0 .. next - 1
      BY <1>3, <3>3, <3>4
    <3> QED
      BY <1>1, <1>8, <3>1, <3>2, <3>5
  <2> QED
    BY <2>1, <2>2
<1>14. SourceInv'
  BY <1>1, <1>3, <1>5, <1>6, <1>7, <1>11, <1>12, <1>13 DEF SourceInv
<1> QED
  BY <1>1, <1>2, <1>14 DEF IInv

LEMMA StartHolds ==
  ASSUME IInv, NEW terminal \in Tails, Start(terminal)
  PROVE  IInv'
<1>1. /\ phase = "generate" /\ phase' = "optimize" /\ end' = terminal /\ tail' = terminal
      /\ instructions' = source
      /\ map' = [n \in Numbers |-> IF n < params THEN n ELSE Unset]
      /\ params' = params /\ source' = source /\ i' = i /\ offset' = offset
      /\ origin' = origin /\ kept' = kept
  BY DEF Start
<1>2. SourceInv /\ i = 0 /\ offset = 0 /\ kept = <<>>
  BY <1>1 DEF IInv
<1>3. /\ params \in Nat /\ source \in Seq(Instructions) /\ Len(source) \in Nat
      /\ Numbers = 0 .. params + Len(source) - 1 /\ Len(kept) = 0
  BY <1>2, Counts DEF SourceInv
<1>4. Numbers' = Numbers
  BY <1>1 DEF Numbers, Total
<1>5. SourceInv'
  BY <1>1, <1>2, <1>4 DEF SourceInv
<1>6. GoodTail(terminal)
  <2>1. CASE terminal = NoTail
    BY <2>1 DEF NoTail, Terminal, GoodTail, Terminals, Unset
  <2>2. CASE terminal # NoTail
    <3>1. \/ \E n \in Numbers : \E k \in 0 .. MaxArguments : \E list \in [1 .. k -> Numbers] :
               terminal = Terminal("GOTO", n, Unset, Unset, list)
          \/ \E n \in Numbers : \E k \in 0 .. MaxArguments : \E list \in [1 .. k -> Numbers] :
               /\ n = Total - 3 /\ Len(source) >= 2
               /\ terminal = Terminal("BRANCH", Total - 2, Total - 1, n, list)
      BY <2>2 DEF Tails
    <3>2. ASSUME NEW n \in Numbers, NEW k \in 0 .. MaxArguments, NEW list \in [1 .. k -> Numbers],
                 terminal = Terminal("GOTO", n, Unset, Unset, list)
          PROVE  GoodTail(terminal)
      <4>1. list \in Seq(Int) /\ DOMAIN list = 1 .. k /\ \A j \in 1 .. k : list[j] \in Numbers
        BY <1>3, BoundsAssumption
      <4>2. n \in Int
        BY <1>3
      <4> QED
        BY <3>2, <4>1, <4>2 DEF Terminal, GoodTail, Terminals, Unset
    <3>3. ASSUME NEW n \in Numbers, NEW k \in 0 .. MaxArguments, NEW list \in [1 .. k -> Numbers],
                 n = Total - 3, Len(source) >= 2,
                 terminal = Terminal("BRANCH", Total - 2, Total - 1, n, list)
          PROVE  GoodTail(terminal)
      <4>1. list \in Seq(Int) /\ DOMAIN list = 1 .. k /\ \A j \in 1 .. k : list[j] \in Numbers
        BY <1>3, BoundsAssumption
      <4>2. Total - 2 \in Numbers /\ Total - 1 \in Numbers
        BY <1>3, <3>3 DEF Total
      <4>3. n \in Int /\ Total - 2 \in Int /\ Total - 1 \in Int
        BY <1>3, <4>2
      <4> QED
        BY <3>3, <4>1, <4>2, <4>3 DEF Terminal, GoodTail, Terminals
    <3> QED
      BY <3>1, <3>2, <3>3
  <2> QED
    BY <2>1, <2>2
<1>7. GoodTail(end)'
  BY <1>1, <1>4, <1>6 DEF GoodTail
<1>8. PassInv'
  BY <1>1, <1>2, <1>3, <1>4 DEF PassInv, Unset
<1>9. MapInv'
  BY <1>1, <1>2, <1>3 DEF MapInv, StandsFor, IsNew, Meaning, SourceInv
<1>10. KeptInv' /\ CodeInv'
  BY <1>1, <1>2, <1>3 DEF KeptInv, CodeInv
<1>11. ArrayInv'
  BY <1>1, <1>2, <1>3 DEF ArrayInv, UnreadStays
<1> QED
  BY <1>1, <1>5, <1>7, <1>8, <1>9, <1>10, <1>11 DEF IInv

(* What a step of the pass finds: the instruction it looks at is the one that  *)
(* was generated, and its operands have new numbers.                          *)
LEMMA AtCurrent ==
  ASSUME IInv, phase = "optimize", i < Len(source)
  PROVE  /\ SourceInv /\ GoodTail(end) /\ PassInv /\ MapInv /\ KeptInv /\ CodeInv /\ ArrayInv /\ tail = end
         /\ params \in Nat /\ Len(source) \in Nat /\ i \in Nat /\ offset \in Nat /\ offset <= i
         /\ Numbers = 0 .. params + Len(source) - 1
         /\ Number \in Numbers /\ Number = params + i
         /\ Current = source[i + 1] /\ Fit(Current, Number) /\ Current \in Instructions
         /\ origin[Number] = IF Current.op = "GET_SYMBOL" THEN origin[Current.parameters[1]] ELSE Number
<1>1. /\ SourceInv /\ GoodTail(end) /\ PassInv /\ MapInv /\ KeptInv /\ CodeInv /\ ArrayInv /\ tail = end
  BY DEF IInv
<1>2. /\ params \in Nat /\ Len(source) \in Nat /\ i \in Nat /\ offset \in Nat /\ offset <= i
      /\ Numbers = 0 .. params + Len(source) - 1
  BY <1>1, Counts DEF SourceInv, PassInv
<1>3. i + 1 \in 1 .. Len(source) /\ params + (i + 1) - 1 = Number /\ Number = params + i /\ Number \in Numbers
  BY <1>2 DEF Number
<1>4. Current = source[i + 1]
  BY <1>1, <1>3 DEF Current, ArrayInv, UnreadStays
<1>5. Fit(source[i + 1], params + (i + 1) - 1)
      /\ origin[params + (i + 1) - 1] =
           IF source[i + 1].op = "GET_SYMBOL" THEN origin[source[i + 1].parameters[1]]
           ELSE params + (i + 1) - 1
  BY <1>1, <1>3 DEF SourceInv
<1>6. Fit(Current, Number)
  BY <1>3, <1>4, <1>5
<1> QED
  BY <1>1, <1>2, <1>3, <1>4, <1>5, <1>6 DEF Fit

LEMMA DropCopyHolds ==
  ASSUME IInv, DropCopy
  PROVE  IInv'
<1> DEFINE old == Current.parameters[1]
<1>1. /\ phase = "optimize" /\ i < Len(source) /\ Current.op = "GET_SYMBOL"
      /\ map' = [map EXCEPT ![Number] = map[old]]
      /\ i' = i + 1
      /\ phase' = phase /\ params' = params /\ source' = source /\ end' = end
      /\ instructions' = instructions /\ offset' = offset /\ tail' = tail
      /\ origin' = origin /\ kept' = kept
  BY DEF DropCopy
<1>2. /\ SourceInv /\ GoodTail(end) /\ PassInv /\ MapInv /\ KeptInv /\ CodeInv /\ ArrayInv /\ tail = end
      /\ params \in Nat /\ Len(source) \in Nat /\ i \in Nat /\ offset \in Nat /\ offset <= i
      /\ Numbers = 0 .. params + Len(source) - 1
      /\ Number \in Numbers /\ Number = params + i
      /\ Current = source[i + 1] /\ Fit(Current, Number)
      /\ origin[Number] = origin[old]
  BY <1>1, AtCurrent
<1>3. old \in 0 .. Number - 1
  BY <1>1, <1>2, CopyFollows
<1> HIDE DEF old
<1>4. Numbers' = Numbers /\ Total' = Total
  BY <1>1 DEF Numbers, Total
<1>5. SourceInv' /\ GoodTail(end)'
  BY <1>1, <1>2, <1>4 DEF SourceInv, GoodTail
<1>6. ASSUME NEW m, NEW n
      PROVE  StandsFor(m, n)' <=> StandsFor(m, n)
  BY ONLY <1>1 DEF StandsFor, IsNew, Meaning
<1>7. PassInv'
  <2>1. map \in [Numbers -> Int] /\ old \in Numbers
    BY <1>2, <1>3 DEF PassInv
  <2>2. map' \in [Numbers -> Int]
    BY ONLY <1>1, <2>1
  <2>3. i' \in 0 .. Len(source) /\ offset \in 0 .. i' /\ kept \in Seq(Int) /\ Len(kept) = offset
    BY <1>1, <1>2 DEF PassInv
  <2> QED
    BY ONLY <1>1, <1>4, <2>2, <2>3 DEF PassInv
<1>8. MapInv'
  <2>1. SUFFICES ASSUME NEW n \in 0 .. params + i
                 PROVE  StandsFor(map'[n], n)
    BY <1>1, <1>2, <1>6 DEF MapInv
  <2>2. n \in Numbers
    BY <1>2
  <2>3. CASE n = Number
    <3>1. StandsFor(map[old], old)
      BY <1>2, <1>3 DEF MapInv
    <3>2. map'[n] = map[old]
      BY <1>1, <1>2, <2>3 DEF PassInv
    <3> QED
      BY <1>2, <2>3, <3>1, <3>2 DEF StandsFor
  <2>4. CASE n # Number
    <3>1. n \in 0 .. params + i - 1
      BY <1>2, <2>4
    <3>2. map'[n] = map[n]
      BY <1>1, <1>2, <2>2, <2>4 DEF PassInv
    <3> QED
      BY <1>2, <3>1, <3>2 DEF MapInv
  <2> QED
    BY <2>3, <2>4
<1>9. KeptInv'
  <2>1. ASSUME NEW n \in params .. params + i, source[n - params + 1].op # "GET_SYMBOL"
        PROVE  \E k \in 1 .. offset : kept[k] = n
    <3>1. Number - params + 1 = i + 1
      BY <1>2
    <3>2. n # Number
      BY <1>1, <1>2, <2>1, <3>1
    <3>3. n \in params .. params + i - 1
      BY <1>2, <3>2
    <3> QED
      BY <1>2, <2>1, <3>3 DEF KeptInv
  <2>2. params' + i' - 1 = params + i
    BY <1>1, <1>2
  <2>3. ASSUME NEW k \in 1 .. offset
        PROVE  kept[k] \in params .. params + i
    BY <1>2 DEF KeptInv
  <2> QED
    BY <1>1, <1>2, <2>1, <2>2, <2>3 DEF KeptInv
<1>10. CodeInv'
  <2>1. ASSUME NEW k, SameInstruction(k)
        PROVE  SameInstruction(k)'
    BY <1>1, <1>6, <2>1 DEF SameInstruction
  <2> QED
    BY <1>1, <1>2, <2>1 DEF CodeInv
<1>11. ArrayInv'
  BY <1>1, <1>2 DEF ArrayInv, UnreadStays
<1> QED
  BY <1>1, <1>2, <1>5, <1>7, <1>8, <1>9, <1>10, <1>11 DEF IInv

(* An instruction that is kept, renumbered, does what it did.                 *)
LEMMA RenamedIsTyped ==
  ASSUME IInv, phase = "optimize", i < Len(source), Current.op # "GET_SYMBOL"
  PROVE  /\ Rename(Current) \in Instructions
         /\ Rename(Current).op = Current.op
         /\ DOMAIN Rename(Current).parameters = DOMAIN Current.parameters
         /\ \A s \in DOMAIN Current.parameters :
              Rename(Current).parameters[s] =
                IF s \in Renumbered(Current) THEN map[Current.parameters[s]] ELSE Current.parameters[s]
<1> DEFINE list == Current.parameters
<1> DEFINE Slot(s) == IF s \in Renumbered(Current) THEN map[list[s]] ELSE list[s]
<1>1. /\ PassInv /\ params \in Nat /\ Number \in Numbers /\ Fit(Current, Number) /\ Current \in Instructions
      /\ Numbers = 0 .. params + Len(source) - 1 /\ Len(source) \in Nat /\ Number \in Nat
  BY AtCurrent
<1>2. list \in Seq(Int) /\ DOMAIN list = 1 .. Len(list) /\ Len(list) \in Nat /\ Current.op \in AllOperations
      /\ Current = [op |-> Current.op, parameters |-> list]
  BY <1>1, InstructionFacts
<1>3. Rename(Current) = [op |-> Current.op, parameters |-> [s \in DOMAIN list |-> Slot(s)]]
  <2>1. Rename(Current) = [Current EXCEPT !.parameters = [s \in DOMAIN list |-> Slot(s)]]
    BY DEF Rename
  <2> HIDE DEF Slot
  <2>2. ASSUME NEW f
        PROVE  [Current EXCEPT !.parameters = f] = [op |-> Current.op, parameters |-> f]
    BY ONLY <1>2
  <2> QED
    BY ONLY <2>1, <2>2
<1>4. ASSUME NEW s \in DOMAIN list
      PROVE  Slot(s) \in Int
  <2>1. CASE s \in Renumbered(Current)
    <3>0. \/ Current.op = "INSTANCEOF" /\ Reads(Current) = {} /\ Renumbered(Current) = {1}
          \/ Current.op # "INSTANCEOF" /\ Renumbered(Current) = Reads(Current)
      BY <1>1, RenumbersOperands
    <3>1. s \in Reads(Current) \/ (s = 1 /\ Current.op = "INSTANCEOF")
      BY <2>1, <3>0
    <3>2. list[s] \in 0 .. Number
      BY <1>1, <3>1 DEF Fit
    <3>3. list[s] \in Numbers
      BY <1>1, <3>2
    <3> QED
      BY <1>1, <2>1, <3>3 DEF PassInv
  <2>2. CASE s \notin Renumbered(Current)
    BY <1>2, <2>2
  <2> QED
    BY <2>1, <2>2
<1> HIDE DEF Slot
<1>5. [s \in DOMAIN list |-> Slot(s)] \in Seq(Int)
  BY ONLY <1>2, <1>4
<1>6. Rename(Current) \in Instructions
  BY ONLY <1>2, <1>3, <1>5 DEF Instructions
<1>7. Rename(Current).op = Current.op /\ Rename(Current).parameters = [s \in DOMAIN list |-> Slot(s)]
  BY ONLY <1>3
<1> QED
  BY <1>6, <1>7 DEF Slot

LEMMA KeepHolds ==
  ASSUME IInv, Keep
  PROVE  IInv'
<1> DEFINE new == Rename(Current)
<1>1. /\ phase = "optimize" /\ i < Len(source) /\ Current.op # "GET_SYMBOL"
      /\ instructions' = [instructions EXCEPT ![i + 1] = new, ![offset + 1] = new]
      /\ map' = [map EXCEPT ![Number] = offset + params]
      /\ kept' = Append(kept, Number)
      /\ offset' = offset + 1 /\ i' = i + 1
      /\ phase' = phase /\ params' = params /\ source' = source /\ end' = end
      /\ tail' = tail /\ origin' = origin
  BY DEF Keep
<1>2. /\ SourceInv /\ GoodTail(end) /\ PassInv /\ MapInv /\ KeptInv /\ CodeInv /\ ArrayInv /\ tail = end
      /\ params \in Nat /\ Len(source) \in Nat /\ i \in Nat /\ offset \in Nat /\ offset <= i
      /\ Numbers = 0 .. params + Len(source) - 1
      /\ Number \in Numbers /\ Number = params + i
      /\ Current = source[i + 1] /\ Fit(Current, Number)
      /\ origin[Number] = Number
  BY <1>1, AtCurrent
<1>3. /\ new \in Instructions /\ new.op = Current.op
      /\ DOMAIN new.parameters = DOMAIN Current.parameters
      /\ \A s \in DOMAIN Current.parameters :
           new.parameters[s] =
             IF s \in Renumbered(Current) THEN map[Current.parameters[s]] ELSE Current.parameters[s]
  BY <1>1, RenamedIsTyped
<1> HIDE DEF new
<1>4. Numbers' = Numbers /\ Total' = Total
  BY <1>1 DEF Numbers, Total
<1>5. SourceInv' /\ GoodTail(end)'
  BY <1>1, <1>2, <1>4 DEF SourceInv, GoodTail
<1>6. /\ kept \in Seq(Int) /\ Len(kept) = offset /\ kept' \in Seq(Int) /\ Len(kept') = offset + 1
      /\ \A k \in 1 .. offset : kept'[k] = kept[k]
      /\ kept'[offset + 1] = Number
  <2>1. kept \in Seq(Int) /\ Len(kept) = offset /\ Number \in Int
    BY <1>2 DEF PassInv
  <2> QED
    BY <1>1, <2>1, AppendFacts
(* What the new numbers before stand for does not change.                     *)
<1> DEFINE After(m, n) == /\ m \in 0 .. params' + Len(kept') - 1
                          /\ (IF m < params' THEN m ELSE kept'[m - params' + 1]) = origin'[n]
<1>7. ASSUME NEW m, NEW n, StandsFor(m, n)
      PROVE  After(m, n) /\ m \in 0 .. params + offset - 1
  <2>1. m \in 0 .. params + offset - 1 /\ Meaning(m) = origin[n]
    BY <1>6, <1>7 DEF StandsFor, IsNew
  <2>2. m \in 0 .. params' + Len(kept') - 1
    BY <1>1, <1>2, <1>6, <2>1
  <2>3. CASE m < params
    BY <1>1, <2>1, <2>2, <2>3 DEF Meaning
  <2>4. CASE ~ m < params
    <3>1. m - params + 1 \in 1 .. offset
      BY <1>2, <2>1, <2>4
    <3>2. kept'[m - params + 1] = kept[m - params + 1]
      BY <1>6, <3>1
    <3> QED
      BY <1>1, <2>1, <2>2, <2>4, <3>2 DEF Meaning
  <2> QED
    BY <2>1, <2>3, <2>4
<1> HIDE DEF After
<1>8. PassInv'
  <2>1. map \in [Numbers -> Int] /\ offset + params \in Int
    BY <1>2 DEF PassInv
  <2>2. map' \in [Numbers -> Int]
    BY ONLY <1>1, <2>1
  <2>3. i' \in 0 .. Len(source) /\ offset' \in 0 .. i'
    BY <1>1, <1>2
  <2> QED
    BY ONLY <1>1, <1>4, <1>6, <2>2, <2>3 DEF PassInv
<1>9. MapInv'
  <2>0. params' + i' - 1 = params + i
    BY <1>1, <1>2
  <2>1. SUFFICES ASSUME NEW n \in 0 .. params + i
                 PROVE  After(map'[n], n)
    BY <2>0 DEF MapInv, After, StandsFor, IsNew, Meaning
  <2>2. n \in Numbers
    BY <1>2
  <2>3. CASE n = Number
    <3>1. map'[n] = offset + params
      BY <1>1, <1>2, <2>3 DEF PassInv
    <3>2. offset + params \in 0 .. params' + Len(kept') - 1 /\ ~ offset + params < params
          /\ offset + params - params + 1 = offset + 1
      BY <1>1, <1>2, <1>6
    <3>3. kept'[offset + params - params + 1] = origin'[n]
      BY <1>1, <1>2, <1>6, <2>3, <3>2
    <3>4. params' = params /\ params \in Nat /\ offset \in Nat
      BY <1>1, <1>2
    <3> QED
      BY ONLY <3>1, <3>2, <3>3, <3>4 DEF After
  <2>4. CASE n # Number
    <3>1. n \in 0 .. params + i - 1
      BY <1>2, <2>4
    <3>2. map'[n] = map[n]
      BY <1>1, <1>2, <2>2, <2>4 DEF PassInv
    <3>3. StandsFor(map[n], n)
      BY <1>2, <3>1 DEF MapInv
    <3> QED
      BY <1>7, <3>2, <3>3
  <2> QED
    BY <2>3, <2>4
<1>10. KeptInv'
  <2>1. ASSUME NEW k \in 1 .. offset + 1
        PROVE  kept'[k] \in params .. params + i /\ source[kept'[k] - params + 1].op # "GET_SYMBOL"
    <3>1. CASE k = offset + 1
      <4>1. kept'[k] = Number /\ Number - params + 1 = i + 1
        BY <1>2, <1>6, <3>1
      <4>2. source[kept'[k] - params + 1] = Current
        BY ONLY <1>2, <4>1
      <4>3. Number \in params .. params + i
        BY <1>2
      <4> QED
        BY ONLY <1>1, <4>1, <4>2, <4>3
    <3>2. CASE k # offset + 1
      <4>1. k \in 1 .. offset /\ kept'[k] = kept[k]
        BY <1>2, <1>6, <3>2
      <4>2. kept[k] \in params .. params + i - 1 /\ source[kept[k] - params + 1].op # "GET_SYMBOL"
        BY <1>2, <4>1 DEF KeptInv
      <4> QED
        BY <1>2, <4>1, <4>2
    <3> QED
      BY <3>1, <3>2
  <2>2. ASSUME NEW k \in 1 .. offset + 1, NEW l \in 1 .. offset + 1, k < l
        PROVE  kept'[k] < kept'[l]
    <3>1. k \in 1 .. offset /\ kept'[k] = kept[k]
      BY <1>2, <1>6, <2>2
    <3>2. CASE l = offset + 1
      <4>1. kept[k] \in params .. params + i - 1
        BY <1>2, <3>1 DEF KeptInv
      <4> QED
        BY <1>2, <1>6, <3>1, <3>2, <4>1
    <3>3. CASE l # offset + 1
      <4>1. l \in 1 .. offset /\ kept'[l] = kept[l]
        BY <1>2, <1>6, <3>3
      <4> QED
        BY <1>2, <2>2, <3>1, <4>1 DEF KeptInv
    <3> QED
      BY <3>2, <3>3
  <2>3. ASSUME NEW n \in params .. params + i, source[n - params + 1].op # "GET_SYMBOL"
        PROVE  \E k \in 1 .. offset + 1 : kept'[k] = n
    <3>1. CASE n = Number
      BY <1>2, <1>6, <3>1
    <3>2. CASE n # Number
      <4>1. n \in params .. params + i - 1
        BY <1>2, <3>2
      <4>2. PICK k \in 1 .. offset : kept[k] = n
        BY <1>2, <2>3, <4>1 DEF KeptInv
      <4>3. k \in 1 .. offset + 1 /\ kept'[k] = n
        BY <1>2, <1>6, <4>2
      <4> QED
        BY <4>3
    <3> QED
      BY <3>1, <3>2
  <2>4. params' = params /\ params' + i' - 1 = params + i /\ offset' = offset + 1 /\ source' = source
    BY <1>1, <1>2
  <2> QED
    BY ONLY <2>1, <2>2, <2>3, <2>4 DEF KeptInv
<1>11. /\ Len(instructions) = Len(source) /\ instructions \in Seq(Instructions)
       /\ instructions' \in Seq(Instructions) /\ Len(instructions') = Len(source)
       /\ instructions'[offset + 1] = new
       /\ \A k \in 1 .. Len(source) : k # i + 1 /\ k # offset + 1 => instructions'[k] = instructions[k]
  <2>1. Len(instructions) = Len(source) /\ instructions \in Seq(Instructions)
    BY <1>1, <1>2 DEF ArrayInv
  <2>2. i + 1 \in 1 .. Len(source) /\ offset + 1 \in 1 .. Len(source)
    BY <1>1, <1>2
  <2> QED
    BY ONLY <1>1, <1>3, <2>1, <2>2
<1>12. ArrayInv'
  <2>1. ASSUME NEW k \in i + 2 .. Len(source)
        PROVE  instructions'[k] = source[k]
    <3>1. k \in 1 .. Len(source) /\ k \in i + 1 .. Len(source) /\ k # i + 1 /\ k # offset + 1
      BY <1>2
    <3>2. instructions[k] = source[k]
      BY <1>1, <1>2, <3>1 DEF ArrayInv, UnreadStays
    <3> QED
      BY <1>11, <3>1, <3>2
  <2> QED
    BY <1>1, <1>2, <1>11, <2>1 DEF ArrayInv, UnreadStays
<1>13. CodeInv'
  <2> DEFINE Same(ins, old, k) ==
               /\ ins.op = old.op
               /\ DOMAIN ins.parameters = DOMAIN old.parameters
               /\ \A s \in DOMAIN old.parameters :
                    IF s \in Reads(old)
                      THEN After(ins.parameters[s], old.parameters[s])
                           /\ ins.parameters[s] < params' + k - 1
                      ELSE old.op = "INSTANCEOF" \/ ins.parameters[s] = old.parameters[s]
  <2>1. ASSUME NEW k \in 1 .. offset
        PROVE  Same(instructions'[k], source'[kept'[k] - params' + 1], k)
    <3> DEFINE ins == instructions[k]
    <3> DEFINE old == source[kept[k] - params + 1]
    <3>1. k \in 1 .. Len(source) /\ k # i + 1 /\ k # offset + 1
      BY <1>1, <1>2
    <3>2. instructions'[k] = ins /\ source'[kept'[k] - params' + 1] = old
      BY <1>1, <1>6, <1>11, <3>1
    <3>3. SameInstruction(k)
      BY <1>2 DEF CodeInv
    <3>4. /\ ins.op = old.op
          /\ DOMAIN ins.parameters = DOMAIN old.parameters
          /\ \A s \in DOMAIN old.parameters :
               IF s \in Reads(old)
                 THEN StandsFor(ins.parameters[s], old.parameters[s]) /\ ins.parameters[s] < params + k - 1
                 ELSE old.op = "INSTANCEOF" \/ ins.parameters[s] = old.parameters[s]
      BY <3>3 DEF SameInstruction
    <3>5. params' = params
      BY <1>1
    <3> HIDE DEF ins, old
    <3>6. Same(ins, old, k)
      BY ONLY <1>7, <3>4, <3>5
    <3> QED
      BY ONLY <3>2, <3>6
  <2>2. Same(instructions'[offset + 1], source'[kept'[offset + 1] - params' + 1], offset + 1)
    <3>1. Number - params + 1 = i + 1
      BY <1>2
    <3>2. instructions'[offset + 1] = new /\ source'[kept'[offset + 1] - params' + 1] = Current
      BY ONLY <1>1, <1>2, <1>6, <1>11, <3>1
    <3>3. ASSUME NEW s \in DOMAIN Current.parameters, s \in Reads(Current)
          PROVE  /\ After(new.parameters[s], Current.parameters[s])
                 /\ new.parameters[s] < params' + (offset + 1) - 1
      <4> DEFINE p == Current.parameters[s]
      <4>1. Number \in Nat /\ Fit(Current, Number) /\ Current.op # "GET_SYMBOL"
        BY <1>1, <1>2
      <4>2. s \in Renumbered(Current)
        BY ONLY <3>3, <4>1, RenumbersOperands
      <4>3. new.parameters[s] = map[p]
        BY <1>3, <3>3, <4>2
      <4>4. p \in 0 .. Number - 1
        BY <3>3, <4>1 DEF Fit
      <4> HIDE DEF p
      <4>5. StandsFor(map[p], p)
        BY <1>2, <4>4 DEF MapInv
      <4>6. After(map[p], p) /\ map[p] \in 0 .. params + offset - 1
        BY ONLY <1>7, <4>5
      <4>7. map[p] < params' + (offset + 1) - 1
        BY <1>1, <1>2, <4>6
      <4> QED
        BY <4>3, <4>6, <4>7 DEF p
    <3>4. ASSUME NEW s \in DOMAIN Current.parameters, s \notin Reads(Current), Current.op # "INSTANCEOF"
          PROVE  new.parameters[s] = Current.parameters[s]
      <4>1. Number \in Nat /\ Fit(Current, Number) /\ Current.op # "GET_SYMBOL"
        BY <1>1, <1>2
      <4>2. s \notin Renumbered(Current)
        BY ONLY <3>4, <4>1, RenumbersOperands
      <4> QED
        BY <1>3, <3>4, <4>2
    <3>5. Same(new, Current, offset + 1)
      BY ONLY <1>3, <3>3, <3>4
    <3> QED
      BY ONLY <3>2, <3>5
  <2> HIDE DEF Same
  <2>3. ASSUME NEW k \in 1 .. offset + 1
        PROVE  Same(instructions'[k], source'[kept'[k] - params' + 1], k)
    <3>1. k \in 1 .. offset \/ k = offset + 1
      BY <1>2
    <3> QED
      BY ONLY <2>1, <2>2, <3>1
  <2>4. ASSUME NEW k \in 1 .. offset'
        PROVE  Same(instructions'[k], source'[kept'[k] - params' + 1], k)
    BY ONLY <1>1, <2>3, <2>4
  <2> QED
    BY <2>4 DEF CodeInv, SameInstruction, Same, After, StandsFor, IsNew, Meaning
<1> QED
  BY <1>1, <1>2, <1>5, <1>8, <1>9, <1>10, <1>12, <1>13 DEF IInv

LEMMA FinishHolds ==
  ASSUME IInv, Finish
  PROVE  IInv'
<1>1. /\ phase = "optimize" /\ phase' = "done" /\ i = Len(source)
      /\ instructions' = SubSeq(instructions, 1, offset)
      /\ tail' = IF tail.type = "FINAL" THEN tail ELSE RenameTail(tail)
      /\ params' = params /\ source' = source /\ end' = end /\ i' = i /\ offset' = offset
      /\ map' = map /\ origin' = origin /\ kept' = kept
  BY DEF Finish
<1>2. /\ SourceInv /\ GoodTail(end) /\ PassInv /\ MapInv /\ KeptInv /\ CodeInv /\ ArrayInv /\ tail = end
  BY <1>1 DEF IInv
<1>3. /\ params \in Nat /\ Len(source) \in Nat /\ offset \in 0 .. Len(source)
      /\ Numbers = 0 .. params + Len(source) - 1
      /\ Len(instructions) = Len(source) /\ instructions \in Seq(Instructions)
  BY <1>1, <1>2, Counts DEF SourceInv, PassInv, ArrayInv
<1>4. Numbers' = Numbers
  BY <1>1 DEF Numbers, Total
<1>5. SourceInv' /\ GoodTail(end)' /\ PassInv' /\ KeptInv'
  BY <1>1, <1>2, <1>4 DEF SourceInv, GoodTail, PassInv, KeptInv
<1>6. /\ instructions' \in Seq(Instructions) /\ Len(instructions') = offset
      /\ \A k \in 1 .. offset : instructions'[k] = instructions[k]
  BY ONLY <1>1, <1>3
<1>7. MapInv'
  BY ONLY <1>1, <1>2 DEF MapInv, StandsFor, IsNew, Meaning
<1>8. CodeInv'
  <2>1. ASSUME NEW k \in 1 .. offset
        PROVE  SameInstruction(k)'
    <3>1. SameInstruction(k)
      BY <1>2 DEF CodeInv
    <3>2. instructions'[k] = instructions[k]
      BY <1>6
    <3> QED
      BY ONLY <1>1, <3>1, <3>2 DEF SameInstruction, StandsFor, IsNew, Meaning
  <2> QED
    BY <1>1, <2>1 DEF CodeInv
<1>9. ArrayInv'
  BY <1>1, <1>6 DEF ArrayInv
<1>10. \A n \in Numbers : StandsFor(map[n], n)
  BY <1>1, <1>2, <1>3 DEF MapInv
<1>11. SameTail'
  <2> DEFINE After(m, n) == /\ m \in 0 .. params' + Len(kept') - 1
                            /\ (IF m < params' THEN m ELSE kept'[m - params' + 1]) = origin'[n]
  <2>1. \A n \in Numbers : After(map[n], n)
    BY ONLY <1>1, <1>10 DEF StandsFor, IsNew, Meaning
  <2> HIDE DEF After
  <2>2. /\ end.type # "FINAL" => end.first_block \in Numbers
        /\ end.type = "BRANCH" => end.second_block \in Numbers /\ end.condition \in Numbers
        /\ end.type = "FINAL" => end.parameters = <<>>
        /\ \A k \in DOMAIN end.parameters : end.parameters[k] \in Numbers
        /\ end' = end
    BY <1>1, <1>2 DEF GoodTail
  <2>3. /\ tail'.type = end.type
        /\ end.type # "FINAL" => After(tail'.first_block, end.first_block)
        /\ end.type = "BRANCH" => After(tail'.second_block, end.second_block)
        /\ end.type = "BRANCH" => After(tail'.condition, end.condition)
        /\ DOMAIN tail'.parameters = DOMAIN end.parameters
        /\ \A k \in DOMAIN end.parameters : After(tail'.parameters[k], end.parameters[k])
    <3>1. CASE end.type = "FINAL"
      BY <1>1, <1>2, <2>2, <3>1
    <3>2. CASE end.type # "FINAL"
      <4>1. tail' = RenameTail(end)
        BY <1>1, <1>2, <3>2
      <4> QED
        BY <2>1, <2>2, <3>2, <4>1 DEF RenameTail, Terminal
    <3> QED
      BY <3>1, <3>2
  <2> QED
    BY ONLY <2>2, <2>3 DEF SameTail, After, StandsFor, IsNew, Meaning
<1> QED
  BY <1>1, <1>5, <1>7, <1>8, <1>9, <1>11 DEF IInv

-----------------------------------------------------------------------------
(* The theorems.                                                             *)

LEMMA StutterHolds ==
  ASSUME IInv, UNCHANGED vars
  PROVE  IInv'
<1>1. /\ phase' = phase /\ params' = params /\ source' = source /\ end' = end
      /\ instructions' = instructions /\ i' = i /\ offset' = offset /\ map' = map
      /\ tail' = tail /\ origin' = origin /\ kept' = kept
  BY DEF vars
<1>2. SourceInv' = SourceInv /\ GoodTail(end)' = GoodTail(end) /\ PassInv' = PassInv
  BY ONLY <1>1 DEF SourceInv, GoodTail, PassInv, Numbers, Total
<1>3. KeptInv' = KeptInv /\ ArrayInv' = ArrayInv
  BY ONLY <1>1 DEF KeptInv, ArrayInv, UnreadStays
<1>4. CodeInv' = CodeInv /\ SameTail' = SameTail /\ MapInv' = MapInv
  BY ONLY <1>1 DEF CodeInv, SameTail, MapInv, SameInstruction, StandsFor, IsNew, Meaning
<1> QED
  BY ONLY IInv, <1>1, <1>2, <1>3, <1>4 DEF IInv

(* In every reachable state of Copies, whatever the size of the block, the     *)
(* part that optimize_copies has gone over means what it meant.                *)
THEOREM InnerInvariant == Spec => []IInv
<1>1. Init => IInv
  BY InitHolds
<1>2. IInv /\ [Next]_vars => IInv'
  BY GenerateHolds, StartHolds, DropCopyHolds, KeepHolds, FinishHolds, StutterHolds DEF Next
<1> QED
  BY <1>1, <1>2, PTL DEF Spec

(* optimize_copies keeps the meaning of each instruction and of the tail, for   *)
(* blocks of every length with every number of parameters and arguments.       *)
THEOREM MeaningKept == Spec => []SameMeaning
<1>1. IInv => SameMeaning
  <2> SUFFICES ASSUME IInv, phase = "done"
               PROVE  Len(instructions) = Len(kept) /\ (\A k \in DOMAIN kept : SameInstruction(k)) /\ SameTail
    BY DEF SameMeaning
  <2>1. PassInv /\ CodeInv /\ ArrayInv /\ SameTail
    BY DEF IInv
  <2>2. DOMAIN kept = 1 .. offset /\ Len(kept) = offset
    BY <2>1 DEF PassInv
  <2> QED
    BY <2>1, <2>2 DEF CodeInv, ArrayInv
<1> QED
  BY <1>1, InnerInvariant, PTL

(* optimize_copies loses no instruction but the copies, and keeps the order.    *)
THEOREM EffectsStay == Spec => []EffectsKept
<1>1. IInv => EffectsKept
  <2> SUFFICES ASSUME IInv, phase = "done"
               PROVE  /\ \A k, l \in DOMAIN kept : k < l => kept[k] < kept[l]
                      /\ \A n \in Numbers :
                           n >= params /\ source[n - params + 1].op # "GET_SYMBOL" =>
                             \E k \in DOMAIN instructions : k \in DOMAIN kept /\ kept[k] = n
    BY DEF EffectsKept
  <2>1. PassInv /\ KeptInv /\ ArrayInv /\ SourceInv
    BY DEF IInv
  <2>2. DOMAIN kept = 1 .. offset /\ DOMAIN instructions = 1 .. offset /\ i = Len(source)
    BY <2>1 DEF PassInv, ArrayInv
  <2>3. Numbers = 0 .. params + i - 1 /\ params \in Nat /\ i \in Nat
    BY <2>1, <2>2, Counts DEF SourceInv, PassInv
  <2>4. ASSUME NEW n \in Numbers, n >= params, source[n - params + 1].op # "GET_SYMBOL"
        PROVE  \E k \in 1 .. offset : kept[k] = n
    <3>1. n \in params .. params + i - 1
      BY <2>3, <2>4
    <3> QED
      BY <2>1, <2>4, <3>1 DEF KeptInv
  <2> QED
    BY <2>1, <2>2, <2>4 DEF KeptInv
<1> QED
  BY <1>1, InnerInvariant, PTL

(* Moving instructions down never reaches one that was not yet looked at.       *)
THEOREM UnreadUntouched == Spec => []UnreadStays
<1>1. IInv => UnreadStays
  BY DEF IInv, ArrayInv, UnreadStays
<1> QED
  BY <1>1, InnerInvariant, PTL
=============================================================================
