------------------------------- MODULE Copies -------------------------------
(***************************************************************************)
(* The removal of copies from one block (optimize.c).  The block is built   *)
(* instruction by instruction as new_instruction does, and given its tail;  *)
(* then optimize_copies goes over it once, drops each O_GET_SYMBOL, moves    *)
(* the instructions after it down in the same array and renumbers what they  *)
(* read.                                                                    *)
(*                                                                         *)
(* The parameters of the block have the numbers from 0 on, the instructions  *)
(* those that follow.  An instruction keeps its operation and the array of   *)
(* its parameters, some of which are numbers of instructions.                *)
(*                                                                         *)
(* origin and kept are history: for each number the instruction or parameter *)
(* whose value it has once copies are followed, and the old numbers of the   *)
(* instructions that were kept.                                              *)
(***************************************************************************)
EXTENDS Integers, Sequences

CONSTANTS
  Operations,    \* the operations of the instructions
  Plain,         \* the numbers that are not of instructions: of fields, of structs
  MaxNumbers,    \* bound on parameters and instructions of a block
  MaxArguments   \* bound on the arguments of a native call and of a tail

OnOne == {"BITWISE_NOT", "CAST", "GET_LENGTH", "NEGATE", "NEW_ARRAY", "NOT"}
OnTwo == {"COMPARE", "IDENTITY", "LOGIC", "NUMERIC", "SHIFT", "STR_CONCAT", "GET_INDEX", "SET_LENGTH"}
OnNone == {"BLOCKREF", "LITERAL", "NEW"}
AllOperations ==
  OnOne \cup OnTwo \cup OnNone
    \cup {"GET_FIELD", "GET_SYMBOL", "INSTANCEOF", "NATIVE", "SET_FIELD", "SET_INDEX"}

ASSUME OperationsAssumption == Operations \subseteq AllOperations
ASSUME PlainAssumption == Plain \subseteq Nat
ASSUME BoundsAssumption == MaxNumbers \in Nat /\ MaxArguments \in Nat

VARIABLES
  phase,          \* "generate", "optimize" or "done"
  params,         \* parameter_count
  source,         \* the instructions that were generated
  end,            \* the tail that was generated, "FINAL" for none
  instructions,   \* the array the pass works on
  i, offset,      \* the next instruction to look at, and the place for the next to keep
  map,            \* the new number of each number
  tail,           \* the tail after the pass
  origin, kept

vars == <<phase, params, source, end, instructions, i, offset, map, tail, origin, kept>>

Total == params + Len(source)
Numbers == 0 .. Total - 1
Unset == -1    \* what an entry of the map holds before it is written

(* The slots of the parameters that are numbers of instructions, as           *)
(* generation fills them and the backends read them.  An instanceof is given   *)
(* its own number (generate.c:676), which is no operand.                      *)
Reads(ins) ==
  CASE ins.op \in OnOne \cup {"GET_FIELD", "GET_SYMBOL"} -> {1}
    [] ins.op \in OnTwo -> {1, 2}
    [] ins.op = "SET_FIELD" -> {1, 3}
    [] ins.op = "SET_INDEX" -> {1, 2, 3}
    [] ins.op = "NATIVE" -> 2 .. Len(ins.parameters)
    [] OTHER -> {}

(* The slots that the pass renumbers; the first one of a native call counts    *)
(* the others.                                                               *)
Renumbered(ins) ==
  CASE ins.op \in OnOne \cup {"GET_FIELD", "INSTANCEOF"} -> {1}
    [] ins.op \in OnTwo -> {1, 2}
    [] ins.op = "SET_FIELD" -> {1, 3}
    [] ins.op = "SET_INDEX" -> {1, 2, 3}
    [] ins.op = "NATIVE" -> 2 .. ins.parameters[1] + 1
    [] OTHER -> {}

-----------------------------------------------------------------------------
(* Generation.                                                              *)

Instruction(op, parameters) == [op |-> op, parameters |-> parameters]

Terminal(type, first, second, condition, parameters) ==
  [type |-> type, first_block |-> first, second_block |-> second, condition |-> condition,
   parameters |-> parameters]
NoTail == Terminal("FINAL", Unset, Unset, Unset, <<>>)

(* What generation can put in the parameters of an operation: operands that    *)
(* come before it.                                                           *)
Parameters(op) ==
  CASE op \in OnOne \cup {"GET_SYMBOL"} -> {<<n>> : n \in Numbers}
    [] op \in OnTwo -> Numbers \X Numbers
    [] op = "GET_FIELD" -> Numbers \X Plain
    [] op = "SET_FIELD" -> Numbers \X Plain \X Numbers
    [] op = "SET_INDEX" -> Numbers \X Numbers \X Numbers
    [] op = "INSTANCEOF" -> {Total} \X Plain
    [] op = "NATIVE" -> {<<Len(list)>> \o list : list \in UNION {[1..n -> Numbers] : n \in 0..MaxArguments}}
    [] OTHER -> {<<>>}

Init ==
  /\ phase = "generate"
  /\ params \in 0 .. MaxNumbers
  /\ source = <<>>
  /\ end = NoTail /\ tail = NoTail
  /\ origin = [n \in 0 .. params - 1 |-> n]
  /\ instructions = <<>> /\ i = 0 /\ offset = 0 /\ map = <<>> /\ kept = <<>>

Generate(op, parameters) ==
  /\ phase = "generate"
  /\ Total < MaxNumbers
  /\ source' = Append(source, Instruction(op, parameters))
  /\ origin' = [n \in 0 .. Total |->
                  IF n < Total THEN origin[n] ELSE IF op = "GET_SYMBOL" THEN origin[parameters[1]] ELSE n]
  /\ UNCHANGED <<phase, params, end, instructions, i, offset, map, tail, kept>>

(* The final block is the one after the program's own, which comes last in     *)
(* the core's: it has no instructions.  A branch (branch_block) is on the      *)
(* number before the references to its two blocks, which come last, and both   *)
(* blocks take its arguments.  The others name one number: a reference, a     *)
(* callee, or the return struct's block.                                    *)
Tails ==
  LET lists == UNION {[1..k -> Numbers] : k \in 0..MaxArguments}
  IN (IF source = <<>> THEN {NoTail} ELSE {})
       \cup {Terminal("GOTO", n, Unset, Unset, list) : n \in Numbers, list \in lists}
       \cup {Terminal("BRANCH", Total - 2, Total - 1, n, list) :
               n \in {m \in Numbers : m = Total - 3 /\ Len(source) >= 2}, list \in lists}

(* The end of generation, and the start of the pass.                          *)
Start(terminal) ==
  /\ phase = "generate"
  /\ phase' = "optimize"
  /\ end' = terminal
  /\ tail' = terminal
  /\ instructions' = source
  /\ map' = [n \in Numbers |-> IF n < params THEN n ELSE Unset]
  /\ UNCHANGED <<params, source, i, offset, origin, kept>>

-----------------------------------------------------------------------------
(* optimize_copies.                                                         *)

Current == instructions[i + 1]
Number == i + params

Rename(ins) ==
  [ins EXCEPT !.parameters =
     [s \in DOMAIN @ |-> IF s \in Renumbered(ins) THEN map[@[s]] ELSE @[s]]]

DropCopyUnresolved ==
  /\ phase = "optimize" /\ i < Len(source)
  /\ Current.op = "GET_SYMBOL"
  /\ map' = [map EXCEPT ![Number] = Current.parameters[1]]
  /\ i' = i + 1
  /\ UNCHANGED <<phase, params, source, end, instructions, offset, tail, origin, kept>>

DropCopyMoving ==
  /\ phase = "optimize" /\ i < Len(source)
  /\ Current.op = "GET_SYMBOL"
  /\ map' = [map EXCEPT ![Number] = map[Current.parameters[1]]]
  /\ i' = i + 1
  /\ instructions' = [k \in DOMAIN source |->
                       IF k > i /\ k < Len(source) THEN instructions[k + 1] ELSE instructions[k]]
  /\ UNCHANGED <<phase, params, source, end, offset, tail, origin, kept>>

DropCopy ==
  /\ phase = "optimize" /\ i < Len(source)
  /\ Current.op = "GET_SYMBOL"
  /\ map' = [map EXCEPT ![Number] = map[Current.parameters[1]]]
  /\ i' = i + 1
  /\ UNCHANGED <<phase, params, source, end, instructions, offset, tail, origin, kept>>

(* Renumbered where it stands, then copied down.                              *)
Keep ==
  /\ phase = "optimize" /\ i < Len(source)
  /\ Current.op # "GET_SYMBOL"
  /\ instructions' = [instructions EXCEPT ![i + 1] = Rename(Current), ![offset + 1] = Rename(Current)]
  /\ map' = [map EXCEPT ![Number] = offset + params]
  /\ kept' = Append(kept, Number)
  /\ offset' = offset + 1
  /\ i' = i + 1
  /\ UNCHANGED <<phase, params, source, end, tail, origin>>

RenameTail(terminal) ==
  LET branch == terminal.type = "BRANCH"
      list == terminal.parameters
  IN Terminal(terminal.type, map[terminal.first_block],
              IF branch THEN map[terminal.second_block] ELSE terminal.second_block,
              IF branch THEN map[terminal.condition] ELSE terminal.condition,
              [k \in DOMAIN list |-> map[list[k]]])

FinishAtLast ==
  /\ phase = "optimize" /\ i = Len(source)
  /\ phase' = "done"
  /\ instructions' = SubSeq(instructions, 1, offset - 1)
  /\ tail' = IF tail.type = "FINAL" THEN tail ELSE RenameTail(tail)
  /\ UNCHANGED <<params, source, end, i, offset, map, origin, kept>>

Finish ==
  /\ phase = "optimize" /\ i = Len(source)
  /\ phase' = "done"
  /\ instructions' = SubSeq(instructions, 1, offset)
  /\ tail' = IF tail.type = "FINAL" THEN tail ELSE RenameTail(tail)
  /\ UNCHANGED <<params, source, end, i, offset, map, origin, kept>>

Next ==
  \/ \E op \in Operations : \E parameters \in Parameters(op) : Generate(op, parameters)
  \/ \E terminal \in Tails : Start(terminal)
  \/ DropCopy
  \/ Keep
  \/ Finish

Spec == Init /\ [][Next]_vars

-----------------------------------------------------------------------------
(* Properties.                                                              *)

(* The old number of what has a new number.                                  *)
Meaning(n) == IF n < params THEN n ELSE kept[n - params + 1]
IsNew(n) == n \in 0 .. params + Len(kept) - 1

(* A new number stands for the value that an old one had.                     *)
StandsFor(new, old) == IsNew(new) /\ Meaning(new) = origin[old]

(* An instruction that was kept does what it did: the same operation, the      *)
(* same fields and counts, on operands of the same values that come before it. *)
SameInstruction(k) ==
  LET new == instructions[k]
      old == source[kept[k] - params + 1]
  IN /\ new.op = old.op
     /\ DOMAIN new.parameters = DOMAIN old.parameters
     /\ \A s \in DOMAIN old.parameters :
          IF s \in Reads(old)
            THEN /\ StandsFor(new.parameters[s], old.parameters[s])
                 /\ new.parameters[s] < params + k - 1
            ELSE old.op = "INSTANCEOF" \/ new.parameters[s] = old.parameters[s]

SameTail ==
  /\ tail.type = end.type
  /\ end.type # "FINAL" => StandsFor(tail.first_block, end.first_block)
  /\ end.type = "BRANCH" => StandsFor(tail.second_block, end.second_block)
  /\ end.type = "BRANCH" => StandsFor(tail.condition, end.condition)
  /\ DOMAIN tail.parameters = DOMAIN end.parameters
  /\ \A k \in DOMAIN end.parameters : StandsFor(tail.parameters[k], end.parameters[k])

(* After the pass every instruction that is left computes what it did, and the *)
(* block decides on, jumps to and passes on the same values.                  *)
SameMeaning ==
  phase = "done" =>
    /\ Len(instructions) = Len(kept)
    /\ \A k \in DOMAIN kept : SameInstruction(k)
    /\ SameTail

(* Every instruction but the copies is still there, once, and in order: no     *)
(* store, call or allocation is lost, done twice or moved before another.     *)
EffectsKept ==
  phase = "done" =>
    /\ \A k, l \in DOMAIN kept : k < l => kept[k] < kept[l]
    /\ \A n \in Numbers :
         n >= params /\ source[n - params + 1].op # "GET_SYMBOL" =>
           \E k \in DOMAIN instructions : k \in DOMAIN kept /\ kept[k] = n

(* Moving instructions down in the array never reaches one that the pass has    *)
(* not looked at.                                                            *)
UnreadStays ==
  phase = "optimize" => \A k \in i + 1 .. Len(source) : instructions[k] = source[k]
=============================================================================
