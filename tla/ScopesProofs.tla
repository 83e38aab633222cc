---------------------------- MODULE ScopesProofs ----------------------------
(***************************************************************************)
(* The tree that the parser of Scopes writes: what its nodes hold, whom they *)
(* believe to be their parents, and in which order they are numbered.       *)
(* TreeInv holds in every reachable state, for programs of every size.  The  *)
(* lemmas about Above, the path from a node to the outermost block, are what *)
(* the walks of the code are read with.                                     *)
(*                                                                         *)
(* Then the analysis: which calls of analyze there are, what they still     *)
(* have to come to, and the parents they walk along (ControlInv).           *)
(***************************************************************************)
EXTENDS Scopes, TLAPS, WellFoundedInduction

-----------------------------------------------------------------------------
(* Induction on the natural numbers, in the form the provers can use: the    *)
(* least element of a set.  What a recursive function returns is proved by    *)
(* taking the least of the arguments that it would be false of.              *)

LEMMA LeastElement ==
  ASSUME NEW S \in SUBSET Nat, S # {}
  PROVE  \E n \in S : \A m \in S : n <= m
<1> DEFINE R == {ss \in Nat \X Nat : ss[1] < ss[2]}
<1>1. IsWellFoundedOn(R, Nat)
  BY NatLessThanWellFounded DEF OpToRel
<1>2. PICK n \in S : \A m \in S : <<m, n>> \notin R
  BY <1>1, WFMin
<1>3. ASSUME NEW m \in S
      PROVE  n <= m
  <2>1. m \in Nat /\ n \in Nat /\ <<m, n>> \in Nat \X Nat
    OBVIOUS
  <2>2. ~(m < n)
    BY <1>2, <2>1
  <2> QED
    BY <2>1, <2>2
<1> QED
  BY <1>3

(* What is false of some number is false of a least one.                      *)
LEMMA NoLeastNoElement ==
  ASSUME NEW S \in SUBSET Nat,
         ASSUME NEW n \in S
         PROVE  \E m \in S : m < n
  PROVE  S = {}
<1>1. SUFFICES ASSUME S # {}
               PROVE  FALSE
  OBVIOUS
<1>2. PICK n \in S : \A m \in S : n <= m
  BY <1>1, LeastElement
<1>3. PICK m \in S : m < n
  OBVIOUS
<1> QED
  BY <1>2, <1>3

(* A walk from n along p that stops somewhere, in stop, and makes something of     *)
(* each of its nodes on the way back: the recursive function exists.           *)
IsWalk(N, V, stop, v, p, G) ==
  /\ N \in Nat
  /\ \A n \in 0 .. N : n \in stop => v[n] \in V
  /\ \A n \in 0 .. N : n \notin stop => p[n] \in 0 .. n - 1
  /\ \A n \in 0 .. N : n \notin stop => \A x \in V : G[n][x] \in V
Walks(f, N, V, stop, v, p, G) ==
  /\ f \in [0 .. N -> V]
  /\ \A n \in 0 .. N : f[n] = IF n \in stop THEN v[n] ELSE G[n][f[p[n]]]

LEMMA WalkExists ==
  ASSUME NEW N, NEW V, NEW stop, NEW v, NEW p, NEW G, IsWalk(N, V, stop, v, p, G)
  PROVE  \E f : Walks(f, N, V, stop, v, p, G)
<1> USE DEF IsWalk
<1> DEFINE Right(f, n) == f[n] = IF n \in stop THEN v[n] ELSE G[n][f[p[n]]]
           Until(k) == \E f \in [0 .. N -> V] : \A n \in 0 .. N : n < k => Right(f, n)
           S == {k \in 0 .. N + 1 : ~Until(k)}
<1>1. Until(0)
  <2>1. 0 \in stop
    OBVIOUS
  <2>2. v[0] \in V
    BY <2>1
  <2>3. [n \in 0 .. N |-> v[0]] \in [0 .. N -> V]
    BY <2>2
  <2>4. \A n \in 0 .. N : ~(n < 0)
    OBVIOUS
  <2> QED
    BY <2>3, <2>4
<1>2. ASSUME NEW k \in 0 .. N, Until(k)
      PROVE  Until(k + 1)
  <2>1. PICK f \in [0 .. N -> V] : \A n \in 0 .. N : n < k => Right(f, n)
    BY <1>2
  <2> DEFINE x == IF k \in stop THEN v[k] ELSE G[k][f[p[k]]]
             g == [f EXCEPT ![k] = x]
  <2>2. x \in V
    <3>1. CASE k \in stop
      BY <3>1
    <3>2. CASE k \notin stop
      <4>1. p[k] \in 0 .. N
        BY <3>2
      <4>2. f[p[k]] \in V
        BY <4>1
      <4> QED
        BY <3>2, <4>2
    <3> QED
      BY <3>1, <3>2
  <2>3. g \in [0 .. N -> V] /\ g[k] = x /\ \A n \in 0 .. N : n # k => g[n] = f[n]
    BY <2>2
  <2> HIDE DEF g
  <2>4. ASSUME NEW n \in 0 .. N, n < k + 1
        PROVE  Right(g, n)
    <3>1. n \notin stop => p[n] \in 0 .. N /\ p[n] # k /\ g[p[n]] = f[p[n]]
      BY <2>3, <2>4
    <3>2. CASE n = k
      BY <2>3, <3>1, <3>2
    <3>3. CASE n # k
      <4>1. n < k /\ g[n] = f[n]
        BY <2>3, <2>4, <3>3
      <4>2. Right(f, n)
        BY <2>1, <4>1
      <4> QED
        BY <3>1, <4>1, <4>2
    <3> QED
      BY <3>2, <3>3
  <2> QED
    BY <2>3, <2>4
<1> HIDE DEF Until
<1>3. ASSUME NEW k \in S
      PROVE  \E j \in S : j < k
  <2>1. k \in 0 .. N + 1 /\ k # 0 /\ ~Until(k)
    BY <1>1
  <2>2. k - 1 \in 0 .. N /\ (k - 1) + 1 = k /\ k - 1 < k
    BY <2>1
  <2>3. ~Until(k - 1)
    <3>1. Until(k - 1) => Until((k - 1) + 1)
      BY <1>2, <2>2
    <3> QED
      BY <2>1, <2>2, <3>1
  <2>4. k - 1 \in S
    BY <2>2, <2>3
  <2> HIDE DEF S
  <2> QED
    BY ONLY <2>2, <2>4
<1>4. S = {}
  <2> HIDE DEF S
  <2>1. S \in SUBSET Nat
    BY DEF S
  <2> QED
    BY ONLY <1>3, <2>1, NoLeastNoElement
<1>5. N + 1 \in 0 .. N + 1
  OBVIOUS
<1>6. Until(N + 1)
  BY <1>4, <1>5
<1>7. PICK f \in [0 .. N -> V] : \A n \in 0 .. N : n < N + 1 => Right(f, n)
  BY <1>6 DEF Until
<1>8. \A n \in 0 .. N : n < N + 1
  OBVIOUS
<1>9. \A n \in 0 .. N : Right(f, n)
  BY <1>7, <1>8
<1> QED
  BY <1>9 DEF Walks

-----------------------------------------------------------------------------
(* The tree.                                                                 *)

FunctionKinds == {"function", "literal"}
VariableKinds == {"let", "define"}
NodeKinds ==
  {"block", "expression", "class", "control", "return", "return nothing", "if"}
    \cup FunctionKinds \cup VariableKinds \cup LoopKinds
Looks == [name : Names \cup {None}, mode : Modes \cup {"none"}]
NodeRecords ==
  [kind : NodeKinds, parent : Nat, body : Seq(Nat), name : Names \cup {None},
   argument : Names \cup {None}, type : Names \cup {None}, value : Looks,
   label : Labels \cup {None}, function : Nat]

(* Every node but the first is held by one before it, in one place.          *)
Tree(ns) ==
  /\ ns \in Seq(NodeRecords) /\ Len(ns) >= 1
  /\ \A m \in DOMAIN ns : \A i \in DOMAIN ns[m].body : ns[m].body[i] \in m + 1 .. Len(ns)
  /\ \A m, q \in DOMAIN ns : \A i \in DOMAIN ns[m].body, j \in DOMAIN ns[q].body :
       ns[m].body[i] = ns[q].body[j] => m = q /\ i = j
  /\ \A n \in 2 .. Len(ns) : \E m \in DOMAIN ns : \E i \in DOMAIN ns[m].body : ns[m].body[i] = n

HolderIn(ns, n) == CHOOSE m \in DOMAIN ns : n \in Range(ns[m].body)
AboveIn(ns, n) ==
  LET above[m \in DOMAIN ns] == IF m = 1 THEN {} ELSE {HolderIn(ns, m)} \cup above[HolderIn(ns, m)]
  IN above[n]
Under(ns, s, n) == n = s \/ s \in AboveIn(ns, n)

(* What a node of each kind holds and names.                                  *)
FormOf(node) ==
  /\ node.kind \notin {"block", "if"} \cup FunctionKinds \cup LoopKinds => node.body = <<>>
  /\ node.kind \in FunctionKinds => Len(node.body) = 1
  /\ node.kind \in LoopKinds => Len(node.body) <= 1
  /\ node.kind = "if" => Len(node.body) \in {1, 2}
  /\ node.kind \notin {"expression", "return", "if"} \cup VariableKinds \cup LoopKinds => node.value = NoLook
  /\ node.kind # "expression" => node.value = NoLook \/ node.value.mode = "get"
  /\ node.value = NoLook \/ node.value.mode # "none"
  /\ node.kind \notin {"define", "class", "function"} => node.type = None
  /\ node.kind \notin FunctionKinds => node.argument = None
Form(ns, n) ==
  /\ FormOf(ns[n])
  /\ ns[n].kind # "block" => \A i \in DOMAIN ns[n].body : ns[ns[n].body[i]].kind = "block"

(* The parent and the function of what m holds.                               *)
Link(ns, m, n) ==
  IF ns[m].kind \in FunctionKinds
    THEN ns[n].function = m /\ ns[n].parent \in {0, HolderIn(ns, m)}
    ELSE ns[n].function = 0 /\ ns[n].parent = m

Formed(ns) ==
  /\ ns[1].kind = "block" /\ ns[1].parent = 0 /\ ns[1].function = 0
  /\ \A n \in DOMAIN ns : Form(ns, n)
  /\ \A m \in DOMAIN ns : \A i \in DOMAIN ns[m].body : Link(ns, m, ns[m].body[i])

(* A variable comes after all that its block holds before it, and before what   *)
(* its block holds after it.                                                 *)
Sorted(ns) ==
  \A b \in DOMAIN ns : \A i, j \in DOMAIN ns[b].body : i < j =>
    /\ ns[ns[b].body[i]].kind \in VariableKinds => ns[b].body[i] < ns[b].body[j]
    /\ ns[ns[b].body[j]].kind \in VariableKinds =>
         \A n \in DOMAIN ns : Under(ns, ns[b].body[i], n) => n < ns[b].body[j]

(* What is written goes below the last statements of the blocks that are open, so  *)
(* that no variable is numbered before it and stands after it.                 *)
EndsAt(ns, m) ==
  LET body == ns[HolderIn(ns, m)].body
  IN m = body[Len(body)] \/ \A i \in DOMAIN body : ns[body[i]].kind \notin VariableKinds
AtEnd(ns, top) == \A m \in DOMAIN ns : m # 1 /\ Under(ns, m, top) => EndsAt(ns, m)

(* The blocks the parser is in hold one another.                              *)
Path(ns, op) ==
  /\ op \in Seq(DOMAIN ns) /\ op # <<>> /\ op[1] = 1
  /\ \A i \in DOMAIN op : ns[op[i]].kind = "block"
  /\ \A i \in 1 .. Len(op) - 1 : op[i] \in AboveIn(ns, op[i + 1])
  /\ AtEnd(ns, Last(op))

TreeInv ==
  /\ language \in Languages /\ Tree(nodes) /\ Formed(nodes) /\ Sorted(nodes) /\ Path(nodes, open)

-----------------------------------------------------------------------------
(* What is above what.                                                       *)

LEMMA HolderIs ==
  ASSUME NEW ns, Tree(ns), NEW m \in DOMAIN ns, NEW i \in DOMAIN ns[m].body
  PROVE  HolderIn(ns, ns[m].body[i]) = m
<1> DEFINE n == ns[m].body[i]
<1>1. n \in Range(ns[m].body)
  BY DEF Range
<1>2. ASSUME NEW q \in DOMAIN ns, n \in Range(ns[q].body)
      PROVE  q = m
  <2>1. PICK j \in DOMAIN ns[q].body : ns[q].body[j] = n
    BY <1>2 DEF Range
  <2> QED
    BY <2>1 DEF Tree
<1> HIDE DEF n
<1>3. HolderIn(ns, n) = m
  BY ONLY <1>1, <1>2, m \in DOMAIN ns DEF HolderIn
<1> QED
  BY <1>3 DEF n

LEMMA HolderHolds ==
  ASSUME NEW ns, Tree(ns), NEW n \in DOMAIN ns, n # 1
  PROVE  /\ HolderIn(ns, n) \in DOMAIN ns /\ HolderIn(ns, n) \in 1 .. n - 1
         /\ \E i \in DOMAIN ns[HolderIn(ns, n)].body : ns[HolderIn(ns, n)].body[i] = n
<1>1. ns \in Seq(NodeRecords) /\ DOMAIN ns = 1 .. Len(ns) /\ Len(ns) \in Nat
  BY DEF Tree
<1>2. n \in 2 .. Len(ns)
  BY <1>1
<1>3. PICK m \in DOMAIN ns : \E i \in DOMAIN ns[m].body : ns[m].body[i] = n
  BY <1>2 DEF Tree
<1>4. HolderIn(ns, n) = m
  BY <1>3, HolderIs
<1>5. n \in m + 1 .. Len(ns) /\ m \in 1 .. Len(ns)
  BY <1>1, <1>3 DEF Tree
<1> QED
  BY <1>3, <1>4, <1>5

LEMMA AboveIs ==
  ASSUME NEW ns, Tree(ns)
  PROVE  /\ AboveIn(ns, 1) = {}
         /\ \A n \in DOMAIN ns : n # 1 =>
              AboveIn(ns, n) = {HolderIn(ns, n)} \cup AboveIn(ns, HolderIn(ns, n))
<1> DEFINE N == Len(ns)
           V == SUBSET Nat
           stop == {0, 1}
           v == [n \in 0 .. N |-> {}]
           p == [n \in 0 .. N |-> HolderIn(ns, n)]
           G == [n \in 0 .. N |-> [x \in V |-> {HolderIn(ns, n)} \cup x]]
           Eqn(g) == g = [m \in DOMAIN ns |->
                            IF m = 1 THEN {} ELSE {HolderIn(ns, m)} \cup g[HolderIn(ns, m)]]
<1>1. N \in Nat /\ DOMAIN ns = 1 .. N /\ 1 \in DOMAIN ns
  BY DEF Tree
<1>2. \A n \in 0 .. N : n \notin stop => HolderIn(ns, n) \in 0 .. n - 1 /\ HolderIn(ns, n) \in Nat
  BY <1>1, HolderHolds
<1>3. /\ \A n \in 0 .. N : n \notin stop => p[n] \in 0 .. n - 1
      /\ \A n \in 0 .. N : p[n] = HolderIn(ns, n)
  BY <1>2
<1>4. \A n \in 0 .. N : \A x \in V : G[n][x] = {HolderIn(ns, n)} \cup x
  OBVIOUS
<1>5. \A n \in 0 .. N : n \notin stop => \A x \in V : G[n][x] \in V
  <2> HIDE DEF G, stop
  <2> QED
    BY <1>2, <1>4
<1>6. \A n \in 0 .. N : n \in stop => v[n] = {} /\ v[n] \in V
  OBVIOUS
<1> HIDE DEF V, v, p, G
<1>7. PICK f : Walks(f, N, V, stop, v, p, G)
  <2>1. IsWalk(N, V, stop, v, p, G)
    BY <1>1, <1>3, <1>5, <1>6 DEF IsWalk
  <2> HIDE DEF N, stop
  <2> QED
    BY ONLY <2>1, WalkExists
<1>8. f \in [0 .. N -> V] /\ \A n \in 0 .. N : f[n] = IF n \in stop THEN v[n] ELSE G[n][f[p[n]]]
  BY <1>7 DEF Walks
<1> DEFINE g == [m \in DOMAIN ns |-> f[m]]
<1>9. Eqn(g)
  <2>1. ASSUME NEW m \in DOMAIN ns
        PROVE  g[m] = IF m = 1 THEN {} ELSE {HolderIn(ns, m)} \cup g[HolderIn(ns, m)]
    <3>1. CASE m = 1
      BY <1>1, <1>6, <1>8, <3>1
    <3>2. CASE m # 1
      <4>1. HolderIn(ns, m) \in DOMAIN ns /\ m \in 0 .. N /\ HolderIn(ns, m) \in 0 .. N /\ m \notin stop
        BY <1>1, <3>2, HolderHolds
      <4>2. f[m] = G[m][f[HolderIn(ns, m)]]
        BY <1>3, <1>8, <4>1
      <4>3. f[HolderIn(ns, m)] \in V
        BY <1>8, <4>1
      <4>4. f[m] = {HolderIn(ns, m)} \cup f[HolderIn(ns, m)]
        BY <1>4, <4>1, <4>2, <4>3
      <4> QED
        BY <3>2, <4>1, <4>4
    <3> QED
      BY <3>1, <3>2
  <2>2. g = [m \in DOMAIN ns |-> g[m]]
    OBVIOUS
  <2> HIDE DEF g
  <2> QED
    BY <2>1, <2>2
<1> DEFINE e == CHOOSE h : Eqn(h)
<1>10. Eqn(e)
  <2> HIDE DEF Eqn, g
  <2> QED
    BY <1>9
<1>11. \A n : AboveIn(ns, n) = e[n]
  BY DEF AboveIn
<1> HIDE DEF e
<1>12. \A m \in DOMAIN ns : e[m] = IF m = 1 THEN {} ELSE {HolderIn(ns, m)} \cup e[HolderIn(ns, m)]
  BY <1>10
<1> QED
  BY <1>1, <1>11, <1>12

LEMMA AboveBefore ==
  ASSUME NEW ns, Tree(ns), NEW n \in DOMAIN ns
  PROVE  AboveIn(ns, n) \subseteq 1 .. n - 1 /\ AboveIn(ns, n) \subseteq DOMAIN ns
<1> DEFINE S == {k \in DOMAIN ns : ~(AboveIn(ns, k) \subseteq 1 .. k - 1)}
<1>1. DOMAIN ns = 1 .. Len(ns) /\ Len(ns) \in Nat
  BY DEF Tree
<1>2. ASSUME NEW k \in S
      PROVE  \E j \in S : j < k
  <2>1. k \in DOMAIN ns /\ k # 1 /\ ~(AboveIn(ns, k) \subseteq 1 .. k - 1)
    BY AboveIs
  <2> DEFINE h == HolderIn(ns, k)
  <2>2. h \in DOMAIN ns /\ h \in 1 .. k - 1 /\ AboveIn(ns, k) = {h} \cup AboveIn(ns, h)
    BY <2>1, AboveIs, HolderHolds
  <2> HIDE DEF h
  <2>3. ~(AboveIn(ns, h) \subseteq 1 .. h - 1)
    BY <1>1, <2>1, <2>2
  <2>4. h \in S /\ h < k
    BY <1>1, <2>1, <2>2, <2>3
  <2> QED
    BY <2>4
<1>3. S = {}
  <2>1. S \in SUBSET Nat
    BY <1>1
  <2> HIDE DEF S
  <2> QED
    BY ONLY <1>2, <2>1, NoLeastNoElement
<1>4. AboveIn(ns, n) \subseteq 1 .. n - 1
  BY <1>3
<1> QED
  BY <1>1, <1>4

LEMMA AboveTransitive ==
  ASSUME NEW ns, Tree(ns), NEW n \in DOMAIN ns, NEW m \in AboveIn(ns, n)
  PROVE  AboveIn(ns, m) \subseteq AboveIn(ns, n)
<1> DEFINE Bad(k) == \E q \in AboveIn(ns, k) : ~(AboveIn(ns, q) \subseteq AboveIn(ns, k))
           S == {k \in DOMAIN ns : Bad(k)}
<1>1. DOMAIN ns = 1 .. Len(ns) /\ Len(ns) \in Nat
  BY DEF Tree
<1>2. ASSUME NEW k \in S
      PROVE  \E j \in S : j < k
  <2>1. PICK q \in AboveIn(ns, k) : ~(AboveIn(ns, q) \subseteq AboveIn(ns, k))
    OBVIOUS
  <2>2. k \in DOMAIN ns /\ k # 1
    BY AboveIs
  <2> DEFINE h == HolderIn(ns, k)
  <2>3. h \in DOMAIN ns /\ h \in 1 .. k - 1 /\ AboveIn(ns, k) = {h} \cup AboveIn(ns, h)
    BY <2>2, AboveIs, HolderHolds
  <2> HIDE DEF h
  <2>4. q \in AboveIn(ns, h) /\ ~(AboveIn(ns, q) \subseteq AboveIn(ns, h))
    BY <2>1, <2>3
  <2>5. h \in S /\ h < k
    BY <1>1, <2>2, <2>3, <2>4
  <2> QED
    BY <2>5
<1>3. S = {}
  <2>1. S \in SUBSET Nat
    BY <1>1
  <2> HIDE DEF S
  <2> QED
    BY ONLY <1>2, <2>1, NoLeastNoElement
<1> QED
  BY <1>3

(* Two nodes that both are above a third, or it, are one above the other.      *)
LEMMA AboveChain ==
  ASSUME NEW ns, Tree(ns), NEW n \in DOMAIN ns, NEW a, NEW b, Under(ns, a, n), Under(ns, b, n)
  PROVE  Under(ns, a, b) \/ Under(ns, b, a)
<1> DEFINE Bad(k) == \E x, y : /\ Under(ns, x, k) /\ Under(ns, y, k)
                               /\ ~Under(ns, x, y) /\ ~Under(ns, y, x)
           S == {k \in DOMAIN ns : Bad(k)}
<1>1. DOMAIN ns = 1 .. Len(ns) /\ Len(ns) \in Nat
  BY DEF Tree
<1>2. ASSUME NEW k \in S
      PROVE  \E j \in S : j < k
  <2>1. PICK x, y : /\ Under(ns, x, k) /\ Under(ns, y, k)
                    /\ ~Under(ns, x, y) /\ ~Under(ns, y, x)
    OBVIOUS
  <2>2. x \in AboveIn(ns, k) /\ y \in AboveIn(ns, k)
    BY <2>1 DEF Under
  <2>3. k \in DOMAIN ns /\ k # 1
    BY <2>2, AboveIs
  <2> DEFINE h == HolderIn(ns, k)
  <2>4. h \in DOMAIN ns /\ h \in 1 .. k - 1 /\ AboveIn(ns, k) = {h} \cup AboveIn(ns, h)
    BY <2>3, AboveIs, HolderHolds
  <2> HIDE DEF h
  <2>5. Under(ns, x, h) /\ Under(ns, y, h)
    BY <2>2, <2>4 DEF Under
  <2>6. Bad(h)
    BY <2>1, <2>5
  <2>7. h \in S /\ h < k
    BY <1>1, <2>3, <2>4, <2>6
  <2> QED
    BY <2>7
<1>3. S = {}
  <2>1. S \in SUBSET Nat
    BY <1>1
  <2> HIDE DEF S
  <2> QED
    BY ONLY <1>2, <2>1, NoLeastNoElement
<1> QED
  BY <1>3

(* What is below s is in one of the nodes that s holds.                       *)
LEMMA AboveDown ==
  ASSUME NEW ns, Tree(ns), NEW n \in DOMAIN ns, NEW s \in AboveIn(ns, n)
  PROVE  \E i \in DOMAIN ns[s].body : Under(ns, ns[s].body[i], n)
<1> DEFINE Bad(k) == s \in AboveIn(ns, k) /\ \A i \in DOMAIN ns[s].body : ~Under(ns, ns[s].body[i], k)
           S == {k \in DOMAIN ns : Bad(k)}
<1>1. DOMAIN ns = 1 .. Len(ns) /\ Len(ns) \in Nat
  BY DEF Tree
<1>2. ASSUME NEW k \in S
      PROVE  \E j \in S : j < k
  <2>1. s \in AboveIn(ns, k) /\ \A i \in DOMAIN ns[s].body : ~Under(ns, ns[s].body[i], k)
    OBVIOUS
  <2>2. k \in DOMAIN ns /\ k # 1
    BY <2>1, AboveIs
  <2> DEFINE h == HolderIn(ns, k)
  <2>3. h \in DOMAIN ns /\ h \in 1 .. k - 1 /\ AboveIn(ns, k) = {h} \cup AboveIn(ns, h)
        /\ \E i \in DOMAIN ns[h].body : ns[h].body[i] = k
    BY <2>2, AboveIs, HolderHolds
  <2> HIDE DEF h
  <2>4. s # h
    BY <2>1, <2>3 DEF Under
  <2>5. Bad(h)
    BY <2>1, <2>3, <2>4 DEF Under
  <2>6. h \in S /\ h < k
    BY <1>1, <2>2, <2>3, <2>5
  <2> QED
    BY <2>6
<1>3. S = {}
  <2>1. S \in SUBSET Nat
    BY <1>1
  <2> HIDE DEF S
  <2> QED
    BY ONLY <1>2, <2>1, NoLeastNoElement
<1> QED
  BY <1>3

LEMMA UnderHolder ==
  ASSUME NEW ns, Tree(ns), NEW m \in DOMAIN ns, NEW i \in DOMAIN ns[m].body
  PROVE  /\ ns[m].body[i] \in DOMAIN ns /\ ns[m].body[i] # 1 /\ m < ns[m].body[i]
         /\ HolderIn(ns, ns[m].body[i]) = m
         /\ AboveIn(ns, ns[m].body[i]) = {m} \cup AboveIn(ns, m)
<1>1. ns[m].body[i] \in m + 1 .. Len(ns) /\ m \in 1 .. Len(ns) /\ DOMAIN ns = 1 .. Len(ns) /\ Len(ns) \in Nat
  BY DEF Tree
<1> QED
  BY <1>1, HolderIs, AboveIs

(* What lies under two statements of one block, or one above the other.        *)
LEMMA SiblingsApart ==
  ASSUME NEW ns, Tree(ns), NEW m \in DOMAIN ns, NEW i \in DOMAIN ns[m].body,
         NEW j \in DOMAIN ns[m].body, NEW n \in DOMAIN ns,
         Under(ns, ns[m].body[i], n), Under(ns, ns[m].body[j], n)
  PROVE  i = j
<1> DEFINE x == ns[m].body[i]
           y == ns[m].body[j]
<1>1. /\ x \in DOMAIN ns /\ AboveIn(ns, x) = {m} \cup AboveIn(ns, m) /\ m < x
      /\ y \in DOMAIN ns /\ AboveIn(ns, y) = {m} \cup AboveIn(ns, m) /\ m < y
  BY UnderHolder
<1>2. x = y => i = j
  BY DEF Tree
<1>3. DOMAIN ns \subseteq Nat
  BY DEF Tree
<1>4. AboveIn(ns, m) \subseteq 1 .. m - 1
  BY AboveBefore
<1>5. Under(ns, x, n) /\ Under(ns, y, n)
  OBVIOUS
<1> HIDE DEF x, y
<1>6. Under(ns, x, y) \/ Under(ns, y, x)
  BY <1>5, AboveChain
<1>7. x \notin AboveIn(ns, y) /\ y \notin AboveIn(ns, x)
  BY <1>1, <1>3, <1>4
<1> QED
  BY <1>2, <1>6, <1>7 DEF Under

-----------------------------------------------------------------------------
(* What is written: nodes that hang together, under a node of the tree.        *)

Attach(ns, top, new) == [ns EXCEPT ![top].body = Append(@, Len(ns) + 1)] \o new

Fragment(size, new) ==
  /\ new \in Seq(NodeRecords) /\ Len(new) >= 1
  /\ \A k \in DOMAIN new : \A i \in DOMAIN new[k].body : new[k].body[i] \in size + k + 1 .. size + Len(new)
  /\ \A k, q \in DOMAIN new : \A i \in DOMAIN new[k].body, j \in DOMAIN new[q].body :
       new[k].body[i] = new[q].body[j] => k = q /\ i = j
  /\ \A k \in 2 .. Len(new) : \E q \in DOMAIN new : \E i \in DOMAIN new[q].body : new[q].body[i] = size + k

(* The old nodes are what they were, but for the body of top; the new follow.    *)
Attached(ns, top, new, ns2) ==
  /\ ns2 \in Seq(NodeRecords) /\ Len(ns2) = Len(ns) + Len(new)
  /\ \A n \in DOMAIN ns : /\ n \in DOMAIN ns2
                          /\ ns2[n].kind = ns[n].kind /\ ns2[n].parent = ns[n].parent
                          /\ ns2[n].function = ns[n].function /\ ns2[n].value = ns[n].value
                          /\ ns2[n].type = ns[n].type /\ ns2[n].argument = ns[n].argument
                          /\ n # top => ns2[n].body = ns[n].body
  /\ ns2[top].body = Append(ns[top].body, Len(ns) + 1)
  /\ \A k \in DOMAIN new : Len(ns) + k \in DOMAIN ns2 /\ ns2[Len(ns) + k] = new[k]
  /\ \A n \in DOMAIN ns2 : n \in DOMAIN ns \/ n - Len(ns) \in DOMAIN new

LEMMA Joined ==
  ASSUME NEW S, NEW s \in Seq(S), NEW u \in Seq(S)
  PROVE  /\ s \o u \in Seq(S)
         /\ Len(s \o u) = Len(s) + Len(u)
         /\ \A k \in 1 .. Len(s) : (s \o u)[k] = s[k]
         /\ \A k \in 1 .. Len(u) : (s \o u)[Len(s) + k] = u[k]
OBVIOUS

LEMMA AttachIs ==
  ASSUME NEW ns, Tree(ns), NEW top \in DOMAIN ns, NEW new, Fragment(Len(ns), new)
  PROVE  Attached(ns, top, new, Attach(ns, top, new))
<1> DEFINE size == Len(ns)
           ws == [ns EXCEPT ![top].body = Append(@, size + 1)]
<1>1. ns \in Seq(NodeRecords) /\ size \in Nat /\ DOMAIN ns = 1 .. size /\ top \in 1 .. size
  BY DEF Tree
<1>2. new \in Seq(NodeRecords) /\ Len(new) \in Nat /\ DOMAIN new = 1 .. Len(new)
  BY DEF Fragment
<1>3. \A n \in DOMAIN ns : ns[n] \in NodeRecords
  BY <1>1
<1>4. ns[top].body \in Seq(Nat) /\ Append(ns[top].body, size + 1) \in Seq(Nat)
  BY <1>1, <1>3 DEF NodeRecords
<1> DEFINE r == [ns[top] EXCEPT !.body = Append(ns[top].body, size + 1)]
<1>5. /\ r \in NodeRecords /\ r.body = Append(ns[top].body, size + 1)
      /\ r.kind = ns[top].kind /\ r.parent = ns[top].parent /\ r.function = ns[top].function
      /\ r.value = ns[top].value /\ r.type = ns[top].type /\ r.argument = ns[top].argument
  BY <1>3, <1>4 DEF NodeRecords
<1>6. ws = [ns EXCEPT ![top] = r]
  OBVIOUS
<1> HIDE DEF r, ws
<1>7. ws \in Seq(NodeRecords) /\ Len(ws) = size /\ ws[top] = r /\ \A n \in 1 .. size : n # top => ws[n] = ns[n]
  BY <1>1, <1>5, <1>6
<1> DEFINE ns2 == ws \o new
<1>8. /\ ns2 \in Seq(NodeRecords) /\ Len(ns2) = size + Len(new)
      /\ \A n \in 1 .. size : ns2[n] = ws[n]
      /\ \A k \in 1 .. Len(new) : ns2[size + k] = new[k]
  <2>1. ws \in Seq(NodeRecords) /\ new \in Seq(NodeRecords)
    BY <1>2, <1>7
  <2>2. /\ ws \o new \in Seq(NodeRecords) /\ Len(ws \o new) = Len(ws) + Len(new)
        /\ \A n \in 1 .. Len(ws) : (ws \o new)[n] = ws[n]
        /\ \A k \in 1 .. Len(new) : (ws \o new)[Len(ws) + k] = new[k]
    BY ONLY <2>1, SMT
  <2> HIDE DEF size
  <2> QED
    BY ONLY <1>7, <2>2
<1>9. DOMAIN ns2 = 1 .. size + Len(new)
  BY <1>8
<1>10. ns2 = Attach(ns, top, new)
  BY DEF Attach, ws
<1> HIDE DEF ns2
<1>11. ASSUME NEW n \in DOMAIN ns
       PROVE  /\ n \in DOMAIN ns2
              /\ ns2[n].kind = ns[n].kind /\ ns2[n].parent = ns[n].parent
              /\ ns2[n].function = ns[n].function /\ ns2[n].value = ns[n].value
              /\ ns2[n].type = ns[n].type /\ ns2[n].argument = ns[n].argument
              /\ n # top => ns2[n].body = ns[n].body
  <2>1. n \in DOMAIN ns2 /\ ns2[n] = IF n = top THEN r ELSE ns[n]
    BY <1>1, <1>2, <1>7, <1>8, <1>9
  <2> QED
    BY <1>5, <2>1
<1>12. ns2[top].body = Append(ns[top].body, size + 1)
  BY <1>1, <1>5, <1>7, <1>8
<1>13. \A k \in DOMAIN new : size + k \in DOMAIN ns2 /\ ns2[size + k] = new[k]
  BY <1>1, <1>2, <1>8, <1>9
<1>14. \A n \in DOMAIN ns2 : n \in DOMAIN ns \/ n - size \in DOMAIN new
  BY <1>1, <1>2, <1>9
<1> QED
  BY <1>8, <1>10, <1>11, <1>12, <1>13, <1>14 DEF Attached

(* What a node holds after that: what it held, the first new node, or what a new  *)
(* node holds.                                                               *)
Kept(ns, ns2, m, i) ==
  /\ m \in DOMAIN ns /\ i \in DOMAIN ns[m].body
  /\ ns2[m].body[i] = ns[m].body[i] /\ ns2[m].body[i] \in m + 1 .. Len(ns)
Hung(ns, top, ns2, m, i) ==
  /\ m = top /\ i = Len(ns[top].body) + 1 /\ i = Len(ns2[top].body)
  /\ ns2[m].body[i] = Len(ns) + 1
Fresh(ns, new, ns2, m, i) ==
  /\ m - Len(ns) \in DOMAIN new /\ m > Len(ns) /\ i \in DOMAIN new[m - Len(ns)].body
  /\ ns2[m].body = new[m - Len(ns)].body /\ ns2[m].body[i] \in m + 1 .. Len(ns2)

LEMMA AttachBodies ==
  ASSUME NEW ns, Tree(ns), NEW top \in DOMAIN ns, NEW new, Fragment(Len(ns), new),
         NEW ns2, Attached(ns, top, new, ns2), NEW m \in DOMAIN ns2, NEW i \in DOMAIN ns2[m].body
  PROVE  Kept(ns, ns2, m, i) \/ Hung(ns, top, ns2, m, i) \/ Fresh(ns, new, ns2, m, i)
<1>1. /\ ns \in Seq(NodeRecords) /\ Len(ns) \in Nat /\ DOMAIN ns = 1 .. Len(ns)
      /\ new \in Seq(NodeRecords) /\ Len(new) \in Nat /\ DOMAIN new = 1 .. Len(new)
  BY DEF Tree, Fragment
<1>2. ns2 \in Seq(NodeRecords) /\ Len(ns2) = Len(ns) + Len(new) /\ DOMAIN ns2 = 1 .. Len(ns2)
  BY DEF Attached
<1>3. CASE m \in DOMAIN ns /\ m # top
  <2>1. ns2[m].body = ns[m].body
    BY <1>3 DEF Attached
  <2>2. ns[m].body[i] \in m + 1 .. Len(ns)
    BY <1>3, <2>1 DEF Tree
  <2> QED
    BY <1>1, <1>3, <2>1, <2>2 DEF Kept
<1>4. CASE m = top
  <2>1. ns2[m].body = Append(ns[m].body, Len(ns) + 1)
    BY <1>4 DEF Attached
  <2>2. ns[m] \in NodeRecords
    BY <1>1, <1>4
  <2>3. ns[m].body \in Seq(Nat)
    BY <2>2 DEF NodeRecords
  <2>4. \A j \in DOMAIN ns[m].body : ns[m].body[j] \in m + 1 .. Len(ns)
    BY <1>4 DEF Tree
  <2>5. CASE i \in DOMAIN ns[m].body
    <3>1. ns2[m].body[i] = ns[m].body[i]
      BY <2>1, <2>3, <2>5
    <3> QED
      BY <1>1, <1>4, <2>4, <2>5, <3>1 DEF Kept
  <2>6. CASE i \notin DOMAIN ns[m].body
    <3>1. i = Len(ns[m].body) + 1 /\ ns2[m].body[i] = Len(ns) + 1 /\ Len(ns2[m].body) = i
      BY <2>1, <2>3, <2>6
    <3> QED
      BY <1>4, <3>1 DEF Hung
  <2> QED
    BY <2>5, <2>6
<1>5. CASE m \notin DOMAIN ns
  <2> DEFINE k == m - Len(ns)
  <2>1. k \in DOMAIN new /\ m = Len(ns) + k /\ m > Len(ns)
    BY <1>1, <1>2, <1>5 DEF Attached
  <2>2. ns2[m] = new[k]
    BY <2>1 DEF Attached
  <2> HIDE DEF k
  <2>3. new[k].body[i] \in Len(ns) + k + 1 .. Len(ns) + Len(new)
    BY <2>1, <2>2 DEF Fragment
  <2> QED
    BY <1>2, <2>1, <2>2, <2>3 DEF k, Fresh
<1> QED
  BY <1>3, <1>4, <1>5

LEMMA AttachTree ==
  ASSUME NEW ns, Tree(ns), NEW top \in DOMAIN ns, NEW new, Fragment(Len(ns), new),
         NEW ns2, Attached(ns, top, new, ns2)
  PROVE  Tree(ns2)
<1>1. /\ ns \in Seq(NodeRecords) /\ Len(ns) \in Nat /\ DOMAIN ns = 1 .. Len(ns) /\ Len(ns) >= 1
      /\ new \in Seq(NodeRecords) /\ Len(new) \in Nat /\ DOMAIN new = 1 .. Len(new) /\ Len(new) >= 1
  BY DEF Tree, Fragment
<1>2. ns2 \in Seq(NodeRecords) /\ Len(ns2) = Len(ns) + Len(new) /\ DOMAIN ns2 = 1 .. Len(ns2)
  BY DEF Attached
<1>3. ASSUME NEW m \in DOMAIN ns2, NEW i \in DOMAIN ns2[m].body
      PROVE  ns2[m].body[i] \in m + 1 .. Len(ns2)
  <2>1. Kept(ns, ns2, m, i) \/ Hung(ns, top, ns2, m, i) \/ Fresh(ns, new, ns2, m, i)
    BY AttachBodies
  <2>2. CASE Kept(ns, ns2, m, i)
    BY <1>1, <1>2, <2>2 DEF Kept
  <2>3. CASE Hung(ns, top, ns2, m, i)
    BY <1>1, <1>2, <2>3 DEF Hung
  <2>4. CASE Fresh(ns, new, ns2, m, i)
    BY <2>4 DEF Fresh
  <2> QED
    BY <2>1, <2>2, <2>3, <2>4
<1>4. ASSUME NEW m \in DOMAIN ns2, NEW q \in DOMAIN ns2, NEW i \in DOMAIN ns2[m].body,
             NEW j \in DOMAIN ns2[q].body, ns2[m].body[i] = ns2[q].body[j]
      PROVE  m = q /\ i = j
  <2>1. /\ Kept(ns, ns2, m, i) \/ Hung(ns, top, ns2, m, i) \/ Fresh(ns, new, ns2, m, i)
        /\ Kept(ns, ns2, q, j) \/ Hung(ns, top, ns2, q, j) \/ Fresh(ns, new, ns2, q, j)
    BY AttachBodies
  <2>2. CASE Kept(ns, ns2, m, i) /\ Kept(ns, ns2, q, j)
    <3>1. /\ m \in DOMAIN ns /\ i \in DOMAIN ns[m].body
          /\ q \in DOMAIN ns /\ j \in DOMAIN ns[q].body /\ ns[m].body[i] = ns[q].body[j]
      BY <1>4, <2>2 DEF Kept
    <3> QED
      BY <3>1 DEF Tree
  <2>3. CASE Hung(ns, top, ns2, m, i) /\ Hung(ns, top, ns2, q, j)
    BY <2>3 DEF Hung
  <2>4. CASE Fresh(ns, new, ns2, m, i) /\ Fresh(ns, new, ns2, q, j)
    <3> DEFINE k == m - Len(ns)
               p == q - Len(ns)
    <3>1. /\ k \in DOMAIN new /\ i \in DOMAIN new[k].body
          /\ p \in DOMAIN new /\ j \in DOMAIN new[p].body /\ new[k].body[i] = new[p].body[j]
      BY <1>4, <2>4 DEF Fresh
    <3>2. k = p => m = q
      BY <1>1, <1>2
    <3> HIDE DEF k, p
    <3>3. k = p /\ i = j
      BY <3>1 DEF Fragment
    <3> QED
      BY <3>2, <3>3
  <2>5. ASSUME NEW x, NEW y, NEW z \in DOMAIN ns2, NEW w, Kept(ns, ns2, x, y),
               Hung(ns, top, ns2, z, w) \/ Fresh(ns, new, ns2, z, w)
        PROVE  ns2[x].body[y] # ns2[z].body[w]
    <3>1. ns2[x].body[y] \in Nat /\ ns2[x].body[y] <= Len(ns)
      BY <1>1, <2>5 DEF Kept
    <3>2. ns2[z].body[w] > Len(ns)
      BY <1>1, <1>2, <2>5 DEF Hung, Fresh
    <3> QED
      BY <1>1, <3>1, <3>2
  <2>6. ASSUME NEW x, NEW y, NEW z \in DOMAIN ns2, NEW w, Hung(ns, top, ns2, x, y), Fresh(ns, new, ns2, z, w)
        PROVE  ns2[x].body[y] # ns2[z].body[w]
    <3>1. ns2[x].body[y] = Len(ns) + 1
      BY <2>6 DEF Hung
    <3>2. ns2[z].body[w] > Len(ns) + 1
      BY <1>1, <1>2, <2>6 DEF Fresh
    <3> QED
      BY <1>1, <3>1, <3>2
  <2> QED
    BY <1>4, <2>1, <2>2, <2>3, <2>4, <2>5, <2>6
<1>5. ASSUME NEW n \in 2 .. Len(ns2)
      PROVE  \E m \in DOMAIN ns2 : \E i \in DOMAIN ns2[m].body : ns2[m].body[i] = n
  <2>1. CASE n <= Len(ns)
    <3>1. PICK m \in DOMAIN ns : \E i \in DOMAIN ns[m].body : ns[m].body[i] = n
      BY <1>1, <2>1 DEF Tree
    <3>2. PICK i \in DOMAIN ns[m].body : ns[m].body[i] = n
      BY <3>1
    <3>3. ns[m] \in NodeRecords
      BY <1>1
    <3>4. ns[m].body \in Seq(Nat)
      BY <3>3 DEF NodeRecords
    <3>5. ns2[m].body = ns[m].body \/ ns2[m].body = Append(ns[m].body, Len(ns) + 1)
      BY DEF Attached
    <3>6. i \in DOMAIN ns2[m].body /\ ns2[m].body[i] = n
      <4> DEFINE body == ns[m].body
      <4>1. body \in Seq(Nat) /\ i \in DOMAIN body /\ body[i] = n
        BY <3>2, <3>4
      <4>2. ns2[m].body = body \/ ns2[m].body = Append(body, Len(ns) + 1)
        BY <3>5
      <4> HIDE DEF body
      <4>3. i \in DOMAIN Append(body, Len(ns) + 1) /\ Append(body, Len(ns) + 1)[i] = n
        BY <4>1
      <4> QED
        BY <4>1, <4>2, <4>3
    <3> QED
      BY <1>1, <1>2, <3>6
  <2>2. CASE n = Len(ns) + 1
    <3>1. ns[top] \in NodeRecords
      BY <1>1
    <3>2. ns[top].body \in Seq(Nat) /\ ns2[top].body = Append(ns[top].body, n)
      BY <2>2, <3>1 DEF NodeRecords, Attached
    <3>3. Len(ns[top].body) + 1 \in DOMAIN ns2[top].body /\ ns2[top].body[Len(ns[top].body) + 1] = n
      BY <3>2
    <3> QED
      BY <1>1, <1>2, <3>3
  <2>3. CASE n > Len(ns) + 1
    <3> DEFINE k == n - Len(ns)
    <3>1. k \in 2 .. Len(new) /\ Len(ns) + k = n
      BY <1>1, <1>2, <2>3
    <3> HIDE DEF k
    <3>2. PICK q \in DOMAIN new : \E i \in DOMAIN new[q].body : new[q].body[i] = Len(ns) + k
      BY <3>1 DEF Fragment
    <3>3. Len(ns) + q \in DOMAIN ns2 /\ ns2[Len(ns) + q] = new[q]
      BY DEF Attached
    <3> QED
      BY <3>1, <3>2, <3>3
  <2>4. n <= Len(ns) \/ n = Len(ns) + 1 \/ n > Len(ns) + 1
    BY <1>1, <1>2
  <2> QED
    BY <2>1, <2>2, <2>3, <2>4
<1>6. Len(ns2) >= 1
  BY <1>1, <1>2
<1> QED
  BY <1>2, <1>3, <1>4, <1>5, <1>6 DEF Tree

LEMMA AttachHolders ==
  ASSUME NEW ns, Tree(ns), NEW top \in DOMAIN ns, NEW new, Fragment(Len(ns), new),
         NEW ns2, Attached(ns, top, new, ns2)
  PROVE  /\ \A n \in DOMAIN ns : n # 1 => HolderIn(ns2, n) = HolderIn(ns, n)
         /\ HolderIn(ns2, Len(ns) + 1) = top
         /\ \A n \in DOMAIN ns2 : n > Len(ns) + 1 => HolderIn(ns2, n) > Len(ns)
<1>1. /\ ns \in Seq(NodeRecords) /\ Len(ns) \in Nat /\ DOMAIN ns = 1 .. Len(ns)
      /\ new \in Seq(NodeRecords) /\ Len(new) \in Nat /\ Len(new) >= 1
  BY DEF Tree, Fragment
<1>2. ns2 \in Seq(NodeRecords) /\ Len(ns2) = Len(ns) + Len(new) /\ DOMAIN ns2 = 1 .. Len(ns2)
  BY DEF Attached
<1>3. Tree(ns2)
  BY AttachTree
<1>4. ASSUME NEW m \in DOMAIN ns2, NEW i \in DOMAIN ns2[m].body
      PROVE  /\ HolderIn(ns2, ns2[m].body[i]) = m
             /\ ns2[m].body[i] <= Len(ns) => HolderIn(ns, ns2[m].body[i]) = m
             /\ ns2[m].body[i] = Len(ns) + 1 => m = top
             /\ ns2[m].body[i] > Len(ns) + 1 => m > Len(ns)
  <2>1. HolderIn(ns2, ns2[m].body[i]) = m
    BY <1>3, HolderIs
  <2>2. Kept(ns, ns2, m, i) \/ Hung(ns, top, ns2, m, i) \/ Fresh(ns, new, ns2, m, i)
    BY AttachBodies
  <2>3. CASE Kept(ns, ns2, m, i)
    <3>1. /\ m \in DOMAIN ns /\ i \in DOMAIN ns[m].body /\ ns2[m].body[i] = ns[m].body[i]
          /\ ns2[m].body[i] \in Nat /\ ns2[m].body[i] <= Len(ns)
      BY <1>1, <2>3 DEF Kept
    <3>2. HolderIn(ns, ns[m].body[i]) = m
      BY <3>1, HolderIs
    <3> QED
      BY <1>1, <2>1, <3>1, <3>2
  <2>4. CASE Hung(ns, top, ns2, m, i)
    BY <1>1, <2>1, <2>4 DEF Hung
  <2>5. CASE Fresh(ns, new, ns2, m, i)
    <3>1. ns2[m].body[i] \in Nat /\ m > Len(ns) /\ ns2[m].body[i] > Len(ns) + 1
      BY <1>1, <1>2, <2>5 DEF Fresh
    <3> QED
      BY <1>1, <2>1, <3>1
  <2> QED
    BY <2>2, <2>3, <2>4, <2>5
<1>5. ASSUME NEW n \in DOMAIN ns2, n # 1
      PROVE  /\ n <= Len(ns) => HolderIn(ns, n) = HolderIn(ns2, n)
             /\ n = Len(ns) + 1 => HolderIn(ns2, n) = top
             /\ n > Len(ns) + 1 => HolderIn(ns2, n) > Len(ns)
  <2> DEFINE h == HolderIn(ns2, n)
  <2>1. h \in DOMAIN ns2 /\ \E i \in DOMAIN ns2[h].body : ns2[h].body[i] = n
    BY <1>3, <1>5, HolderHolds
  <2> HIDE DEF h
  <2>2. /\ n <= Len(ns) => HolderIn(ns, n) = h
        /\ n = Len(ns) + 1 => h = top
        /\ n > Len(ns) + 1 => h > Len(ns)
    BY <1>4, <2>1
  <2> QED
    BY <2>2 DEF h
<1>6. Len(ns) + 1 \in DOMAIN ns2 /\ Len(ns) + 1 # 1 /\ \A n \in DOMAIN ns : n \in DOMAIN ns2 /\ n <= Len(ns)
  BY <1>1, <1>2
<1> QED
  BY <1>5, <1>6

LEMMA AttachAbove ==
  ASSUME NEW ns, Tree(ns), NEW top \in DOMAIN ns, NEW new, Fragment(Len(ns), new),
         NEW ns2, Attached(ns, top, new, ns2)
  PROVE  /\ \A n \in DOMAIN ns : AboveIn(ns2, n) = AboveIn(ns, n)
         /\ \A n \in DOMAIN ns2 : n > Len(ns) =>
              /\ \A s \in DOMAIN ns : s \in AboveIn(ns2, n) <=> Under(ns, s, top)
              /\ n = Len(ns) + 1 \/ Len(ns) + 1 \in AboveIn(ns2, n)
<1> DEFINE L == Len(ns)
           Odd(n) == AboveIn(ns2, n) # AboveIn(ns, n)
           S == {n \in DOMAIN ns : Odd(n)}
           Good(n) == /\ \A s \in DOMAIN ns : s \in AboveIn(ns2, n) <=> Under(ns, s, top)
                      /\ n = L + 1 \/ L + 1 \in AboveIn(ns2, n)
           U == {n \in DOMAIN ns2 : n > L /\ ~Good(n)}
<1>1. /\ L \in Nat /\ DOMAIN ns = 1 .. L
      /\ Len(ns2) \in Nat /\ DOMAIN ns2 = 1 .. Len(ns2) /\ \A n \in DOMAIN ns : n \in DOMAIN ns2
  BY DEF Tree, Attached
<1>2. Tree(ns2)
  BY AttachTree
<1>3. /\ \A n \in DOMAIN ns : n # 1 => HolderIn(ns2, n) = HolderIn(ns, n)
      /\ HolderIn(ns2, L + 1) = top
      /\ \A n \in DOMAIN ns2 : n > L + 1 => HolderIn(ns2, n) > L
  BY AttachHolders
<1>4. /\ AboveIn(ns, 1) = {} /\ AboveIn(ns2, 1) = {}
      /\ \A n \in DOMAIN ns : n # 1 => AboveIn(ns, n) = {HolderIn(ns, n)} \cup AboveIn(ns, HolderIn(ns, n))
      /\ \A n \in DOMAIN ns2 : n # 1 => AboveIn(ns2, n) = {HolderIn(ns2, n)} \cup AboveIn(ns2, HolderIn(ns2, n))
  BY <1>2, AboveIs
<1>5. ASSUME NEW n \in S
      PROVE  \E j \in S : j < n
  <2>1. n \in DOMAIN ns /\ n # 1 /\ Odd(n)
    BY <1>4
  <2> DEFINE h == HolderIn(ns, n)
  <2>2. h \in DOMAIN ns /\ h \in 1 .. n - 1 /\ HolderIn(ns2, n) = h
    BY <1>3, <2>1, HolderHolds
  <2> HIDE DEF h
  <2>3. AboveIn(ns, n) = {h} \cup AboveIn(ns, h) /\ AboveIn(ns2, n) = {h} \cup AboveIn(ns2, h)
    BY <1>1, <1>4, <2>1, <2>2 DEF h
  <2>4. Odd(h) /\ h < n
    BY <1>1, <2>1, <2>2, <2>3
  <2> QED
    BY <2>2, <2>4
<1>6. S = {}
  <2>1. S \in SUBSET Nat
    BY <1>1
  <2> HIDE DEF S
  <2> QED
    BY ONLY <1>5, <2>1, NoLeastNoElement
<1>7. \A n \in DOMAIN ns : AboveIn(ns2, n) = AboveIn(ns, n)
  BY <1>6
<1> HIDE DEF S
<1>8. ASSUME NEW n \in U
      PROVE  \E j \in U : j < n
  <2>1. n \in DOMAIN ns2 /\ n > L /\ ~Good(n) /\ n # 1
    BY <1>1
  <2> DEFINE h == HolderIn(ns2, n)
  <2>2. h \in DOMAIN ns2 /\ h \in 1 .. n - 1 /\ AboveIn(ns2, n) = {h} \cup AboveIn(ns2, h)
    BY <1>2, <1>4, <2>1, HolderHolds
  <2>3. CASE n = L + 1
    <3>1. AboveIn(ns2, n) = {top} \cup AboveIn(ns, top)
      BY <1>3, <1>7, <2>2, <2>3
    <3>2. Good(n)
      BY <2>3, <3>1 DEF Under
    <3> QED
      BY <2>1, <3>2
  <2>4. CASE n # L + 1
    <3>1. h > L
      BY <1>1, <1>3, <2>1, <2>4
    <3> HIDE DEF h
    <3>2. \A s \in DOMAIN ns : s # h
      BY <1>1, <3>1
    <3>3. Good(h) => Good(n)
      BY <2>2, <3>2
    <3>4. h \in U /\ h < n
      BY <1>1, <2>1, <2>2, <3>1, <3>3
    <3> QED
      BY <3>4
  <2> QED
    BY <2>3, <2>4
<1>9. U = {}
  <2>1. U \in SUBSET Nat
    BY <1>1
  <2> HIDE DEF U
  <2> QED
    BY ONLY <1>8, <2>1, NoLeastNoElement
<1>10. \A n \in DOMAIN ns2 : n > L => Good(n)
  BY <1>9
<1> QED
  BY <1>7, <1>10

(* The new nodes are in form, and top may hold the first of them.               *)
LEMMA AttachFormed ==
  ASSUME NEW ns, Tree(ns), Formed(ns), NEW top \in DOMAIN ns, NEW new, Fragment(Len(ns), new),
         NEW ns2, Attached(ns, top, new, ns2), Form(ns2, top), Link(ns2, top, Len(ns) + 1),
         \A n \in DOMAIN ns2 : n > Len(ns) =>
           Form(ns2, n) /\ \A i \in DOMAIN ns2[n].body : Link(ns2, n, ns2[n].body[i])
  PROVE  Formed(ns2)
<1>1. /\ Len(ns) \in Nat /\ DOMAIN ns = 1 .. Len(ns) /\ 1 \in DOMAIN ns
      /\ Len(ns2) \in Nat /\ DOMAIN ns2 = 1 .. Len(ns2) /\ \A n \in DOMAIN ns : n \in DOMAIN ns2
  BY DEF Tree, Attached
<1>2. ns2[1].kind = "block" /\ ns2[1].parent = 0 /\ ns2[1].function = 0
  BY <1>1 DEF Attached, Formed
<1>3. ASSUME NEW n \in DOMAIN ns2
      PROVE  Form(ns2, n)
  <2>1. CASE n \in DOMAIN ns /\ n # top
    <3>1. /\ ns2[n].body = ns[n].body /\ ns2[n].kind = ns[n].kind /\ ns2[n].value = ns[n].value
          /\ ns2[n].type = ns[n].type /\ ns2[n].argument = ns[n].argument
      BY <2>1 DEF Attached
    <3>2. \A i \in DOMAIN ns[n].body : ns[n].body[i] \in DOMAIN ns
      BY <2>1, UnderHolder
    <3>3. \A i \in DOMAIN ns[n].body : ns2[ns[n].body[i]].kind = ns[ns[n].body[i]].kind
      BY <3>2 DEF Attached
    <3>4. Form(ns, n)
      BY <2>1 DEF Formed
    <3> QED
      BY ONLY <3>1, <3>3, <3>4 DEF Form, FormOf
  <2>2. CASE n \notin DOMAIN ns
    BY <1>1, <2>2
  <2> QED
    BY <2>1, <2>2
<1>4. ASSUME NEW m \in DOMAIN ns2, NEW i \in DOMAIN ns2[m].body
      PROVE  Link(ns2, m, ns2[m].body[i])
  <2>1. Kept(ns, ns2, m, i) \/ Hung(ns, top, ns2, m, i) \/ Fresh(ns, new, ns2, m, i)
    BY AttachBodies
  <2>2. CASE Kept(ns, ns2, m, i)
    <3> DEFINE n == ns[m].body[i]
    <3>1. m \in DOMAIN ns /\ i \in DOMAIN ns[m].body /\ ns2[m].body[i] = n
      BY <2>2 DEF Kept
    <3>2. n \in DOMAIN ns /\ Link(ns, m, n)
      BY <3>1, UnderHolder DEF Formed
    <3> HIDE DEF n
    <3>3. /\ ns2[m].kind = ns[m].kind
          /\ ns2[n].function = ns[n].function /\ ns2[n].parent = ns[n].parent
      BY <3>1, <3>2 DEF Attached
    <3>4. ns[m].kind \in FunctionKinds => m # 1
      BY DEF Formed, FunctionKinds
    <3>5. m # 1 => HolderIn(ns2, m) = HolderIn(ns, m)
      BY <3>1, AttachHolders
    <3>6. Link(ns2, m, n)
      BY ONLY <3>2, <3>3, <3>4, <3>5 DEF Link
    <3> QED
      BY <3>1, <3>6
  <2>3. CASE Hung(ns, top, ns2, m, i)
    BY <2>3 DEF Hung
  <2>4. CASE Fresh(ns, new, ns2, m, i)
    BY <2>4 DEF Fresh
  <2> QED
    BY <2>1, <2>2, <2>3, <2>4
<1> QED
  BY <1>2, <1>3, <1>4 DEF Formed

LEMMA AttachSorted ==
  ASSUME NEW ns, Tree(ns), Sorted(ns), NEW top \in DOMAIN ns, AtEnd(ns, top),
         NEW new, Fragment(Len(ns), new), NEW ns2, Attached(ns, top, new, ns2),
         \A k \in DOMAIN new : \A i, j \in DOMAIN new[k].body : i < j =>
           /\ ns2[new[k].body[i]].kind \in VariableKinds => new[k].body[i] < new[k].body[j]
           /\ ns2[new[k].body[j]].kind \notin VariableKinds
  PROVE  Sorted(ns2)
<1> DEFINE L == Len(ns)
<1>1. /\ L \in Nat /\ DOMAIN ns = 1 .. L /\ ns \in Seq(NodeRecords)
      /\ Len(ns2) \in Nat /\ DOMAIN ns2 = 1 .. Len(ns2) /\ \A n \in DOMAIN ns : n \in DOMAIN ns2
  BY DEF Tree, Attached
<1>2. \A n \in DOMAIN ns : ns2[n].kind = ns[n].kind
  BY DEF Attached
<1>3. /\ \A n \in DOMAIN ns : AboveIn(ns2, n) = AboveIn(ns, n)
      /\ \A n \in DOMAIN ns2 : n > L => \A s \in DOMAIN ns : s \in AboveIn(ns2, n) <=> Under(ns, s, top)
  BY AttachAbove
<1>4. ASSUME NEW b \in DOMAIN ns2, NEW i \in DOMAIN ns2[b].body, NEW j \in DOMAIN ns2[b].body, i < j
      PROVE  /\ ns2[ns2[b].body[i]].kind \in VariableKinds => ns2[b].body[i] < ns2[b].body[j]
             /\ ns2[ns2[b].body[j]].kind \in VariableKinds =>
                  \A n \in DOMAIN ns2 : Under(ns2, ns2[b].body[i], n) => n < ns2[b].body[j]
  <2>1. Kept(ns, ns2, b, i) \/ Hung(ns, top, ns2, b, i) \/ Fresh(ns, new, ns2, b, i)
    BY AttachBodies
  <2>2. Kept(ns, ns2, b, j) \/ Hung(ns, top, ns2, b, j) \/ Fresh(ns, new, ns2, b, j)
    BY AttachBodies
  <2> DEFINE x == ns2[b].body[i]
             y == ns2[b].body[j]
  <2>3. CASE Kept(ns, ns2, b, i) /\ Kept(ns, ns2, b, j)
    <3>1. /\ b \in DOMAIN ns /\ i \in DOMAIN ns[b].body /\ j \in DOMAIN ns[b].body
          /\ x = ns[b].body[i] /\ y = ns[b].body[j]
      BY <2>3 DEF Kept
    <3>2. x \in DOMAIN ns /\ y \in DOMAIN ns
      BY <3>1, UnderHolder
    <3>3. /\ ns[x].kind \in VariableKinds => x < y
          /\ ns[y].kind \in VariableKinds => \A n \in DOMAIN ns : Under(ns, x, n) => n < y
      BY <1>4, <3>1 DEF Sorted
    <3> HIDE DEF x, y
    <3>4. ASSUME ns[y].kind \in VariableKinds, NEW n \in DOMAIN ns2, Under(ns2, x, n)
          PROVE  n < y
      <4>1. CASE n \in DOMAIN ns
        BY <1>3, <3>3, <3>4, <4>1 DEF Under
      <4>2. CASE n \notin DOMAIN ns
        <5>1. n > L /\ n # x
          BY <1>1, <3>2, <4>2
        <5>2. Under(ns, x, top)
          BY <1>3, <3>2, <3>4, <5>1 DEF Under
        <5>3. x # 1 /\ HolderIn(ns, x) = b
          BY <3>1, UnderHolder
        <5>4. x = ns[b].body[Len(ns[b].body)] \/ \A q \in DOMAIN ns[b].body : ns[ns[b].body[q]].kind \notin VariableKinds
          BY <3>2, <5>2, <5>3 DEF AtEnd, EndsAt
        <5>5. x = ns[b].body[Len(ns[b].body)]
          BY <3>1, <3>4, <5>4
        <5>6. ns[b] \in NodeRecords
          BY <1>1, <3>1
        <5>7. ns[b].body \in Seq(Nat)
          BY <5>6 DEF NodeRecords
        <5>8. Len(ns[b].body) \in DOMAIN ns[b].body /\ i # Len(ns[b].body)
          BY <1>4, <3>1, <5>7
        <5>9. \A p, q \in DOMAIN ns[b].body : ns[b].body[p] = ns[b].body[q] => p = q
          BY <3>1 DEF Tree
        <5> QED
          BY <3>1, <5>5, <5>8, <5>9
      <4> QED
        BY <4>1, <4>2
    <3> QED
      BY <1>2, <3>2, <3>3, <3>4 DEF x, y
  <2>4. CASE Kept(ns, ns2, b, i) /\ Hung(ns, top, ns2, b, j)
    <3>1. /\ b \in DOMAIN ns /\ i \in DOMAIN ns[b].body /\ x = ns[b].body[i]
          /\ b = top /\ y = L + 1
      BY <2>4 DEF Kept, Hung
    <3>2. x \in DOMAIN ns /\ top < x /\ x \notin AboveIn(ns, top)
      <4>1. x \in DOMAIN ns /\ top < x
        BY <3>1, UnderHolder
      <4>2. AboveIn(ns, top) \subseteq 1 .. top - 1
        BY AboveBefore
      <4> QED
        BY <1>1, <4>1, <4>2
    <3> HIDE DEF x, y
    <3>3. ASSUME NEW n \in DOMAIN ns2, Under(ns2, x, n)
          PROVE  n < y
      <4>1. CASE n \in DOMAIN ns
        BY <1>1, <3>1, <4>1
      <4>2. CASE n \notin DOMAIN ns
        <5>1. n > L /\ n # x
          BY <1>1, <3>2, <4>2
        <5>2. Under(ns, x, top)
          BY <1>3, <3>2, <3>3, <5>1 DEF Under
        <5> QED
          BY <1>1, <3>2, <5>2 DEF Under
      <4> QED
        BY <4>1, <4>2
    <3>4. x < y
      BY <1>1, <3>1, <3>2
    <3> QED
      BY <3>3, <3>4 DEF x, y
  <2>5. CASE Fresh(ns, new, ns2, b, i) /\ Fresh(ns, new, ns2, b, j)
    <3> DEFINE k == b - L
    <3>1. k \in DOMAIN new /\ i \in DOMAIN new[k].body /\ j \in DOMAIN new[k].body /\ ns2[b].body = new[k].body
      BY <2>5 DEF Fresh
    <3> HIDE DEF k
    <3> QED
      BY <1>4, <3>1
  <2>6. ~(Hung(ns, top, ns2, b, i) /\ Kept(ns, ns2, b, j)) /\ ~(Hung(ns, top, ns2, b, i) /\ Hung(ns, top, ns2, b, j))
    <3>1. ns[top] \in NodeRecords
      BY <1>1
    <3>2. ns[top].body \in Seq(Nat)
      BY <3>1 DEF NodeRecords
    <3> QED
      BY <1>4, <3>2 DEF Hung, Kept
  <2>7. ~(Fresh(ns, new, ns2, b, i) /\ (Hung(ns, top, ns2, b, j) \/ Kept(ns, ns2, b, j)))
        /\ ~(Fresh(ns, new, ns2, b, j) /\ (Hung(ns, top, ns2, b, i) \/ Kept(ns, ns2, b, i)))
    BY <1>1 DEF Fresh, Hung, Kept
  <2> QED
    BY <2>1, <2>2, <2>3, <2>4, <2>5, <2>6, <2>7
<1> QED
  BY <1>4 DEF Sorted

LEMMA AtEndAbove ==
  ASSUME NEW ns, Tree(ns), NEW n \in DOMAIN ns, AtEnd(ns, n), NEW top \in AboveIn(ns, n)
  PROVE  top \in DOMAIN ns /\ AtEnd(ns, top)
<1>1. top \in DOMAIN ns
  BY AboveBefore
<1>2. ASSUME NEW m, Under(ns, m, top)
      PROVE  Under(ns, m, n)
  BY <1>2, AboveTransitive DEF Under
<1> QED
  BY <1>1, <1>2 DEF AtEnd

LEMMA AttachEnd ==
  ASSUME NEW ns, Tree(ns), NEW top \in DOMAIN ns, AtEnd(ns, top),
         NEW new, Fragment(Len(ns), new), NEW ns2, Attached(ns, top, new, ns2),
         Formed(ns2),
         \A k \in DOMAIN new : \A i \in DOMAIN new[k].body :
           \/ i = Len(new[k].body)
           \/ ns2[new[k].body[i]].kind \in VariableKinds
           \/ \A j \in DOMAIN new[k].body : ns2[new[k].body[j]].kind \notin VariableKinds,
         NEW x \in DOMAIN ns2, ns2[x].kind = "block", x = top \/ x > Len(ns)
  PROVE  AtEnd(ns2, x)
<1>1. /\ Len(ns) \in Nat /\ DOMAIN ns = 1 .. Len(ns) /\ ns \in Seq(NodeRecords)
      /\ Len(ns2) \in Nat /\ DOMAIN ns2 = 1 .. Len(ns2) /\ \A n \in DOMAIN ns : n \in DOMAIN ns2
  BY DEF Tree, Attached
<1>2. Tree(ns2)
  BY AttachTree
<1>3. /\ \A n \in DOMAIN ns : AboveIn(ns2, n) = AboveIn(ns, n)
      /\ \A n \in DOMAIN ns2 : n > Len(ns) => \A s \in DOMAIN ns : s \in AboveIn(ns2, n) <=> Under(ns, s, top)
  BY AttachAbove
<1>4. ASSUME NEW m \in DOMAIN ns2, m # 1, Under(ns2, m, x)
      PROVE  EndsAt(ns2, m)
  <2>1. CASE m \in DOMAIN ns
    <3>1. Under(ns, m, top)
      BY <1>1, <1>3, <1>4, <2>1 DEF Under
    <3>2. EndsAt(ns, m)
      BY <1>4, <2>1, <3>1 DEF AtEnd
    <3> DEFINE h == HolderIn(ns, m)
    <3>3. h \in DOMAIN ns /\ h \in 1 .. m - 1 /\ HolderIn(ns2, m) = h
      BY <1>4, <2>1, HolderHolds, AttachHolders
    <3>4. h # top
      <4>1. AboveIn(ns, top) \subseteq 1 .. top - 1
        BY AboveBefore
      <4> HIDE DEF h
      <4> QED
        BY <1>1, <3>1, <3>3, <4>1 DEF Under
    <3>5. \A i \in DOMAIN ns[h].body : ns[h].body[i] \in DOMAIN ns
      BY <3>3, UnderHolder
    <3>6. EndsAt(ns, m) <=> m = ns[h].body[Len(ns[h].body)] \/ \A i \in DOMAIN ns[h].body : ns[ns[h].body[i]].kind \notin VariableKinds
      BY DEF EndsAt
    <3>7. EndsAt(ns2, m) <=> m = ns2[h].body[Len(ns2[h].body)] \/ \A i \in DOMAIN ns2[h].body : ns2[ns2[h].body[i]].kind \notin VariableKinds
      BY <3>3 DEF EndsAt
    <3> HIDE DEF h
    <3>8. ns2[h].body = ns[h].body /\ \A n \in DOMAIN ns : ns2[n].kind = ns[n].kind
      BY <3>3, <3>4 DEF Attached
    <3> QED
      BY ONLY <3>2, <3>5, <3>6, <3>7, <3>8
  <2>2. CASE m \notin DOMAIN ns
    <3> DEFINE h == HolderIn(ns2, m)
    <3>1. h \in DOMAIN ns2 /\ \E i \in DOMAIN ns2[h].body : ns2[h].body[i] = m
      BY <1>2, <1>4, HolderHolds
    <3>2. EndsAt(ns2, m) <=> m = ns2[h].body[Len(ns2[h].body)] \/ \A i \in DOMAIN ns2[h].body : ns2[ns2[h].body[i]].kind \notin VariableKinds
      BY DEF EndsAt
    <3> HIDE DEF h
    <3>3. PICK i \in DOMAIN ns2[h].body : ns2[h].body[i] = m
      BY <3>1
    <3>4. Kept(ns, ns2, h, i) \/ Hung(ns, top, ns2, h, i) \/ Fresh(ns, new, ns2, h, i)
      BY <3>1, AttachBodies
    <3>5. ~Kept(ns, ns2, h, i)
      BY <1>1, <2>2, <3>1, <3>3 DEF Kept
    <3>6. CASE Hung(ns, top, ns2, h, i)
      BY <3>2, <3>3, <3>6 DEF Hung
    <3>7. CASE Fresh(ns, new, ns2, h, i)
      <4> DEFINE k == h - Len(ns)
      <4>1. k \in DOMAIN new /\ ns2[h].body = new[k].body /\ i \in DOMAIN new[k].body
        BY <3>7 DEF Fresh
      <4> HIDE DEF k
      <4>3. ns2[m].kind \notin VariableKinds
        <5>1. m = x \/ ns2[m].body # <<>>
          BY <1>2, <1>4, AboveDown DEF Under
        <5>2. FormOf(ns2[m])
          BY <1>4 DEF Formed, Form
        <5> QED
          BY <5>1, <5>2 DEF FormOf, VariableKinds, FunctionKinds, LoopKinds
      <4>2. i = Len(new[k].body) \/ ns2[new[k].body[i]].kind \in VariableKinds \/ \A j \in DOMAIN new[k].body : ns2[new[k].body[j]].kind \notin VariableKinds
        BY <4>1
      <4> QED
        BY <3>2, <3>3, <4>1, <4>2, <4>3
    <3> QED
      BY <3>4, <3>5, <3>6, <3>7
  <2> QED
    BY <2>1, <2>2
<1> QED
  BY <1>4 DEF AtEnd

-----------------------------------------------------------------------------
(* The steps of the parser.                                                  *)

(* What the new nodes hold, among themselves.                                  *)
Local(ns2, size, new) ==
  \A k \in DOMAIN new :
    /\ Form(ns2, size + k)
    /\ \A i \in DOMAIN new[k].body :
         /\ Link(ns2, size + k, new[k].body[i])
         /\ \/ i = Len(new[k].body)
            \/ ns2[new[k].body[i]].kind \in VariableKinds
            \/ \A j \in DOMAIN new[k].body : ns2[new[k].body[j]].kind \notin VariableKinds
         /\ \A j \in DOMAIN new[k].body : i < j =>
              /\ ns2[new[k].body[i]].kind \in VariableKinds => new[k].body[i] < new[k].body[j]
              /\ ns2[new[k].body[j]].kind \notin VariableKinds

LEMMA Grows ==
  ASSUME NEW ns, Tree(ns), Formed(ns), Sorted(ns), NEW top \in DOMAIN ns, AtEnd(ns, top),
         NEW new, Fragment(Len(ns), new), NEW ns2, Attached(ns, top, new, ns2),
         Form(ns2, top), Link(ns2, top, Len(ns) + 1), Local(ns2, Len(ns), new)
  PROVE  /\ Tree(ns2) /\ Formed(ns2) /\ Sorted(ns2)
         /\ \A x \in DOMAIN ns2 : ns2[x].kind = "block" /\ (x = top \/ x > Len(ns)) => AtEnd(ns2, x)
<1>1. Tree(ns2)
  BY AttachTree
<1>2. \A n \in DOMAIN ns2 : n > Len(ns) =>
        Form(ns2, n) /\ \A i \in DOMAIN ns2[n].body : Link(ns2, n, ns2[n].body[i])
  <2> SUFFICES ASSUME NEW n \in DOMAIN ns2, n > Len(ns)
               PROVE  Form(ns2, n) /\ \A i \in DOMAIN ns2[n].body : Link(ns2, n, ns2[n].body[i])
    OBVIOUS
  <2> DEFINE k == n - Len(ns)
  <2>1. /\ ns2 \in Seq(NodeRecords) /\ Len(ns2) \in Nat /\ DOMAIN ns2 = 1 .. Len(ns2)
        /\ Len(ns) \in Nat /\ DOMAIN ns = 1 .. Len(ns)
    BY DEF Tree, Attached
  <2>2. n = Len(ns) + k
    BY <2>1
  <2>3. k \in DOMAIN new
    BY <2>1 DEF Attached
  <2> HIDE DEF k
  <2>4. ns2[n] = new[k]
    BY <2>2, <2>3 DEF Attached
  <2> QED
    BY <2>2, <2>3, <2>4 DEF Local
<1>3. Formed(ns2)
  BY <1>2, AttachFormed
<1>4. \A k \in DOMAIN new : \A i, j \in DOMAIN new[k].body : i < j =>
        /\ ns2[new[k].body[i]].kind \in VariableKinds => new[k].body[i] < new[k].body[j]
        /\ ns2[new[k].body[j]].kind \notin VariableKinds
  BY DEF Local
<1>5. Sorted(ns2)
  BY <1>4, AttachSorted
<1>6. \A k \in DOMAIN new : \A i \in DOMAIN new[k].body :
        \/ i = Len(new[k].body)
        \/ ns2[new[k].body[i]].kind \in VariableKinds
        \/ \A j \in DOMAIN new[k].body : ns2[new[k].body[j]].kind \notin VariableKinds
  BY DEF Local
<1>7. \A x \in DOMAIN ns2 : ns2[x].kind = "block" /\ (x = top \/ x > Len(ns)) => AtEnd(ns2, x)
  BY <1>3, <1>6, AttachEnd
<1> QED
  BY <1>1, <1>3, <1>5, <1>7

(* A block may hold anything that knows it.                                    *)
LEMMA BlockHolds ==
  ASSUME NEW ns, Tree(ns), Formed(ns), NEW top \in DOMAIN ns, ns[top].kind = "block",
         NEW new, Fragment(Len(ns), new), NEW ns2, Attached(ns, top, new, ns2),
         new[1].parent = top, new[1].function = 0
  PROVE  Form(ns2, top) /\ Link(ns2, top, Len(ns) + 1)
<1>1. 1 \in DOMAIN new
  BY DEF Fragment
<1>2. ns2[Len(ns) + 1] = new[1]
  BY <1>1 DEF Attached
<1>3. /\ ns2[top].kind = "block" /\ ns2[top].value = ns[top].value
      /\ ns2[top].type = ns[top].type /\ ns2[top].argument = ns[top].argument
  BY DEF Attached
<1>4. FormOf(ns[top])
  BY DEF Formed, Form
<1>5. FormOf(ns2[top])
  BY <1>3, <1>4 DEF FormOf, FunctionKinds, LoopKinds
<1> QED
  BY <1>2, <1>3, <1>5 DEF Form, Link, FunctionKinds

(* The blocks that are open, when one is opened in the last of them.            *)
Opened(ns, op, ns2, op2) ==
  \/ op2 = op
  \/ \E x \in DOMAIN ns2 : /\ x > Len(ns) /\ ns2[x].kind = "block" /\ op2 = Append(op, x)

LEMMA PathOpens ==
  ASSUME NEW ns, Tree(ns), NEW op, Path(ns, op), NEW new, Fragment(Len(ns), new), NEW ns2,
         NEW top \in DOMAIN ns, Attached(ns, top, new, ns2), Under(ns, Last(op), top),
         NEW op2, Opened(ns, op, ns2, op2), AtEnd(ns2, Last(op2))
  PROVE  Path(ns2, op2)
<1> DEFINE last == Last(op)
<1>1. op \in Seq(DOMAIN ns) /\ Len(op) \in Nat /\ Len(op) >= 1 /\ DOMAIN op = 1 .. Len(op) /\ op[1] = 1
  BY DEF Path
<1>2. last = op[Len(op)] /\ last \in DOMAIN ns /\ Under(ns, last, top)
  BY <1>1 DEF Last
<1>3. \A i \in DOMAIN op : op[i] \in DOMAIN ns
  BY <1>1
<1> HIDE DEF last
<1>5. /\ \A n \in DOMAIN ns : AboveIn(ns2, n) = AboveIn(ns, n)
      /\ \A n \in DOMAIN ns2 : n > Len(ns) => \A s \in DOMAIN ns : s \in AboveIn(ns2, n) <=> Under(ns, s, top)
  BY AttachAbove
<1>6. \A n \in DOMAIN ns : n \in DOMAIN ns2 /\ ns2[n].kind = ns[n].kind
  BY DEF Attached
<1>7. CASE op2 = op
  <2>1. op2 \in Seq(DOMAIN ns2) /\ op2 # <<>> /\ op2[1] = 1
    BY <1>1, <1>6, <1>7
  <2>2. \A i \in DOMAIN op2 : ns2[op2[i]].kind = "block"
    BY <1>3, <1>6, <1>7 DEF Path
  <2>3. \A i \in 1 .. Len(op2) - 1 : op2[i] \in AboveIn(ns2, op2[i + 1])
    <3> SUFFICES ASSUME NEW i \in 1 .. Len(op) - 1
                 PROVE  op[i] \in AboveIn(ns2, op[i + 1])
      BY <1>7
    <3>1. i + 1 \in DOMAIN op
      BY <1>1
    <3>2. op[i + 1] \in DOMAIN ns
      BY <1>3, <3>1
    <3>3. op[i] \in AboveIn(ns, op[i + 1])
      BY DEF Path
    <3> QED
      BY <1>5, <3>2, <3>3
  <2> QED
    BY <2>1, <2>2, <2>3 DEF Path
<1>8. ASSUME NEW x \in DOMAIN ns2, x > Len(ns), ns2[x].kind = "block", op2 = Append(op, x)
      PROVE  Path(ns2, op2)
  <2>1. op \in Seq(DOMAIN ns2)
    BY <1>1, <1>6
  <2>2. /\ op2 \in Seq(DOMAIN ns2) /\ Len(op2) = Len(op) + 1 /\ DOMAIN op2 = 1 .. Len(op) + 1
        /\ op2[Len(op) + 1] = x /\ \A i \in 1 .. Len(op) : op2[i] = op[i]
    BY <1>1, <1>8, <2>1
  <2>3. op2 # <<>> /\ op2[1] = 1
    BY <1>1, <2>2
  <2>4. \A i \in DOMAIN op2 : ns2[op2[i]].kind = "block"
    <3> SUFFICES ASSUME NEW i \in DOMAIN op2
                 PROVE  ns2[op2[i]].kind = "block"
      OBVIOUS
    <3>1. CASE i = Len(op) + 1
      BY <1>8, <2>2, <3>1
    <3>2. CASE i # Len(op) + 1
      <4>1. i \in DOMAIN op /\ op2[i] = op[i]
        BY <1>1, <2>2, <3>2
      <4> QED
        BY <1>3, <1>6, <4>1 DEF Path
    <3> QED
      BY <3>1, <3>2
  <2>5. \A i \in 1 .. Len(op2) - 1 : op2[i] \in AboveIn(ns2, op2[i + 1])
    <3> SUFFICES ASSUME NEW i \in 1 .. Len(op)
                 PROVE  op2[i] \in AboveIn(ns2, op2[i + 1])
      BY <1>1, <2>2
    <3>1. CASE i = Len(op)
      <4>1. op2[i] = last /\ op2[i + 1] = x
        BY <1>1, <1>2, <2>2, <3>1
      <4>2. last \in AboveIn(ns2, x)
        BY <1>2, <1>5, <1>8
      <4> QED
        BY <4>1, <4>2
    <3>2. CASE i # Len(op)
      <4>5. Len(op) \in Nat /\ i \in 1 .. Len(op)
        BY <1>1
      <4>4. i \in 1 .. Len(op) - 1 /\ i + 1 \in 1 .. Len(op)
        BY ONLY <4>5, <3>2
      <4>1. i + 1 \in DOMAIN op /\ op2[i] = op[i] /\ op2[i + 1] = op[i + 1] /\ i \in 1 .. Len(op) - 1
        BY <1>1, <2>2, <4>4
      <4>2. op[i + 1] \in DOMAIN ns
        BY <1>3, <4>1
      <4>3. op[i] \in AboveIn(ns, op[i + 1])
        BY <4>1 DEF Path
      <4> QED
        BY <1>5, <4>1, <4>2, <4>3
    <3> QED
      BY <3>1, <3>2
  <2> QED
    BY <2>2, <2>3, <2>4, <2>5 DEF Path
<1> QED
  BY <1>7, <1>8 DEF Opened

(* A statement is written into the block the parser is in.                     *)
LEMMA WriteStep ==
  ASSUME TreeInv, NEW new, Write(new), Fragment(Len(nodes), new),
         new[1].parent = Top, new[1].function = 0,
         Attached(nodes, Top, new, nodes') => /\ Local(nodes', Len(nodes), new)
                                              /\ Opened(nodes, open, nodes', open')
  PROVE  TreeInv'
<1>1. Tree(nodes) /\ Formed(nodes) /\ Sorted(nodes) /\ Path(nodes, open)
  BY DEF TreeInv
<1>2. open \in Seq(DOMAIN nodes) /\ open # <<>>
  BY <1>1 DEF Path
<1>3. Top \in DOMAIN nodes /\ nodes[Top].kind = "block" /\ AtEnd(nodes, Top)
  <2>1. Len(open) \in DOMAIN open
    BY <1>2
  <2> QED
    BY <1>1, <1>2, <2>1 DEF Path, Top, Last
<1>4. nodes' = Attach(nodes, Top, new)
  BY DEF Write, New, Attach
<1>5. Attached(nodes, Top, new, nodes')
  BY <1>1, <1>3, <1>4, AttachIs
<1>6. Form(nodes', Top) /\ Link(nodes', Top, Len(nodes) + 1)
  BY <1>1, <1>3, <1>5, BlockHolds
<1>7. /\ Tree(nodes') /\ Formed(nodes') /\ Sorted(nodes')
      /\ \A x \in DOMAIN nodes' : nodes'[x].kind = "block" /\ (x = Top \/ x > Len(nodes)) => AtEnd(nodes', x)
  BY <1>1, <1>3, <1>5, <1>6, Grows
<1>8. Path(nodes', open')
  <2>1. Opened(nodes, open, nodes', open')
    BY <1>5
  <2>2. AtEnd(nodes', Last(open'))
    <3>1. CASE open' = open
      <4>1. Top \in DOMAIN nodes' /\ nodes'[Top].kind = "block"
        BY <1>3, <1>5 DEF Attached
      <4> QED
        BY <1>7, <3>1, <4>1 DEF Top
    <3>2. ASSUME NEW x \in DOMAIN nodes', x > Len(nodes), nodes'[x].kind = "block", open' = Append(open, x)
          PROVE  AtEnd(nodes', Last(open'))
      <4>1. Last(open') = x
        BY <1>2, <3>2 DEF Last
      <4> QED
        BY <1>7, <3>2, <4>1
    <3> QED
      BY <2>1, <3>1, <3>2 DEF Opened
  <2> QED
    BY ONLY <1>1, <1>3, <1>5, <2>1, <2>2, Fragment(Len(nodes), new), PathOpens DEF Top, Under
<1>9. language' \in Languages
  BY DEF Write, TreeInv
<1> QED
  BY <1>7, <1>8, <1>9 DEF TreeInv

LEMMA NodeFields ==
  ASSUME NEW kind \in NodeKinds, NEW parent \in Nat
  PROVE  /\ Node(kind, parent) \in NodeRecords /\ NoLook \in Looks
         /\ Node(kind, parent).kind = kind /\ Node(kind, parent).parent = parent
         /\ Node(kind, parent).body = <<>> /\ Node(kind, parent).value = NoLook
         /\ Node(kind, parent).type = None /\ Node(kind, parent).argument = None
         /\ Node(kind, parent).function = 0
<1>1. NoLook \in Looks
  BY DEF NoLook, Looks
<1>2. <<>> \in Seq(Nat)
  OBVIOUS
<1> QED
  BY <1>1, <1>2 DEF Node, NodeRecords

LEMMA TopIs ==
  ASSUME TreeInv
  PROVE  /\ Top \in DOMAIN nodes /\ Top \in Nat /\ nodes[Top].kind = "block" /\ AtEnd(nodes, Top)
         /\ Len(nodes) \in Nat /\ DOMAIN nodes = 1 .. Len(nodes) /\ New = Len(nodes) + 1
         /\ language \in Languages
<1>1. Tree(nodes) /\ Path(nodes, open) /\ language \in Languages
  BY DEF TreeInv
<1>2. open \in Seq(DOMAIN nodes) /\ open # <<>>
  BY <1>1 DEF Path
<1>3. Len(open) \in DOMAIN open /\ Len(nodes) \in Nat /\ DOMAIN nodes = 1 .. Len(nodes)
  BY <1>1, <1>2 DEF Tree
<1>4. Top = open[Len(open)] /\ Top \in DOMAIN nodes
  BY <1>2, <1>3 DEF Top, Last
<1> QED
  BY <1>1, <1>3, <1>4 DEF Path, New, Top

(* What a statement of the language may be written with.                        *)
LEMMA LanguageIs ==
  ASSUME TreeInv
  PROVE  /\ language.names \subseteq Names /\ language.types \subseteq Names \cup {None}
         /\ language.labels \subseteq Labels \cup {None} /\ language.modes \subseteq Modes
         /\ \A look \in Values : look \in Looks /\ (look = NoLook \/ look.mode = "get")
         /\ \A look \in [name : language.names, mode : language.modes] :
              look \in Looks /\ look.mode # "none"
<1>1. language \in Languages
  BY DEF TreeInv
<1>2. /\ language.names \subseteq Names /\ language.types \subseteq Names \cup {None}
      /\ language.labels \subseteq Labels \cup {None} /\ language.modes \subseteq Modes
  BY <1>1, LanguagesAssumption
<1>3. NoLook \in Looks
  BY DEF NoLook, Looks
<1>4. \A look \in Values : look \in Looks /\ (look = NoLook \/ look.mode = "get")
  BY <1>2, <1>3 DEF Values, Looks, Modes
<1>5. \A look \in [name : language.names, mode : language.modes] : look \in Looks /\ look.mode # "none"
  BY <1>2 DEF Looks, Modes
<1> QED
  BY <1>2, <1>4, <1>5

(* A statement of one node, and a block.                                       *)
LEMMA OneNode ==
  ASSUME NEW top, NEW node \in NodeRecords, node.body = <<>>, FormOf(node)
  PROVE  /\ Fragment(Len(nodes), <<node>>)
         /\ \A ns2 : Attached(nodes, top, <<node>>, ns2) => Local(ns2, Len(nodes), <<node>>)
<1>1. <<node>> \in Seq(NodeRecords) /\ Len(<<node>>) = 1 /\ DOMAIN <<node>> = {1} /\ <<node>>[1] = node
  OBVIOUS
<1>2. DOMAIN node.body = {}
  OBVIOUS
<1>3. Fragment(Len(nodes), <<node>>)
  BY <1>1, <1>2 DEF Fragment
<1>4. ASSUME NEW ns2, Attached(nodes, top, <<node>>, ns2)
      PROVE  Local(ns2, Len(nodes), <<node>>)
  <2>1. ns2[Len(nodes) + 1] = node
    BY <1>1, <1>4 DEF Attached
  <2>2. Form(ns2, Len(nodes) + 1)
    BY <1>2, <2>1 DEF Form
  <2> QED
    BY <1>1, <1>2, <2>2 DEF Local
<1> QED
  BY <1>3, <1>4

LEMMA LineStep ==
  ASSUME TreeInv, NEW node \in NodeRecords, node.body = <<>>, FormOf(node),
         node.parent = Top, node.function = 0, WriteLine(node)
  PROVE  TreeInv'
<1>1. Write(<<node>>) /\ open' = open
  BY DEF WriteLine
<1>2. <<node>>[1] = node
  OBVIOUS
<1>3. Opened(nodes, open, nodes', open')
  BY <1>1 DEF Opened
<1> QED
  BY <1>1, <1>2, <1>3, OneNode, WriteStep

LEMMA BlockStep ==
  ASSUME TreeInv, OpenBlock
  PROVE  TreeInv'
<1> DEFINE node == Line("block")
           x == Len(nodes) + 1
<1>1. Write(<<node>>) /\ open' = Append(open, x)
  BY DEF OpenBlock, WriteAround, New
<1>2. /\ node \in NodeRecords /\ node.body = <<>> /\ node.parent = Top /\ node.function = 0
      /\ node.kind = "block" /\ node.value = NoLook /\ node.type = None /\ node.argument = None
  BY TopIs, NodeFields DEF Line, NodeKinds
<1>3. <<node>>[1] = node /\ DOMAIN <<node>> = {1}
  OBVIOUS
<1> HIDE DEF node, x
<1>4. FormOf(node)
  BY <1>2 DEF FormOf, FunctionKinds, LoopKinds
<1>5. ASSUME Attached(nodes, Top, <<node>>, nodes')
      PROVE  Opened(nodes, open, nodes', open')
  <2>1. x \in DOMAIN nodes' /\ nodes'[x] = node
    BY <1>3, <1>5 DEF Attached, x
  <2>2. x > Len(nodes)
    BY TopIs DEF x
  <2> QED
    BY <1>1, <1>2, <2>1, <2>2 DEF Opened
<1> QED
  BY <1>1, <1>2, <1>3, <1>4, <1>5, OneNode, WriteStep

(* A statement with its block: the block knows it, or it is a function's.       *)
LEMMA TwoStep ==
  ASSUME TreeInv, NEW node \in NodeRecords, NEW block \in NodeRecords, node.body = <<New + 1>>,
         FormOf(node), node.parent = Top, node.function = 0,
         block.body = <<>>, FormOf(block), block.kind = "block",
         node.kind # "block",
         IF node.kind \in FunctionKinds THEN block.parent = 0 /\ block.function = New
                                        ELSE block.parent = New /\ block.function = 0,
         WriteAround(<<node, block>>, New + 1)
  PROVE  TreeInv'
<1> DEFINE new == <<node, block>>
           x == Len(nodes) + 1
           y == Len(nodes) + 2
<1>1. Len(nodes) \in Nat /\ DOMAIN nodes = 1 .. Len(nodes) /\ New = x /\ New + 1 = y
  BY TopIs
<1>2. Write(new) /\ open' = Append(open, y)
  BY <1>1 DEF WriteAround
<1>3. new \in Seq(NodeRecords) /\ Len(new) = 2 /\ DOMAIN new = {1, 2} /\ new[1] = node /\ new[2] = block
  OBVIOUS
<1>4. DOMAIN node.body = {1} /\ node.body[1] = y /\ Len(node.body) = 1 /\ DOMAIN block.body = {}
  BY <1>1
<1> HIDE DEF new
<1>5. Fragment(Len(nodes), new)
  <2>1. \A k \in DOMAIN new : \A i \in DOMAIN new[k].body :
          new[k].body[i] \in Len(nodes) + k + 1 .. Len(nodes) + Len(new)
    BY <1>1, <1>3, <1>4
  <2>2. \A k, q \in DOMAIN new : \A i \in DOMAIN new[k].body, j \in DOMAIN new[q].body :
          new[k].body[i] = new[q].body[j] => k = q /\ i = j
    BY <1>3, <1>4
  <2>3. \A k \in 2 .. Len(new) : \E q \in DOMAIN new : \E i \in DOMAIN new[q].body :
          new[q].body[i] = Len(nodes) + k
    <3>1. new[1].body[1] = Len(nodes) + 2 /\ 1 \in DOMAIN new /\ 1 \in DOMAIN new[1].body
      BY <1>3, <1>4
    <3>2. \A k \in 2 .. Len(new) : k = 2
      BY <1>3
    <3> QED
      BY <3>1, <3>2
  <2> QED
    BY <1>3, <2>1, <2>2, <2>3 DEF Fragment
<1>7. Top \in DOMAIN nodes /\ Tree(nodes)
  BY TopIs DEF TreeInv
<1>6. ASSUME Attached(nodes, Top, new, nodes')
      PROVE  Local(nodes', Len(nodes), new) /\ Opened(nodes, open, nodes', open')
  <2>1. x \in DOMAIN nodes' /\ y \in DOMAIN nodes' /\ nodes'[x] = node /\ nodes'[y] = block
    BY <1>3, <1>6 DEF Attached
  <2>2. HolderIn(nodes', x) = Top
    BY ONLY <1>5, <1>6, <1>7, AttachHolders DEF x
  <2>3. Form(nodes', x) /\ Form(nodes', y)
    BY <1>4, <2>1 DEF Form
  <2>4. Link(nodes', x, y)
    BY <1>1, <2>1, <2>2 DEF Link
  <2> HIDE DEF x, y
  <2>5. Local(nodes', Len(nodes), new)
    <3>1. /\ Form(nodes', Len(nodes) + 1) /\ Form(nodes', Len(nodes) + 2)
          /\ Link(nodes', Len(nodes) + 1, new[1].body[1])
      BY <1>3, <1>4, <2>3, <2>4 DEF x, y
    <3>2. DOMAIN new[1].body = {1} /\ Len(new[1].body) = 1 /\ DOMAIN new[2].body = {}
      BY <1>3, <1>4
    <3>3. \A k \in {1} : ~(1 < k)
      OBVIOUS
    <3> QED
      BY ONLY <1>3, <3>1, <3>2, <3>3 DEF Local
  <2>6. y > Len(nodes)
    BY <1>1 DEF y
  <2> QED
    BY <1>2, <2>1, <2>5, <2>6 DEF Opened
<1> HIDE DEF x, y
<1> QED
  BY <1>2, <1>3, <1>5, <1>6, WriteStep

(* Whose, and the how manieth of its statements, each new node is.                *)
Placed(size, new, P, I) ==
  /\ \A k \in DOMAIN new : \A i \in DOMAIN new[k].body :
       /\ new[k].body[i] \in size + k + 1 .. size + Len(new)
       /\ P[new[k].body[i] - size] = k /\ I[new[k].body[i] - size] = i
  /\ \A k \in 2 .. Len(new) :
       /\ P[k] \in DOMAIN new /\ I[k] \in DOMAIN new[P[k]].body
       /\ new[P[k]].body[I[k]] = size + k

LEMMA FragmentBy ==
  ASSUME NEW size, NEW new \in Seq(NodeRecords), Len(new) >= 1, NEW P, NEW I, Placed(size, new, P, I)
  PROVE  Fragment(size, new)
<1> USE DEF Placed
<1>1. \A k, q \in DOMAIN new : \A i \in DOMAIN new[k].body, j \in DOMAIN new[q].body :
        new[k].body[i] = new[q].body[j] => k = q /\ i = j
  <2> SUFFICES ASSUME NEW k \in DOMAIN new, NEW q \in DOMAIN new, NEW i \in DOMAIN new[k].body,
                      NEW j \in DOMAIN new[q].body, new[k].body[i] = new[q].body[j]
               PROVE  k = q /\ i = j
    OBVIOUS
  <2>1. P[new[k].body[i] - size] = k /\ I[new[k].body[i] - size] = i
    OBVIOUS
  <2>2. P[new[q].body[j] - size] = q /\ I[new[q].body[j] - size] = j
    OBVIOUS
  <2> QED
    BY ONLY <2>1, <2>2, new[k].body[i] = new[q].body[j]
<1>2. \A k \in 2 .. Len(new) : \E q \in DOMAIN new : \E i \in DOMAIN new[q].body : new[q].body[i] = size + k
  OBVIOUS
<1> QED
  BY <1>1, <1>2 DEF Fragment

(* A for of each form: loop { { body } step },                                 *)
LEMMA LoopWithStep ==
  ASSUME TreeInv, NEW head \in NodeRecords, NEW outer \in NodeRecords,
         NEW step \in NodeRecords, NEW inner \in NodeRecords,
         head.body = <<New + 1>>, FormOf(head), head.kind \in LoopKinds,
         head.parent = Top, head.function = 0,
         outer.body = <<New + 3, New + 2>>, FormOf(outer), outer.kind = "block",
         outer.parent = New, outer.function = 0,
         step.body = <<>>, FormOf(step), step.kind = "expression",
         step.parent = New + 1, step.function = 0,
         inner.body = <<>>, FormOf(inner), inner.kind = "block",
         inner.parent = New + 1, inner.function = 0,
         WriteAround(<<head, outer, step, inner>>, Len(nodes) + 4)
  PROVE  TreeInv'
<1> DEFINE new == <<head, outer, step, inner>>
           size == Len(nodes)
<1>1. size \in Nat /\ DOMAIN nodes = 1 .. size /\ Top \in DOMAIN nodes /\ Tree(nodes) /\ New = size + 1
  BY TopIs DEF TreeInv
<1>2. Write(new) /\ open' = Append(open, size + 4)
  BY DEF WriteAround
<1>3. /\ new \in Seq(NodeRecords) /\ Len(new) = 4 /\ DOMAIN new = {1, 2, 3, 4}
      /\ new[1] = head /\ new[2] = outer /\ new[3] = step /\ new[4] = inner
  OBVIOUS
<1> HIDE DEF new
<1>4. /\ DOMAIN new[1].body = {1} /\ Len(new[1].body) = 1 /\ new[1].body[1] = size + 2
      /\ DOMAIN new[2].body = {1, 2} /\ Len(new[2].body) = 2 /\ new[2].body[1] = size + 4 /\ new[2].body[2] = size + 3
      /\ DOMAIN new[3].body = {}
      /\ DOMAIN new[4].body = {}
  <2>1. DOMAIN new[1].body = {1} /\ Len(new[1].body) = 1 /\ new[1].body[1] = size + 2
    <3>1. new[1].body = <<size + 2>>
      BY <1>1, <1>3
    <3> QED
      BY ONLY <3>1
  <2>2. DOMAIN new[2].body = {1, 2} /\ Len(new[2].body) = 2 /\ new[2].body[1] = size + 4 /\ new[2].body[2] = size + 3
    <3>1. new[2].body = <<size + 4, size + 3>>
      BY <1>1, <1>3
    <3> QED
      BY ONLY <3>1
  <2>3. DOMAIN new[3].body = {}
    BY ONLY <1>3, step.body = <<>>
  <2>4. DOMAIN new[4].body = {}
    BY ONLY <1>3, inner.body = <<>>
  <2> QED
    BY ONLY <2>1, <2>2, <2>3, <2>4
<1> HIDE DEF size
<1>5. Fragment(size, new)
  <2> DEFINE P == <<1, 1, 2, 2>>
             I == <<1, 1, 2, 1>>
  <2>1. P[2] = 1 /\ P[3] = 2 /\ P[4] = 2
    OBVIOUS
  <2>2. I[2] = 1 /\ I[3] = 2 /\ I[4] = 1
    OBVIOUS
  <2> HIDE DEF P, I
  <2>3. ASSUME NEW k \in DOMAIN new, NEW i \in DOMAIN new[k].body
        PROVE  /\ new[k].body[i] \in size + k + 1 .. size + Len(new)
               /\ P[new[k].body[i] - size] = k /\ I[new[k].body[i] - size] = i
    <3>1. CASE k = 1 /\ i = 1
      <4>1. new[k].body[i] = size + 2 /\ (size + 2) - size = 2
        BY ONLY <1>1, <1>4, <3>1
      <4>2. new[k].body[i] \in size + k + 1 .. size + Len(new)
        BY ONLY <1>1, <1>3, <3>1, <4>1
      <4> QED
        BY ONLY <2>1, <2>2, <3>1, <4>1, <4>2
    <3>2. CASE k = 2 /\ i = 1
      <4>1. new[k].body[i] = size + 4 /\ (size + 4) - size = 4
        BY ONLY <1>1, <1>4, <3>2
      <4>2. new[k].body[i] \in size + k + 1 .. size + Len(new)
        BY ONLY <1>1, <1>3, <3>2, <4>1
      <4> QED
        BY ONLY <2>1, <2>2, <3>2, <4>1, <4>2
    <3>3. CASE k = 2 /\ i = 2
      <4>1. new[k].body[i] = size + 3 /\ (size + 3) - size = 3
        BY ONLY <1>1, <1>4, <3>3
      <4>2. new[k].body[i] \in size + k + 1 .. size + Len(new)
        BY ONLY <1>1, <1>3, <3>3, <4>1
      <4> QED
        BY ONLY <2>1, <2>2, <3>3, <4>1, <4>2
    <3>4. (k = 1 /\ i = 1) \/ (k = 2 /\ i = 1) \/ (k = 2 /\ i = 2)
      <4>1. k \in {1, 2, 3, 4} /\ i \in DOMAIN new[k].body
        BY ONLY <1>3, k \in DOMAIN new, i \in DOMAIN new[k].body
      <4>2. k = 1 => i = 1
        BY ONLY <1>4, <4>1
      <4>3. k = 2 => i = 1 \/ i = 2
        BY ONLY <1>4, <4>1
      <4>4. k # 3
        BY ONLY <1>4, <4>1
      <4>5. k # 4
        BY ONLY <1>4, <4>1
      <4>6. k = 1 \/ k = 2 \/ k = 3 \/ k = 4
        BY ONLY <4>1
      <4> QED
        BY ONLY <4>2, <4>3, <4>4, <4>5, <4>6
    <3> QED
      BY ONLY <3>1, <3>2, <3>3, <3>4
  <2>4. ASSUME NEW k \in 2 .. Len(new)
        PROVE  /\ P[k] \in DOMAIN new /\ I[k] \in DOMAIN new[P[k]].body
               /\ new[P[k]].body[I[k]] = size + k
    <3>1. k \in {2, 3, 4}
      BY ONLY <1>3, k \in 2 .. Len(new)
    <3> QED
      BY ONLY <1>3, <1>4, <2>1, <2>2, <3>1
  <2>5. new \in Seq(NodeRecords) /\ Len(new) >= 1
    BY <1>3
  <2>6. Placed(size, new, P, I)
    BY ONLY <2>3, <2>4 DEF Placed
  <2> QED
    BY ONLY <2>5, <2>6, FragmentBy
<1>6. ASSUME Attached(nodes, Top, new, nodes')
      PROVE  Local(nodes', size, new) /\ Opened(nodes, open, nodes', open')
  <2>1. /\ size + 1 \in DOMAIN nodes' /\ nodes'[size + 1] = head
        /\ size + 2 \in DOMAIN nodes' /\ nodes'[size + 2] = outer
        /\ size + 3 \in DOMAIN nodes' /\ nodes'[size + 3] = step
        /\ size + 4 \in DOMAIN nodes' /\ nodes'[size + 4] = inner
    BY <1>3, <1>6 DEF Attached, size
  <2>2. nodes'[size + 1].kind \notin FunctionKinds /\ nodes'[size + 2].kind \notin FunctionKinds /\ nodes'[size + 3].kind \notin FunctionKinds /\ nodes'[size + 4].kind \notin FunctionKinds
    BY <2>1 DEF FunctionKinds, LoopKinds
  <2>3. /\ Link(nodes', size + 1, new[1].body[1])
        /\ Link(nodes', size + 2, new[2].body[1])
        /\ Link(nodes', size + 2, new[2].body[2])
    BY <1>1, <1>4, <2>1, <2>2 DEF Link
  <2>4. /\ Form(nodes', size + 1)
        /\ Form(nodes', size + 2)
        /\ Form(nodes', size + 3)
        /\ Form(nodes', size + 4)
    <3>1. Form(nodes', size + 1)
      BY <1>3, <1>4, <2>1 DEF Form
    <3>2. Form(nodes', size + 2)
      BY <1>3, <1>4, <2>1 DEF Form
    <3>3. Form(nodes', size + 3)
      BY <1>3, <1>4, <2>1 DEF Form
    <3>4. Form(nodes', size + 4)
      BY <1>3, <1>4, <2>1 DEF Form
    <3> QED
      BY <3>1, <3>2, <3>3, <3>4
  <2>5. /\ nodes'[new[1].body[1]].kind \notin VariableKinds
        /\ nodes'[new[2].body[1]].kind \notin VariableKinds
        /\ nodes'[new[2].body[2]].kind \notin VariableKinds
    BY <1>4, <2>1 DEF VariableKinds, LoopKinds
  <2> DEFINE Right(k) ==
           /\ Form(nodes', size + k)
           /\ \A i \in DOMAIN new[k].body :
                /\ Link(nodes', size + k, new[k].body[i])
                /\ \/ i = Len(new[k].body)
                   \/ nodes'[new[k].body[i]].kind \in VariableKinds
                   \/ \A j \in DOMAIN new[k].body : nodes'[new[k].body[j]].kind \notin VariableKinds
                /\ \A j \in DOMAIN new[k].body : i < j =>
                     /\ nodes'[new[k].body[i]].kind \in VariableKinds => new[k].body[i] < new[k].body[j]
                     /\ nodes'[new[k].body[j]].kind \notin VariableKinds
  <2>6. Right(1)
    BY ONLY <1>4, <2>3, <2>4, <2>5
  <2>7. Right(2)
    BY ONLY <1>1, <1>4, <2>3, <2>4, <2>5
  <2>8. Right(3)
    BY ONLY <1>4, <2>3, <2>4, <2>5
  <2>9. Right(4)
    BY ONLY <1>4, <2>3, <2>4, <2>5
  <2>10. \A k \in DOMAIN new : Right(k)
    <3> HIDE DEF Right
    <3> QED
      BY ONLY <1>3, <2>6, <2>7, <2>8, <2>9
  <2>11. Local(nodes', size, new)
    BY ONLY <2>10 DEF Local
  <2>12. size + 4 > size
    BY <1>1
  <2> QED
    BY <1>2, <2>1, <2>11, <2>12 DEF Opened, size
<1> QED
  BY <1>2, <1>3, <1>5, <1>6, WriteStep DEF size

(* { init; loop { body } },                                                    *)
LEMMA LoopWithInit ==
  ASSUME TreeInv, NEW around \in NodeRecords, NEW init \in NodeRecords,
         NEW head \in NodeRecords, NEW inner \in NodeRecords,
         around.body = <<New + 1, New + 2>>, FormOf(around), around.kind = "block",
         around.parent = Top, around.function = 0,
         init.body = <<>>, FormOf(init), init.kind = "define",
         init.parent = New, init.function = 0,
         head.body = <<New + 3>>, FormOf(head), head.kind \in LoopKinds,
         head.parent = New, head.function = 0,
         inner.body = <<>>, FormOf(inner), inner.kind = "block",
         inner.parent = New + 2, inner.function = 0,
         WriteAround(<<around, init, head, inner>>, Len(nodes) + 4)
  PROVE  TreeInv'
<1> DEFINE new == <<around, init, head, inner>>
           size == Len(nodes)
<1>1. size \in Nat /\ DOMAIN nodes = 1 .. size /\ Top \in DOMAIN nodes /\ Tree(nodes) /\ New = size + 1
  BY TopIs DEF TreeInv
<1>2. Write(new) /\ open' = Append(open, size + 4)
  BY DEF WriteAround
<1>3. /\ new \in Seq(NodeRecords) /\ Len(new) = 4 /\ DOMAIN new = {1, 2, 3, 4}
      /\ new[1] = around /\ new[2] = init /\ new[3] = head /\ new[4] = inner
  OBVIOUS
<1> HIDE DEF new
<1>4. /\ DOMAIN new[1].body = {1, 2} /\ Len(new[1].body) = 2 /\ new[1].body[1] = size + 2 /\ new[1].body[2] = size + 3
      /\ DOMAIN new[2].body = {}
      /\ DOMAIN new[3].body = {1} /\ Len(new[3].body) = 1 /\ new[3].body[1] = size + 4
      /\ DOMAIN new[4].body = {}
  <2>1. DOMAIN new[1].body = {1, 2} /\ Len(new[1].body) = 2 /\ new[1].body[1] = size + 2 /\ new[1].body[2] = size + 3
    <3>1. new[1].body = <<size + 2, size + 3>>
      BY <1>1, <1>3
    <3> QED
      BY ONLY <3>1
  <2>2. DOMAIN new[2].body = {}
    BY ONLY <1>3, init.body = <<>>
  <2>3. DOMAIN new[3].body = {1} /\ Len(new[3].body) = 1 /\ new[3].body[1] = size + 4
    <3>1. new[3].body = <<size + 4>>
      BY <1>1, <1>3
    <3> QED
      BY ONLY <3>1
  <2>4. DOMAIN new[4].body = {}
    BY ONLY <1>3, inner.body = <<>>
  <2> QED
    BY ONLY <2>1, <2>2, <2>3, <2>4
<1> HIDE DEF size
<1>5. Fragment(size, new)
  <2> DEFINE P == <<1, 1, 1, 3>>
             I == <<1, 1, 2, 1>>
  <2>1. P[2] = 1 /\ P[3] = 1 /\ P[4] = 3
    OBVIOUS
  <2>2. I[2] = 1 /\ I[3] = 2 /\ I[4] = 1
    OBVIOUS
  <2> HIDE DEF P, I
  <2>3. ASSUME NEW k \in DOMAIN new, NEW i \in DOMAIN new[k].body
        PROVE  /\ new[k].body[i] \in size + k + 1 .. size + Len(new)
               /\ P[new[k].body[i] - size] = k /\ I[new[k].body[i] - size] = i
    <3>1. CASE k = 1 /\ i = 1
      <4>1. new[k].body[i] = size + 2 /\ (size + 2) - size = 2
        BY ONLY <1>1, <1>4, <3>1
      <4>2. new[k].body[i] \in size + k + 1 .. size + Len(new)
        BY ONLY <1>1, <1>3, <3>1, <4>1
      <4> QED
        BY ONLY <2>1, <2>2, <3>1, <4>1, <4>2
    <3>2. CASE k = 1 /\ i = 2
      <4>1. new[k].body[i] = size + 3 /\ (size + 3) - size = 3
        BY ONLY <1>1, <1>4, <3>2
      <4>2. new[k].body[i] \in size + k + 1 .. size + Len(new)
        BY ONLY <1>1, <1>3, <3>2, <4>1
      <4> QED
        BY ONLY <2>1, <2>2, <3>2, <4>1, <4>2
    <3>3. CASE k = 3 /\ i = 1
      <4>1. new[k].body[i] = size + 4 /\ (size + 4) - size = 4
        BY ONLY <1>1, <1>4, <3>3
      <4>2. new[k].body[i] \in size + k + 1 .. size + Len(new)
        BY ONLY <1>1, <1>3, <3>3, <4>1
      <4> QED
        BY ONLY <2>1, <2>2, <3>3, <4>1, <4>2
    <3>4. (k = 1 /\ i = 1) \/ (k = 1 /\ i = 2) \/ (k = 3 /\ i = 1)
      <4>1. k \in {1, 2, 3, 4} /\ i \in DOMAIN new[k].body
        BY ONLY <1>3, k \in DOMAIN new, i \in DOMAIN new[k].body
      <4>2. k = 1 => i = 1 \/ i = 2
        BY ONLY <1>4, <4>1
      <4>3. k # 2
        BY ONLY <1>4, <4>1
      <4>4. k = 3 => i = 1
        BY ONLY <1>4, <4>1
      <4>5. k # 4
        BY ONLY <1>4, <4>1
      <4>6. k = 1 \/ k = 2 \/ k = 3 \/ k = 4
        BY ONLY <4>1
      <4> QED
        BY ONLY <4>2, <4>3, <4>4, <4>5, <4>6
    <3> QED
      BY ONLY <3>1, <3>2, <3>3, <3>4
  <2>4. ASSUME NEW k \in 2 .. Len(new)
        PROVE  /\ P[k] \in DOMAIN new /\ I[k] \in DOMAIN new[P[k]].body
               /\ new[P[k]].body[I[k]] = size + k
    <3>1. k \in {2, 3, 4}
      BY ONLY <1>3, k \in 2 .. Len(new)
    <3> QED
      BY ONLY <1>3, <1>4, <2>1, <2>2, <3>1
  <2>5. new \in Seq(NodeRecords) /\ Len(new) >= 1
    BY <1>3
  <2>6. Placed(size, new, P, I)
    BY ONLY <2>3, <2>4 DEF Placed
  <2> QED
    BY ONLY <2>5, <2>6, FragmentBy
<1>6. ASSUME Attached(nodes, Top, new, nodes')
      PROVE  Local(nodes', size, new) /\ Opened(nodes, open, nodes', open')
  <2>1. /\ size + 1 \in DOMAIN nodes' /\ nodes'[size + 1] = around
        /\ size + 2 \in DOMAIN nodes' /\ nodes'[size + 2] = init
        /\ size + 3 \in DOMAIN nodes' /\ nodes'[size + 3] = head
        /\ size + 4 \in DOMAIN nodes' /\ nodes'[size + 4] = inner
    BY <1>3, <1>6 DEF Attached, size
  <2>2. nodes'[size + 1].kind \notin FunctionKinds /\ nodes'[size + 2].kind \notin FunctionKinds /\ nodes'[size + 3].kind \notin FunctionKinds /\ nodes'[size + 4].kind \notin FunctionKinds
    BY <2>1 DEF FunctionKinds, LoopKinds
  <2>3. /\ Link(nodes', size + 1, new[1].body[1])
        /\ Link(nodes', size + 1, new[1].body[2])
        /\ Link(nodes', size + 3, new[3].body[1])
    BY <1>1, <1>4, <2>1, <2>2 DEF Link
  <2>4. /\ Form(nodes', size + 1)
        /\ Form(nodes', size + 2)
        /\ Form(nodes', size + 3)
        /\ Form(nodes', size + 4)
    <3>1. Form(nodes', size + 1)
      BY <1>3, <1>4, <2>1 DEF Form
    <3>2. Form(nodes', size + 2)
      BY <1>3, <1>4, <2>1 DEF Form
    <3>3. Form(nodes', size + 3)
      BY <1>3, <1>4, <2>1 DEF Form
    <3>4. Form(nodes', size + 4)
      BY <1>3, <1>4, <2>1 DEF Form
    <3> QED
      BY <3>1, <3>2, <3>3, <3>4
  <2>5. /\ nodes'[new[1].body[1]].kind \in VariableKinds
        /\ nodes'[new[1].body[2]].kind \notin VariableKinds
        /\ nodes'[new[3].body[1]].kind \notin VariableKinds
    BY <1>4, <2>1 DEF VariableKinds, LoopKinds
  <2> DEFINE Right(k) ==
           /\ Form(nodes', size + k)
           /\ \A i \in DOMAIN new[k].body :
                /\ Link(nodes', size + k, new[k].body[i])
                /\ \/ i = Len(new[k].body)
                   \/ nodes'[new[k].body[i]].kind \in VariableKinds
                   \/ \A j \in DOMAIN new[k].body : nodes'[new[k].body[j]].kind \notin VariableKinds
                /\ \A j \in DOMAIN new[k].body : i < j =>
                     /\ nodes'[new[k].body[i]].kind \in VariableKinds => new[k].body[i] < new[k].body[j]
                     /\ nodes'[new[k].body[j]].kind \notin VariableKinds
  <2>6. Right(1)
    <3>1. /\ ~(1 < 1) /\ ~(2 < 1) /\ ~(2 < 2) /\ size + 2 < size + 3 /\ new[1].body[1] < new[1].body[2]
      BY ONLY <1>1, <1>4
    <3>2. \A j \in DOMAIN new[1].body : 2 < j => FALSE
      BY ONLY <1>4, <3>1
    <3>3. \A j \in DOMAIN new[1].body : 1 < j => j = 2
      BY ONLY <1>4, <3>1
    <3>4. ASSUME NEW i \in DOMAIN new[1].body
          PROVE  /\ Link(nodes', size + 1, new[1].body[i])
                 /\ nodes'[new[1].body[2]].kind \notin VariableKinds
                 /\ i = 1 \/ i = 2
      BY ONLY <1>4, <2>3, <2>5
    <3>5. ASSUME NEW i \in DOMAIN new[1].body
          PROVE  i = Len(new[1].body) \/ nodes'[new[1].body[i]].kind \in VariableKinds
      BY ONLY <1>4, <2>5, <3>4
    <3> QED
      BY ONLY <2>4, <3>1, <3>2, <3>3, <3>4, <3>5
  <2>7. Right(2)
    BY ONLY <1>4, <2>3, <2>4, <2>5
  <2>8. Right(3)
    BY ONLY <1>4, <2>3, <2>4, <2>5
  <2>9. Right(4)
    BY ONLY <1>4, <2>3, <2>4, <2>5
  <2>10. \A k \in DOMAIN new : Right(k)
    <3> HIDE DEF Right
    <3> QED
      BY ONLY <1>3, <2>6, <2>7, <2>8, <2>9
  <2>11. Local(nodes', size, new)
    BY ONLY <2>10 DEF Local
  <2>12. size + 4 > size
    BY <1>1
  <2> QED
    BY <1>2, <2>1, <2>11, <2>12 DEF Opened, size
<1> QED
  BY <1>2, <1>3, <1>5, <1>6, WriteStep DEF size

(* and { init; loop { { body } step } }.                                        *)
LEMMA LoopWithBoth ==
  ASSUME TreeInv, NEW around \in NodeRecords, NEW init \in NodeRecords,
         NEW head \in NodeRecords, NEW outer \in NodeRecords, NEW step \in NodeRecords, NEW inner \in NodeRecords,
         around.body = <<New + 1, New + 2>>, FormOf(around), around.kind = "block",
         around.parent = Top, around.function = 0,
         init.body = <<>>, FormOf(init), init.kind = "define",
         init.parent = New, init.function = 0,
         head.body = <<New + 3>>, FormOf(head), head.kind \in LoopKinds,
         head.parent = New, head.function = 0,
         outer.body = <<New + 5, New + 4>>, FormOf(outer), outer.kind = "block",
         outer.parent = New + 2, outer.function = 0,
         step.body = <<>>, FormOf(step), step.kind = "expression",
         step.parent = New + 3, step.function = 0,
         inner.body = <<>>, FormOf(inner), inner.kind = "block",
         inner.parent = New + 3, inner.function = 0,
         WriteAround(<<around, init, head, outer, step, inner>>, Len(nodes) + 6)
  PROVE  TreeInv'
<1> DEFINE new == <<around, init, head, outer, step, inner>>
           size == Len(nodes)
<1>1. size \in Nat /\ DOMAIN nodes = 1 .. size /\ Top \in DOMAIN nodes /\ Tree(nodes) /\ New = size + 1
  BY TopIs DEF TreeInv
<1>2. Write(new) /\ open' = Append(open, size + 6)
  BY DEF WriteAround
<1>3. /\ new \in Seq(NodeRecords) /\ Len(new) = 6 /\ DOMAIN new = {1, 2, 3, 4, 5, 6}
      /\ new[1] = around /\ new[2] = init /\ new[3] = head /\ new[4] = outer /\ new[5] = step /\ new[6] = inner
  OBVIOUS
<1> HIDE DEF new
<1>4. /\ DOMAIN new[1].body = {1, 2} /\ Len(new[1].body) = 2 /\ new[1].body[1] = size + 2 /\ new[1].body[2] = size + 3
      /\ DOMAIN new[2].body = {}
      /\ DOMAIN new[3].body = {1} /\ Len(new[3].body) = 1 /\ new[3].body[1] = size + 4
      /\ DOMAIN new[4].body = {1, 2} /\ Len(new[4].body) = 2 /\ new[4].body[1] = size + 6 /\ new[4].body[2] = size + 5
      /\ DOMAIN new[5].body = {}
      /\ DOMAIN new[6].body = {}
  <2>1. DOMAIN new[1].body = {1, 2} /\ Len(new[1].body) = 2 /\ new[1].body[1] = size + 2 /\ new[1].body[2] = size + 3
    <3>1. new[1].body = <<size + 2, size + 3>>
      BY <1>1, <1>3
    <3> QED
      BY ONLY <3>1
  <2>2. DOMAIN new[2].body = {}
    BY ONLY <1>3, init.body = <<>>
  <2>3. DOMAIN new[3].body = {1} /\ Len(new[3].body) = 1 /\ new[3].body[1] = size + 4
    <3>1. new[3].body = <<size + 4>>
      BY <1>1, <1>3
    <3> QED
      BY ONLY <3>1
  <2>4. DOMAIN new[4].body = {1, 2} /\ Len(new[4].body) = 2 /\ new[4].body[1] = size + 6 /\ new[4].body[2] = size + 5
    <3>1. new[4].body = <<size + 6, size + 5>>
      BY <1>1, <1>3
    <3> QED
      BY ONLY <3>1
  <2>5. DOMAIN new[5].body = {}
    BY ONLY <1>3, step.body = <<>>
  <2>6. DOMAIN new[6].body = {}
    BY ONLY <1>3, inner.body = <<>>
  <2> QED
    BY ONLY <2>1, <2>2, <2>3, <2>4, <2>5, <2>6
<1> HIDE DEF size
<1>5. Fragment(size, new)
  <2> DEFINE P == <<1, 1, 1, 3, 4, 4>>
             I == <<1, 1, 2, 1, 2, 1>>
  <2>1. P[2] = 1 /\ P[3] = 1 /\ P[4] = 3 /\ P[5] = 4 /\ P[6] = 4
    OBVIOUS
  <2>2. I[2] = 1 /\ I[3] = 2 /\ I[4] = 1 /\ I[5] = 2 /\ I[6] = 1
    OBVIOUS
  <2> HIDE DEF P, I
  <2>3. ASSUME NEW k \in DOMAIN new, NEW i \in DOMAIN new[k].body
        PROVE  /\ new[k].body[i] \in size + k + 1 .. size + Len(new)
               /\ P[new[k].body[i] - size] = k /\ I[new[k].body[i] - size] = i
    <3>1. CASE k = 1 /\ i = 1
      <4>1. new[k].body[i] = size + 2 /\ (size + 2) - size = 2
        BY ONLY <1>1, <1>4, <3>1
      <4>2. new[k].body[i] \in size + k + 1 .. size + Len(new)
        BY ONLY <1>1, <1>3, <3>1, <4>1
      <4> QED
        BY ONLY <2>1, <2>2, <3>1, <4>1, <4>2
    <3>2. CASE k = 1 /\ i = 2
      <4>1. new[k].body[i] = size + 3 /\ (size + 3) - size = 3
        BY ONLY <1>1, <1>4, <3>2
      <4>2. new[k].body[i] \in size + k + 1 .. size + Len(new)
        BY ONLY <1>1, <1>3, <3>2, <4>1
      <4> QED
        BY ONLY <2>1, <2>2, <3>2, <4>1, <4>2
    <3>3. CASE k = 3 /\ i = 1
      <4>1. new[k].body[i] = size + 4 /\ (size + 4) - size = 4
        BY ONLY <1>1, <1>4, <3>3
      <4>2. new[k].body[i] \in size + k + 1 .. size + Len(new)
        BY ONLY <1>1, <1>3, <3>3, <4>1
      <4> QED
        BY ONLY <2>1, <2>2, <3>3, <4>1, <4>2
    <3>4. CASE k = 4 /\ i = 1
      <4>1. new[k].body[i] = size + 6 /\ (size + 6) - size = 6
        BY ONLY <1>1, <1>4, <3>4
      <4>2. new[k].body[i] \in size + k + 1 .. size + Len(new)
        BY ONLY <1>1, <1>3, <3>4, <4>1
      <4> QED
        BY ONLY <2>1, <2>2, <3>4, <4>1, <4>2
    <3>5. CASE k = 4 /\ i = 2
      <4>1. new[k].body[i] = size + 5 /\ (size + 5) - size = 5
        BY ONLY <1>1, <1>4, <3>5
      <4>2. new[k].body[i] \in size + k + 1 .. size + Len(new)
        BY ONLY <1>1, <1>3, <3>5, <4>1
      <4> QED
        BY ONLY <2>1, <2>2, <3>5, <4>1, <4>2
    <3>6. (k = 1 /\ i = 1) \/ (k = 1 /\ i = 2) \/ (k = 3 /\ i = 1) \/ (k = 4 /\ i = 1) \/ (k = 4 /\ i = 2)
      <4>1. k \in {1, 2, 3, 4, 5, 6} /\ i \in DOMAIN new[k].body
        BY ONLY <1>3, k \in DOMAIN new, i \in DOMAIN new[k].body
      <4>2. k = 1 => i = 1 \/ i = 2
        BY ONLY <1>4, <4>1
      <4>3. k # 2
        BY ONLY <1>4, <4>1
      <4>4. k = 3 => i = 1
        BY ONLY <1>4, <4>1
      <4>5. k = 4 => i = 1 \/ i = 2
        BY ONLY <1>4, <4>1
      <4>6. k # 5
        BY ONLY <1>4, <4>1
      <4>7. k # 6
        BY ONLY <1>4, <4>1
      <4>8. k = 1 \/ k = 2 \/ k = 3 \/ k = 4 \/ k = 5 \/ k = 6
        BY ONLY <4>1
      <4> QED
        BY ONLY <4>2, <4>3, <4>4, <4>5, <4>6, <4>7, <4>8
    <3> QED
      BY ONLY <3>1, <3>2, <3>3, <3>4, <3>5, <3>6
  <2>4. ASSUME NEW k \in 2 .. Len(new)
        PROVE  /\ P[k] \in DOMAIN new /\ I[k] \in DOMAIN new[P[k]].body
               /\ new[P[k]].body[I[k]] = size + k
    <3>1. k \in {2, 3, 4, 5, 6}
      BY ONLY <1>3, k \in 2 .. Len(new)
    <3> QED
      BY ONLY <1>3, <1>4, <2>1, <2>2, <3>1
  <2>5. new \in Seq(NodeRecords) /\ Len(new) >= 1
    BY <1>3
  <2>6. Placed(size, new, P, I)
    BY ONLY <2>3, <2>4 DEF Placed
  <2> QED
    BY ONLY <2>5, <2>6, FragmentBy
<1>6. ASSUME Attached(nodes, Top, new, nodes')
      PROVE  Local(nodes', size, new) /\ Opened(nodes, open, nodes', open')
  <2>1. /\ size + 1 \in DOMAIN nodes' /\ nodes'[size + 1] = around
        /\ size + 2 \in DOMAIN nodes' /\ nodes'[size + 2] = init
        /\ size + 3 \in DOMAIN nodes' /\ nodes'[size + 3] = head
        /\ size + 4 \in DOMAIN nodes' /\ nodes'[size + 4] = outer
        /\ size + 5 \in DOMAIN nodes' /\ nodes'[size + 5] = step
        /\ size + 6 \in DOMAIN nodes' /\ nodes'[size + 6] = inner
    BY <1>3, <1>6 DEF Attached, size
  <2>2. nodes'[size + 1].kind \notin FunctionKinds /\ nodes'[size + 2].kind \notin FunctionKinds /\ nodes'[size + 3].kind \notin FunctionKinds /\ nodes'[size + 4].kind \notin FunctionKinds /\ nodes'[size + 5].kind \notin FunctionKinds /\ nodes'[size + 6].kind \notin FunctionKinds
    BY <2>1 DEF FunctionKinds, LoopKinds
  <2>3. /\ Link(nodes', size + 1, new[1].body[1])
        /\ Link(nodes', size + 1, new[1].body[2])
        /\ Link(nodes', size + 3, new[3].body[1])
        /\ Link(nodes', size + 4, new[4].body[1])
        /\ Link(nodes', size + 4, new[4].body[2])
    BY <1>1, <1>4, <2>1, <2>2 DEF Link
  <2>4. /\ Form(nodes', size + 1)
        /\ Form(nodes', size + 2)
        /\ Form(nodes', size + 3)
        /\ Form(nodes', size + 4)
        /\ Form(nodes', size + 5)
        /\ Form(nodes', size + 6)
    <3>1. Form(nodes', size + 1)
      BY <1>3, <1>4, <2>1 DEF Form
    <3>2. Form(nodes', size + 2)
      BY <1>3, <1>4, <2>1 DEF Form
    <3>3. Form(nodes', size + 3)
      BY <1>3, <1>4, <2>1 DEF Form
    <3>4. Form(nodes', size + 4)
      BY <1>3, <1>4, <2>1 DEF Form
    <3>5. Form(nodes', size + 5)
      BY <1>3, <1>4, <2>1 DEF Form
    <3>6. Form(nodes', size + 6)
      BY <1>3, <1>4, <2>1 DEF Form
    <3> QED
      BY <3>1, <3>2, <3>3, <3>4, <3>5, <3>6
  <2>5. /\ nodes'[new[1].body[1]].kind \in VariableKinds
        /\ nodes'[new[1].body[2]].kind \notin VariableKinds
        /\ nodes'[new[3].body[1]].kind \notin VariableKinds
        /\ nodes'[new[4].body[1]].kind \notin VariableKinds
        /\ nodes'[new[4].body[2]].kind \notin VariableKinds
    BY <1>4, <2>1 DEF VariableKinds, LoopKinds
  <2> DEFINE Right(k) ==
           /\ Form(nodes', size + k)
           /\ \A i \in DOMAIN new[k].body :
                /\ Link(nodes', size + k, new[k].body[i])
                /\ \/ i = Len(new[k].body)
                   \/ nodes'[new[k].body[i]].kind \in VariableKinds
                   \/ \A j \in DOMAIN new[k].body : nodes'[new[k].body[j]].kind \notin VariableKinds
                /\ \A j \in DOMAIN new[k].body : i < j =>
                     /\ nodes'[new[k].body[i]].kind \in VariableKinds => new[k].body[i] < new[k].body[j]
                     /\ nodes'[new[k].body[j]].kind \notin VariableKinds
  <2>6. Right(1)
    <3>1. /\ ~(1 < 1) /\ ~(2 < 1) /\ ~(2 < 2) /\ size + 2 < size + 3 /\ new[1].body[1] < new[1].body[2]
      BY ONLY <1>1, <1>4
    <3>2. \A j \in DOMAIN new[1].body : 2 < j => FALSE
      BY ONLY <1>4, <3>1
    <3>3. \A j \in DOMAIN new[1].body : 1 < j => j = 2
      BY ONLY <1>4, <3>1
    <3>4. ASSUME NEW i \in DOMAIN new[1].body
          PROVE  /\ Link(nodes', size + 1, new[1].body[i])
                 /\ nodes'[new[1].body[2]].kind \notin VariableKinds
                 /\ i = 1 \/ i = 2
      BY ONLY <1>4, <2>3, <2>5
    <3>5. ASSUME NEW i \in DOMAIN new[1].body
          PROVE  i = Len(new[1].body) \/ nodes'[new[1].body[i]].kind \in VariableKinds
      BY ONLY <1>4, <2>5, <3>4
    <3> QED
      BY ONLY <2>4, <3>1, <3>2, <3>3, <3>4, <3>5
  <2>7. Right(2)
    BY ONLY <1>4, <2>3, <2>4, <2>5
  <2>8. Right(3)
    BY ONLY <1>4, <2>3, <2>4, <2>5
  <2>9. Right(4)
    BY ONLY <1>1, <1>4, <2>3, <2>4, <2>5
  <2>10. Right(5)
    BY ONLY <1>4, <2>3, <2>4, <2>5
  <2>11. Right(6)
    BY ONLY <1>4, <2>3, <2>4, <2>5
  <2>12. \A k \in DOMAIN new : Right(k)
    <3> HIDE DEF Right
    <3> QED
      BY ONLY <1>3, <2>6, <2>7, <2>8, <2>9, <2>10, <2>11
  <2>13. Local(nodes', size, new)
    BY ONLY <2>12 DEF Local
  <2>14. size + 6 > size
    BY <1>1
  <2> QED
    BY <1>2, <2>1, <2>13, <2>14 DEF Opened, size
<1> QED
  BY <1>2, <1>3, <1>5, <1>6, WriteStep DEF size

LEMMA WriteExpressionStep ==
  ASSUME TreeInv, WriteExpression
  PROVE  TreeInv'
<1>1. PICK look \in [name : language.names, mode : language.modes] :
        WriteLine([Line("expression") EXCEPT !.value = look])
  BY DEF WriteExpression
<1> DEFINE base == Line("expression")
           node == [base EXCEPT !.value = look]
<1>2. /\ base \in NodeRecords /\ base.body = <<>> /\ base.parent = Top /\ base.function = 0
      /\ base.kind = "expression" /\ base.value = NoLook /\ base.type = None /\ base.argument = None
  BY TopIs, NodeFields DEF Line, NodeKinds
<1> HIDE DEF base
<1>3. /\ node \in NodeRecords /\ node.body = <<>> /\ node.parent = Top /\ node.function = 0
      /\ node.kind = "expression" /\ node.argument = None
      /\ node.value = look /\ node.type = None
  BY <1>2, LanguageIs DEF NodeRecords
<1>4. WriteLine(node)
  BY <1>1 DEF base
<1> HIDE DEF node
<1>5. FormOf(node)
  BY <1>3, LanguageIs DEF FormOf, FunctionKinds, LoopKinds, VariableKinds
<1> QED
  BY <1>3, <1>4, <1>5, LineStep

LEMMA WriteLetStep ==
  ASSUME TreeInv, WriteLet
  PROVE  TreeInv'
<1>1. PICK name \in language.names, look \in Values :
        WriteLine([Line("let") EXCEPT !.name = name, !.value = look])
  BY DEF WriteLet
<1> DEFINE base == Line("let")
           node == [base EXCEPT !.name = name, !.value = look]
<1>2. /\ base \in NodeRecords /\ base.body = <<>> /\ base.parent = Top /\ base.function = 0
      /\ base.kind = "let" /\ base.value = NoLook /\ base.type = None /\ base.argument = None
  BY TopIs, NodeFields DEF Line, NodeKinds, VariableKinds
<1> HIDE DEF base
<1>3. /\ node \in NodeRecords /\ node.body = <<>> /\ node.parent = Top /\ node.function = 0
      /\ node.kind = "let" /\ node.argument = None
      /\ node.value = look /\ node.type = None
  BY <1>2, LanguageIs DEF NodeRecords
<1>4. WriteLine(node)
  BY <1>1 DEF base
<1> HIDE DEF node
<1>5. FormOf(node)
  BY <1>3, LanguageIs DEF FormOf, FunctionKinds, LoopKinds, VariableKinds
<1> QED
  BY <1>3, <1>4, <1>5, LineStep

LEMMA WriteDefineStep ==
  ASSUME TreeInv, WriteDefine
  PROVE  TreeInv'
<1>1. PICK name \in language.names, type \in language.types, look \in Values :
        WriteLine([Line("define") EXCEPT !.name = name, !.type = type, !.value = look])
  BY DEF WriteDefine
<1> DEFINE base == Line("define")
           node == [base EXCEPT !.name = name, !.type = type, !.value = look]
<1>2. /\ base \in NodeRecords /\ base.body = <<>> /\ base.parent = Top /\ base.function = 0
      /\ base.kind = "define" /\ base.value = NoLook /\ base.type = None /\ base.argument = None
  BY TopIs, NodeFields DEF Line, NodeKinds, VariableKinds
<1> HIDE DEF base
<1>3. /\ node \in NodeRecords /\ node.body = <<>> /\ node.parent = Top /\ node.function = 0
      /\ node.kind = "define" /\ node.argument = None
      /\ node.value = look /\ node.type = type
  BY <1>2, LanguageIs DEF NodeRecords
<1>4. WriteLine(node)
  BY <1>1 DEF base
<1> HIDE DEF node
<1>5. FormOf(node)
  BY <1>3, LanguageIs DEF FormOf, FunctionKinds, LoopKinds, VariableKinds
<1> QED
  BY <1>3, <1>4, <1>5, LineStep

LEMMA WriteClassStep ==
  ASSUME TreeInv, WriteClass
  PROVE  TreeInv'
<1>1. PICK name \in language.names, type \in language.types :
        WriteLine([Line("class") EXCEPT !.name = name, !.type = type])
  BY DEF WriteClass
<1> DEFINE base == Line("class")
           node == [base EXCEPT !.name = name, !.type = type]
<1>2. /\ base \in NodeRecords /\ base.body = <<>> /\ base.parent = Top /\ base.function = 0
      /\ base.kind = "class" /\ base.value = NoLook /\ base.type = None /\ base.argument = None
  BY TopIs, NodeFields DEF Line, NodeKinds
<1> HIDE DEF base
<1>3. /\ node \in NodeRecords /\ node.body = <<>> /\ node.parent = Top /\ node.function = 0
      /\ node.kind = "class" /\ node.argument = None
      /\ node.value = NoLook /\ node.type = type
  BY <1>2, LanguageIs DEF NodeRecords
<1>4. WriteLine(node)
  BY <1>1 DEF base
<1> HIDE DEF node
<1>5. FormOf(node)
  BY <1>3, LanguageIs DEF FormOf, FunctionKinds, LoopKinds, VariableKinds
<1> QED
  BY <1>3, <1>4, <1>5, LineStep

LEMMA WriteControlStep ==
  ASSUME TreeInv, WriteControl
  PROVE  TreeInv'
<1>1. PICK label \in language.labels :
        WriteLine([Line("control") EXCEPT !.label = label])
  BY DEF WriteControl
<1> DEFINE base == Line("control")
           node == [base EXCEPT !.label = label]
<1>2. /\ base \in NodeRecords /\ base.body = <<>> /\ base.parent = Top /\ base.function = 0
      /\ base.kind = "control" /\ base.value = NoLook /\ base.type = None /\ base.argument = None
  BY TopIs, NodeFields DEF Line, NodeKinds
<1> HIDE DEF base
<1>3. /\ node \in NodeRecords /\ node.body = <<>> /\ node.parent = Top /\ node.function = 0
      /\ node.kind = "control" /\ node.argument = None
      /\ node.value = NoLook /\ node.type = None
  BY <1>2, LanguageIs DEF NodeRecords
<1>4. WriteLine(node)
  BY <1>1 DEF base
<1> HIDE DEF node
<1>5. FormOf(node)
  BY <1>3, LanguageIs DEF FormOf, FunctionKinds, LoopKinds, VariableKinds
<1> QED
  BY <1>3, <1>4, <1>5, LineStep

LEMMA WriteReturnStep ==
  ASSUME TreeInv, WriteReturn
  PROVE  TreeInv'
<1>1. PICK look \in Values :
        WriteLine([Line("return") EXCEPT !.value = look])
  BY DEF WriteReturn
<1> DEFINE base == Line("return")
           node == [base EXCEPT !.value = look]
<1>2. /\ base \in NodeRecords /\ base.body = <<>> /\ base.parent = Top /\ base.function = 0
      /\ base.kind = "return" /\ base.value = NoLook /\ base.type = None /\ base.argument = None
  BY TopIs, NodeFields DEF Line, NodeKinds
<1> HIDE DEF base
<1>3. /\ node \in NodeRecords /\ node.body = <<>> /\ node.parent = Top /\ node.function = 0
      /\ node.kind = "return" /\ node.argument = None
      /\ node.value = look /\ node.type = None
  BY <1>2, LanguageIs DEF NodeRecords
<1>4. WriteLine(node)
  BY <1>1 DEF base
<1> HIDE DEF node
<1>5. FormOf(node)
  BY <1>3, LanguageIs DEF FormOf, FunctionKinds, LoopKinds, VariableKinds
<1> QED
  BY <1>3, <1>4, <1>5, LineStep

LEMMA WriteEmptyReturnStep ==
  ASSUME TreeInv, WriteEmptyReturn
  PROVE  TreeInv'
<1> DEFINE node == Line("return nothing")
<1>2. /\ node \in NodeRecords /\ node.body = <<>> /\ node.parent = Top /\ node.function = 0
      /\ node.kind = "return nothing" /\ node.value = NoLook /\ node.type = None /\ node.argument = None
  BY TopIs, NodeFields DEF Line, NodeKinds, LoopKinds
<1>3. WriteLine(node)
  BY DEF WriteEmptyReturn
<1> HIDE DEF node
<1>4. FormOf(node)
  BY <1>2 DEF FormOf, FunctionKinds, LoopKinds, VariableKinds
<1> QED
  BY <1>2, <1>3, <1>4, LineStep

LEMMA WriteEmptyLoopStep ==
  ASSUME TreeInv, WriteEmptyLoop
  PROVE  TreeInv'
<1>1. PICK kind \in LoopKinds : WriteLine(Line(kind))
  BY DEF WriteEmptyLoop
<1> DEFINE node == Line(kind)
<1>2. /\ node \in NodeRecords /\ node.body = <<>> /\ node.parent = Top /\ node.function = 0
      /\ node.kind = kind /\ node.value = NoLook /\ node.type = None /\ node.argument = None
  BY TopIs, NodeFields DEF Line, NodeKinds, LoopKinds
<1>3. WriteLine(node)
  BY <1>1
<1> HIDE DEF node
<1>4. FormOf(node)
  BY <1>2 DEF FormOf, FunctionKinds, LoopKinds, VariableKinds
<1> QED
  BY <1>2, <1>3, <1>4, LineStep

LEMMA OpenFunctionStep ==
  ASSUME TreeInv, OpenFunction
  PROVE  TreeInv'
<1>1. PICK name \in language.names, argument \in {None} \cup language.names, type \in language.types :
        WriteFunction([Line("function") EXCEPT !.name = name, !.argument = argument, !.type = type])
  BY DEF OpenFunction
<1> DEFINE base == Line("function")
           line == [base EXCEPT !.name = name, !.argument = argument, !.type = type]
           node == [line EXCEPT !.body = <<New + 1>>]
           inner == Node("block", 0)
           block == [inner EXCEPT !.function = New]
<1>2. /\ base \in NodeRecords /\ base.parent = Top /\ base.function = 0 /\ base.kind = "function"
      /\ base.value = NoLook /\ base.type = None
  BY TopIs, NodeFields DEF Line, NodeKinds, FunctionKinds
<1>3. /\ inner \in NodeRecords /\ inner.parent = 0 /\ inner.kind = "block" /\ inner.body = <<>>
      /\ inner.value = NoLook /\ inner.type = None /\ inner.argument = None
  <2>1. "block" \in NodeKinds /\ 0 \in Nat
    BY DEF NodeKinds
  <2> QED
    BY <2>1, NodeFields
<1>4. New \in Nat /\ <<New + 1>> \in Seq(Nat) /\ Len(<<New + 1>>) = 1
  BY TopIs
<1> HIDE DEF base, inner
<1>5. /\ line \in NodeRecords /\ line.parent = Top /\ line.function = 0 /\ line.kind = "function"
      /\ line.value = NoLook
      /\ line.type \in Names \cup {None}
  BY <1>2, LanguageIs DEF NodeRecords
<1> HIDE DEF line
<1>6. /\ node \in NodeRecords /\ node.body = <<New + 1>> /\ node.parent = Top /\ node.function = 0
      /\ node.kind = "function" /\ node.value = NoLook /\ node.type = line.type
  BY <1>4, <1>5 DEF NodeRecords
<1>7. /\ block \in NodeRecords /\ block.body = <<>> /\ block.parent = 0 /\ block.function = New
      /\ block.kind = "block" /\ block.value = NoLook /\ block.type = None /\ block.argument = None
  BY <1>3, <1>4 DEF NodeRecords
<1>8. WriteAround(<<node, block>>, New + 1)
  BY <1>1 DEF WriteFunction, base, line, inner
<1> HIDE DEF node, block
<1>9. FormOf(node) /\ FormOf(block)
  BY <1>4, <1>5, <1>6, <1>7 DEF FormOf, FunctionKinds, LoopKinds, VariableKinds
<1>10. node.kind \in FunctionKinds /\ node.kind # "block"
  BY <1>6 DEF FunctionKinds
<1> QED
  BY ONLY <1>6, <1>7, <1>8, <1>9, <1>10, TreeInv, TwoStep

LEMMA OpenLiteralStep ==
  ASSUME TreeInv, OpenLiteral
  PROVE  TreeInv'
<1>1. PICK argument \in {None} \cup language.names :
        WriteFunction([Line("literal") EXCEPT !.argument = argument])
  BY DEF OpenLiteral
<1> DEFINE base == Line("literal")
           line == [base EXCEPT !.argument = argument]
           node == [line EXCEPT !.body = <<New + 1>>]
           inner == Node("block", 0)
           block == [inner EXCEPT !.function = New]
<1>2. /\ base \in NodeRecords /\ base.parent = Top /\ base.function = 0 /\ base.kind = "literal"
      /\ base.value = NoLook /\ base.type = None
  BY TopIs, NodeFields DEF Line, NodeKinds, FunctionKinds
<1>3. /\ inner \in NodeRecords /\ inner.parent = 0 /\ inner.kind = "block" /\ inner.body = <<>>
      /\ inner.value = NoLook /\ inner.type = None /\ inner.argument = None
  <2>1. "block" \in NodeKinds /\ 0 \in Nat
    BY DEF NodeKinds
  <2> QED
    BY <2>1, NodeFields
<1>4. New \in Nat /\ <<New + 1>> \in Seq(Nat) /\ Len(<<New + 1>>) = 1
  BY TopIs
<1> HIDE DEF base, inner
<1>5. /\ line \in NodeRecords /\ line.parent = Top /\ line.function = 0 /\ line.kind = "literal"
      /\ line.value = NoLook
      /\ line.type = None
  BY <1>2, LanguageIs DEF NodeRecords
<1> HIDE DEF line
<1>6. /\ node \in NodeRecords /\ node.body = <<New + 1>> /\ node.parent = Top /\ node.function = 0
      /\ node.kind = "literal" /\ node.value = NoLook /\ node.type = line.type
  BY <1>4, <1>5 DEF NodeRecords
<1>7. /\ block \in NodeRecords /\ block.body = <<>> /\ block.parent = 0 /\ block.function = New
      /\ block.kind = "block" /\ block.value = NoLook /\ block.type = None /\ block.argument = None
  BY <1>3, <1>4 DEF NodeRecords
<1>8. WriteAround(<<node, block>>, New + 1)
  BY <1>1 DEF WriteFunction, base, line, inner
<1> HIDE DEF node, block
<1>9. FormOf(node) /\ FormOf(block)
  BY <1>4, <1>5, <1>6, <1>7 DEF FormOf, FunctionKinds, LoopKinds, VariableKinds
<1>10. node.kind \in FunctionKinds /\ node.kind # "block"
  BY <1>6 DEF FunctionKinds
<1> QED
  BY ONLY <1>6, <1>7, <1>8, <1>9, <1>10, TreeInv, TwoStep

LEMMA OpenIfStep ==
  ASSUME TreeInv, OpenIf
  PROVE  TreeInv'
<1>1. PICK look \in Values :
        WriteAround(<<[Line("if") EXCEPT !.value = look, !.body = <<New + 1>>], Node("block", New)>>, New + 1)
  BY DEF OpenIf
<1> DEFINE base == Line("if")
           node == [base EXCEPT !.value = look, !.body = <<New + 1>>]
           block == Node("block", New)
<1>2. New \in Nat /\ <<New + 1>> \in Seq(Nat) /\ Len(<<New + 1>>) = 1
  BY TopIs
<1>3. /\ base \in NodeRecords /\ base.parent = Top /\ base.function = 0 /\ base.kind = "if"
      /\ base.value = NoLook /\ base.type = None /\ base.argument = None
  BY TopIs, NodeFields DEF Line, NodeKinds, LoopKinds
<1>4. /\ block \in NodeRecords /\ block.body = <<>> /\ block.parent = New /\ block.function = 0
      /\ block.kind = "block" /\ block.value = NoLook /\ block.type = None /\ block.argument = None
  BY <1>2, NodeFields DEF NodeKinds
<1> HIDE DEF base, block
<1>5. /\ node \in NodeRecords /\ node.body = <<New + 1>> /\ node.parent = Top /\ node.function = 0
      /\ node.kind = "if" /\ node.value = look /\ node.type = None /\ node.argument = None
  BY <1>2, <1>3, LanguageIs DEF NodeRecords
<1>6. WriteAround(<<node, block>>, New + 1)
  BY <1>1 DEF base, block
<1> HIDE DEF node
<1>7. FormOf(node) /\ FormOf(block)
  BY <1>2, <1>4, <1>5, LanguageIs DEF FormOf, FunctionKinds, LoopKinds, VariableKinds
<1>8. node.kind \notin FunctionKinds /\ node.kind # "block"
  BY <1>5 DEF FunctionKinds, LoopKinds
<1> QED
  BY ONLY <1>4, <1>5, <1>6, <1>7, <1>8, TreeInv, TwoStep

LEMMA OpenLoopStep ==
  ASSUME TreeInv, OpenLoop
  PROVE  TreeInv'
<1>1. PICK kind \in LoopKinds, label \in language.labels, look \in Values :
        WriteAround(<<[Line(kind) EXCEPT !.label = label, !.value = look, !.body = <<New + 1>>], Node("block", New)>>, New + 1)
  BY DEF OpenLoop
<1> DEFINE base == Line(kind)
           node == [base EXCEPT !.label = label, !.value = look, !.body = <<New + 1>>]
           block == Node("block", New)
<1>2. New \in Nat /\ <<New + 1>> \in Seq(Nat) /\ Len(<<New + 1>>) = 1
  BY TopIs
<1>3. /\ base \in NodeRecords /\ base.parent = Top /\ base.function = 0 /\ base.kind = kind
      /\ base.value = NoLook /\ base.type = None /\ base.argument = None
  BY TopIs, NodeFields DEF Line, NodeKinds, LoopKinds
<1>4. /\ block \in NodeRecords /\ block.body = <<>> /\ block.parent = New /\ block.function = 0
      /\ block.kind = "block" /\ block.value = NoLook /\ block.type = None /\ block.argument = None
  BY <1>2, NodeFields DEF NodeKinds
<1> HIDE DEF base, block
<1>5. /\ node \in NodeRecords /\ node.body = <<New + 1>> /\ node.parent = Top /\ node.function = 0
      /\ node.kind = kind /\ node.value = look /\ node.type = None /\ node.argument = None
  BY <1>2, <1>3, LanguageIs DEF NodeRecords
<1>6. WriteAround(<<node, block>>, New + 1)
  BY <1>1 DEF base, block
<1> HIDE DEF node
<1>7. FormOf(node) /\ FormOf(block)
  BY <1>2, <1>4, <1>5, LanguageIs DEF FormOf, FunctionKinds, LoopKinds, VariableKinds
<1>8. node.kind \notin FunctionKinds /\ node.kind # "block"
  BY <1>5 DEF FunctionKinds, LoopKinds
<1> QED
  BY ONLY <1>4, <1>5, <1>6, <1>7, <1>8, TreeInv, TwoStep


(* u is s with t after it.                                                     *)
Splits(u, s, t) ==
  /\ Len(u) = Len(s) + Len(t)
  /\ \A i \in 1 .. Len(s) : u[i] = s[i]
  /\ \A i \in 1 .. Len(t) : u[Len(s) + i] = t[i]

LEMMA SameSequence ==
  ASSUME NEW S, NEW s \in Seq(S), NEW t \in Seq(S), Len(s) = Len(t), \A i \in 1 .. Len(s) : s[i] = t[i]
  PROVE  s = t
OBVIOUS

LEMMA ConcatenationIs ==
  ASSUME NEW S, NEW s \in Seq(S), NEW t \in Seq(S), NEW u \in Seq(S), Splits(u, s, t)
  PROVE  s \o t = u
<1> DEFINE w == s \o t
<1>1. Splits(w, s, t) /\ w \in Seq(S)
  BY Joined DEF Splits
<1>2. Len(s) \in Nat /\ Len(t) \in Nat
  OBVIOUS
<1> HIDE DEF w
<1>3. ASSUME NEW i \in 1 .. Len(w)
      PROVE  w[i] = u[i]
  <2>1. CASE i <= Len(s)
    BY ONLY <1>1, <1>2, <2>1, i \in 1 .. Len(w), Splits(u, s, t) DEF Splits
  <2>2. CASE i > Len(s)
    <3> DEFINE k == i - Len(s)
    <3>1. k \in 1 .. Len(t) /\ i = Len(s) + k
      BY ONLY <1>1, <1>2, <2>2, i \in 1 .. Len(w) DEF Splits
    <3> HIDE DEF k
    <3> QED
      BY ONLY <1>1, <3>1, Splits(u, s, t) DEF Splits
  <2>3. i <= Len(s) \/ i > Len(s)
    BY ONLY <1>1, <1>2, i \in 1 .. Len(w) DEF Splits
  <2> QED
    BY <2>1, <2>2, <2>3
<1>4. Len(w) = Len(u)
  BY <1>1 DEF Splits
<1>5. w = u
  BY ONLY <1>1, <1>3, <1>4, u \in Seq(S), SameSequence
<1> QED
  BY <1>5 DEF w

LEMMA Join21 ==
  ASSUME NEW S, NEW a \in S, NEW b \in S, NEW c \in S
  PROVE  <<a, b>> \o <<c>> = <<a, b, c>>
<1> DEFINE s == <<a, b>>
           t == <<c>>
           u == <<a, b, c>>
<1>1. s \in Seq(S) /\ t \in Seq(S) /\ u \in Seq(S) /\ Len(s) = 2 /\ Len(t) = 1 /\ Len(u) = 3
  OBVIOUS
<1>2. s[1] = u[1] /\ s[2] = u[2] /\ t[1] = u[3]
  OBVIOUS
<1> HIDE DEF s, t, u
<1>3. Splits(u, s, t)
  <2>1. \A i \in 1 .. 2 : i = 1 \/ i = 2
    OBVIOUS
  <2>2. \A i \in 1 .. 1 : i = 1
    OBVIOUS
  <2> QED
    BY ONLY <1>1, <1>2, <2>1, <2>2 DEF Splits
<1>4. s \o t = u
  BY ONLY <1>1, <1>3, ConcatenationIs
<1> QED
  BY <1>4 DEF s, t, u

LEMMA Join11 ==
  ASSUME NEW S, NEW a \in S, NEW b \in S
  PROVE  <<a>> \o <<b>> = <<a, b>>
<1> DEFINE s == <<a>>
           t == <<b>>
           u == <<a, b>>
<1>1. s \in Seq(S) /\ t \in Seq(S) /\ u \in Seq(S) /\ Len(s) = 1 /\ Len(t) = 1 /\ Len(u) = 2
  OBVIOUS
<1>2. s[1] = u[1] /\ t[1] = u[2]
  OBVIOUS
<1> HIDE DEF s, t, u
<1>3. Splits(u, s, t)
  <2>1. \A i \in 1 .. 1 : i = 1
    OBVIOUS
  <2>2. \A i \in 1 .. 1 : i = 1
    OBVIOUS
  <2> QED
    BY ONLY <1>1, <1>2, <2>1, <2>2 DEF Splits
<1>4. s \o t = u
  BY ONLY <1>1, <1>3, ConcatenationIs
<1> QED
  BY <1>4 DEF s, t, u

LEMMA Join13 ==
  ASSUME NEW S, NEW a \in S, NEW b \in S, NEW c \in S, NEW d \in S
  PROVE  <<a>> \o <<b, c, d>> = <<a, b, c, d>>
<1> DEFINE s == <<a>>
           t == <<b, c, d>>
           u == <<a, b, c, d>>
<1>1. s \in Seq(S) /\ t \in Seq(S) /\ u \in Seq(S) /\ Len(s) = 1 /\ Len(t) = 3 /\ Len(u) = 4
  OBVIOUS
<1>2. s[1] = u[1] /\ t[1] = u[2] /\ t[2] = u[3] /\ t[3] = u[4]
  OBVIOUS
<1> HIDE DEF s, t, u
<1>3. Splits(u, s, t)
  <2>1. \A i \in 1 .. 1 : i = 1
    OBVIOUS
  <2>2. \A i \in 1 .. 3 : i = 1 \/ i = 2 \/ i = 3
    OBVIOUS
  <2> QED
    BY ONLY <1>1, <1>2, <2>1, <2>2 DEF Splits
<1>4. s \o t = u
  BY ONLY <1>1, <1>3, ConcatenationIs
<1> QED
  BY <1>4 DEF s, t, u

LEMMA Join31 ==
  ASSUME NEW S, NEW a \in S, NEW b \in S, NEW c \in S, NEW d \in S
  PROVE  <<a, b, c>> \o <<d>> = <<a, b, c, d>>
<1> DEFINE s == <<a, b, c>>
           t == <<d>>
           u == <<a, b, c, d>>
<1>1. s \in Seq(S) /\ t \in Seq(S) /\ u \in Seq(S) /\ Len(s) = 3 /\ Len(t) = 1 /\ Len(u) = 4
  OBVIOUS
<1>2. s[1] = u[1] /\ s[2] = u[2] /\ s[3] = u[3] /\ t[1] = u[4]
  OBVIOUS
<1> HIDE DEF s, t, u
<1>3. Splits(u, s, t)
  <2>1. \A i \in 1 .. 3 : i = 1 \/ i = 2 \/ i = 3
    OBVIOUS
  <2>2. \A i \in 1 .. 1 : i = 1
    OBVIOUS
  <2> QED
    BY ONLY <1>1, <1>2, <2>1, <2>2 DEF Splits
<1>4. s \o t = u
  BY ONLY <1>1, <1>3, ConcatenationIs
<1> QED
  BY <1>4 DEF s, t, u

LEMMA Join33 ==
  ASSUME NEW S, NEW a \in S, NEW b \in S, NEW c \in S, NEW d \in S, NEW e \in S, NEW f \in S
  PROVE  <<a, b, c>> \o <<d, e, f>> = <<a, b, c, d, e, f>>
<1> DEFINE s == <<a, b, c>>
           t == <<d, e, f>>
           u == <<a, b, c, d, e, f>>
<1>1. s \in Seq(S) /\ t \in Seq(S) /\ u \in Seq(S) /\ Len(s) = 3 /\ Len(t) = 3 /\ Len(u) = 6
  OBVIOUS
<1>2. s[1] = u[1] /\ s[2] = u[2] /\ s[3] = u[3] /\ t[1] = u[4] /\ t[2] = u[5] /\ t[3] = u[6]
  OBVIOUS
<1> HIDE DEF s, t, u
<1>3. Splits(u, s, t)
  <2>1. \A i \in 1 .. 3 : i = 1 \/ i = 2 \/ i = 3
    OBVIOUS
  <2>2. \A i \in 1 .. 3 : i = 1 \/ i = 2 \/ i = 3
    OBVIOUS
  <2> QED
    BY ONLY <1>1, <1>2, <2>1, <2>2 DEF Splits
<1>4. s \o t = u
  BY ONLY <1>1, <1>3, ConcatenationIs
<1> QED
  BY <1>4 DEF s, t, u

LEMMA ForTwo ==
  ASSUME NEW S, NEW c \in S, NEW d \in S
  PROVE  <<>> \o <<c>> \o <<d>> = <<c, d>>
<1>1. <<>> \o <<c>> = <<c>>
  OBVIOUS
<1>2. <<c>> \o <<d>> = <<c, d>>
  BY ONLY Join11, c \in S, d \in S
<1> QED
  BY ONLY <1>1, <1>2

LEMMA ForStep ==
  ASSUME NEW S, NEW c \in S, NEW d \in S, NEW e \in S, NEW f \in S
  PROVE  <<>> \o <<c>> \o <<d, e, f>> = <<c, d, e, f>>
<1>1. <<>> \o <<c>> = <<c>>
  OBVIOUS
<1>2. <<c>> \o <<d, e, f>> = <<c, d, e, f>>
  BY ONLY Join13, c \in S, d \in S, e \in S, f \in S
<1> QED
  BY ONLY <1>1, <1>2

LEMMA ForInit ==
  ASSUME NEW S, NEW a \in S, NEW b \in S, NEW c \in S, NEW d \in S
  PROVE  <<a, b>> \o <<c>> \o <<d>> = <<a, b, c, d>>
<1>1. <<a, b>> \o <<c>> = <<a, b, c>>
  BY Join21
<1>2. <<a, b, c>> \o <<d>> = <<a, b, c, d>>
  BY ONLY Join31, a \in S, b \in S, c \in S, d \in S
<1> QED
  BY ONLY <1>1, <1>2

LEMMA ForBoth ==
  ASSUME NEW S, NEW a \in S, NEW b \in S, NEW c \in S, NEW d \in S, NEW e \in S, NEW f \in S
  PROVE  <<a, b>> \o <<c>> \o <<d, e, f>> = <<a, b, c, d, e, f>>
<1>1. <<a, b>> \o <<c>> = <<a, b, c>>
  BY Join21
<1>2. <<a, b, c>> \o <<d, e, f>> = <<a, b, c, d, e, f>>
  BY ONLY Join33, a \in S, b \in S, c \in S, d \in S, e \in S, f \in S
<1> QED
  BY ONLY <1>1, <1>2

LEMMA OpenForStep ==
  ASSUME TreeInv, OpenFor
  PROVE  TreeInv'
<1>1. PICK init \in {None} \cup language.names, value \in Values, kind \in LoopKinds,
           label \in language.labels :
        WriteAround(ForNodes(init, value, kind, label),
                    Len(nodes) + Len(ForNodes(init, value, kind, label)))
  BY DEF OpenFor
<1> DEFINE size == Len(nodes)
           loop == IF init = None THEN New ELSE New + 2
           line == Line("block")
           around == [line EXCEPT !.body = <<New + 1, loop>>]
           let == Node("define", New)
           first == [let EXCEPT !.name = init]
           while == Node(kind, LoopParent(init))
           head == [while EXCEPT !.label = label, !.body = <<loop + 1>>]
           body == Node("block", loop)
           outer == [body EXCEPT !.body = <<loop + 3, loop + 2>>]
           call == Node("expression", loop + 1)
           step == [call EXCEPT !.value = value]
           inner == Node("block", loop + 1)
<1>2. /\ size \in Nat /\ New = size + 1 /\ Top \in Nat /\ New \in Nat /\ loop \in Nat
      /\ LoopParent(init) \in Nat /\ loop + 1 \in Nat
  BY TopIs DEF LoopParent
<1>3. {"block", "define", "expression", kind} \subseteq NodeKinds /\ kind \in LoopKinds
  BY DEF NodeKinds, VariableKinds
<1>4. /\ line \in NodeRecords /\ line.parent = Top /\ line.function = 0 /\ line.kind = "block"
      /\ line.value = NoLook /\ line.type = None /\ line.argument = None
  BY <1>2, <1>3, NodeFields DEF Line
<1>5. /\ let \in NodeRecords /\ let.parent = New /\ let.function = 0 /\ let.kind = "define"
      /\ let.value = NoLook /\ let.type = None /\ let.argument = None /\ let.body = <<>>
  BY <1>2, <1>3, NodeFields
<1>6. /\ while \in NodeRecords /\ while.parent = LoopParent(init) /\ while.function = 0 /\ while.kind = kind
      /\ while.value = NoLook /\ while.type = None /\ while.argument = None
  BY <1>2, <1>3, NodeFields
<1>7. /\ body \in NodeRecords /\ body.parent = loop /\ body.function = 0 /\ body.kind = "block"
      /\ body.value = NoLook /\ body.type = None /\ body.argument = None /\ body.body = <<>>
  <2> HIDE DEF loop
  <2> QED
    BY <1>2, <1>3, NodeFields
<1>8. /\ call \in NodeRecords /\ call.parent = loop + 1 /\ call.function = 0 /\ call.kind = "expression"
      /\ call.value = NoLook /\ call.type = None /\ call.argument = None /\ call.body = <<>>
  <2> HIDE DEF loop
  <2> QED
    BY <1>2, <1>3, NodeFields
<1>9. /\ inner \in NodeRecords /\ inner.parent = loop + 1 /\ inner.function = 0 /\ inner.kind = "block"
      /\ inner.value = NoLook /\ inner.type = None /\ inner.argument = None /\ inner.body = <<>>
  <2> HIDE DEF loop
  <2> QED
    BY <1>2, <1>3, NodeFields
<1>10. ForNodes(init, value, kind, label) =
         (IF init = None THEN <<>> ELSE <<around, first>>) \o <<head>>
           \o (IF value = NoLook THEN <<body>> ELSE <<outer, step, inner>>)
  BY DEF ForNodes
<1> HIDE DEF line, let, while, body, call, inner
<1>11. /\ first \in NodeRecords /\ first.parent = New /\ first.function = 0 /\ first.kind = "define"
       /\ first.value = NoLook /\ first.type = None /\ first.argument = None /\ first.body = <<>>
  BY <1>5, LanguageIs DEF NodeRecords
<1>12. /\ step \in NodeRecords /\ step.parent = loop + 1 /\ step.function = 0 /\ step.kind = "expression"
       /\ step.value = value /\ step.type = None /\ step.argument = None /\ step.body = <<>>
  <2> HIDE DEF loop
  <2> QED
    BY <1>8, LanguageIs DEF NodeRecords
<1>13. <<loop + 1>> \in Seq(Nat) /\ <<New + 1, loop>> \in Seq(Nat) /\ <<loop + 3, loop + 2>> \in Seq(Nat)
  <2> HIDE DEF loop
  <2> QED
    BY <1>2
<1> HIDE DEF loop
<1>14. /\ head \in NodeRecords /\ head.parent = LoopParent(init) /\ head.function = 0 /\ head.kind = kind
       /\ head.value = NoLook /\ head.type = None /\ head.argument = None /\ head.body = <<loop + 1>>
  <2>1. label \in Labels \cup {None}
    BY LanguageIs
  <2> QED
    BY <1>6, <1>13, <2>1 DEF NodeRecords
<1>15. /\ around \in NodeRecords /\ around.parent = Top /\ around.function = 0 /\ around.kind = "block"
       /\ around.value = NoLook /\ around.type = None /\ around.argument = None /\ around.body = <<New + 1, loop>>
  BY <1>4, <1>13 DEF NodeRecords
<1>16. /\ outer \in NodeRecords /\ outer.parent = loop /\ outer.function = 0 /\ outer.kind = "block"
       /\ outer.value = NoLook /\ outer.type = None /\ outer.argument = None /\ outer.body = <<loop + 3, loop + 2>>
  BY <1>7, <1>13 DEF NodeRecords
<1>17. Len(<<loop + 1>>) = 1
  OBVIOUS
<1> HIDE DEF around, first, head, outer, step
<1>18. FormOf(around) /\ FormOf(body) /\ FormOf(outer) /\ FormOf(inner)
  BY <1>15, <1>7, <1>16, <1>9 DEF FormOf, FunctionKinds, LoopKinds, VariableKinds
<1>19. FormOf(first) /\ FormOf(step)
  <2>1. value = NoLook \/ value.mode # "none"
    BY LanguageIs
  <2> QED
    BY <1>11, <1>12, <2>1 DEF FormOf, FunctionKinds, LoopKinds, VariableKinds
<1>20. FormOf(head) /\ head.kind \in LoopKinds /\ head.kind # "block" /\ head.kind \notin FunctionKinds
  BY <1>3, <1>14, <1>17 DEF FormOf, FunctionKinds, LoopKinds, VariableKinds
<1>21. /\ init = None => loop = New /\ LoopParent(init) = Top
       /\ init # None => loop = New + 2 /\ LoopParent(init) = New
  BY DEF loop, LoopParent
<1>22. /\ (New + 2) + 1 = New + 3 /\ (New + 2) + 2 = New + 4 /\ (New + 2) + 3 = New + 5
       /\ size + 2 = New + 1
  BY <1>2
<1> DEFINE new == ForNodes(init, value, kind, label)
<1>23. WriteAround(new, size + Len(new))
  BY <1>1
<1> HIDE DEF new
<1>28. /\ <<>> \o <<head>> \o <<body>> = <<head, body>>
       /\ <<>> \o <<head>> \o <<outer, step, inner>> = <<head, outer, step, inner>>
       /\ <<around, first>> \o <<head>> \o <<body>> = <<around, first, head, body>>
       /\ <<around, first>> \o <<head>> \o <<outer, step, inner>> = <<around, first, head, outer, step, inner>>
  BY ONLY <1>7, <1>9, <1>11, <1>12, <1>14, <1>15, <1>16, ForTwo, ForStep, ForInit, ForBoth
<1>24. CASE init = None /\ value = NoLook
  <2>1. new = <<head, body>> /\ Len(<<head, body>>) = 2
    <3>1. new = <<>> \o <<head>> \o <<body>>
      BY ONLY <1>10, <1>24 DEF new
    <3>2. Len(<<head, body>>) = 2
      OBVIOUS
    <3>3. new = <<head, body>>
      BY ONLY <1>28, <3>1
    <3> QED
      BY ONLY <3>2, <3>3
  <2>2. WriteAround(<<head, body>>, New + 1)
    BY ONLY <1>22, <1>23, <2>1
  <2>3. head.body = <<New + 1>> /\ head.parent = Top /\ body.parent = New
    BY <1>14, <1>7, <1>21, <1>24
  <2> QED
    BY ONLY TreeInv, <1>7, <1>14, <1>18, <1>20, <2>2, <2>3, TwoStep
<1>25. CASE init = None /\ value # NoLook
  <2>1. new = <<head, outer, step, inner>> /\ Len(<<head, outer, step, inner>>) = 4
    <3>1. new = <<>> \o <<head>> \o <<outer, step, inner>>
      BY ONLY <1>10, <1>25 DEF new
    <3>2. Len(<<head, outer, step, inner>>) = 4
      OBVIOUS
    <3>3. new = <<head, outer, step, inner>>
      BY ONLY <1>28, <3>1
    <3> QED
      BY ONLY <3>2, <3>3
  <2>2. WriteAround(<<head, outer, step, inner>>, Len(nodes) + 4)
    BY ONLY <1>23, <2>1 DEF size
  <2>3. /\ head.body = <<New + 1>> /\ head.parent = Top
        /\ outer.body = <<New + 3, New + 2>> /\ outer.parent = New
        /\ step.parent = New + 1 /\ inner.parent = New + 1
    BY <1>9, <1>12, <1>14, <1>16, <1>21, <1>25
  <2> QED
    BY ONLY TreeInv, <1>9, <1>12, <1>14, <1>16, <1>18, <1>19, <1>20, <2>2, <2>3, LoopWithStep
<1>26. CASE init # None /\ value = NoLook
  <2>1. new = <<around, first, head, body>> /\ Len(<<around, first, head, body>>) = 4
    <3>1. new = <<around, first>> \o <<head>> \o <<body>>
      BY ONLY <1>10, <1>26 DEF new
    <3>2. Len(<<around, first, head, body>>) = 4
      OBVIOUS
    <3>3. new = <<around, first, head, body>>
      BY ONLY <1>28, <3>1
    <3> QED
      BY ONLY <3>2, <3>3
  <2>2. WriteAround(<<around, first, head, body>>, Len(nodes) + 4)
    BY ONLY <1>23, <2>1 DEF size
  <2>3. /\ around.body = <<New + 1, New + 2>> /\ head.parent = New
        /\ head.body = <<New + 3>> /\ body.parent = New + 2
    BY <1>7, <1>14, <1>15, <1>21, <1>22, <1>26
  <2> QED
    BY ONLY TreeInv, <1>7, <1>11, <1>14, <1>15, <1>18, <1>19, <1>20, <2>2, <2>3, LoopWithInit
<1>27. CASE init # None /\ value # NoLook
  <2>1. /\ new = <<around, first, head, outer, step, inner>>
        /\ Len(<<around, first, head, outer, step, inner>>) = 6
    <3>1. new = <<around, first>> \o <<head>> \o <<outer, step, inner>>
      BY ONLY <1>10, <1>27 DEF new
    <3>2. Len(<<around, first, head, outer, step, inner>>) = 6
      OBVIOUS
    <3>3. new = <<around, first, head, outer, step, inner>>
      BY ONLY <1>28, <3>1
    <3> QED
      BY ONLY <3>2, <3>3
  <2>2. WriteAround(<<around, first, head, outer, step, inner>>, Len(nodes) + 6)
    BY ONLY <1>23, <2>1 DEF size
  <2>3. /\ around.body = <<New + 1, New + 2>> /\ head.parent = New
        /\ head.body = <<New + 3>> /\ outer.parent = New + 2
        /\ outer.body = <<New + 5, New + 4>> /\ step.parent = New + 3 /\ inner.parent = New + 3
    BY <1>9, <1>12, <1>14, <1>15, <1>16, <1>21, <1>22, <1>27
  <2> QED
    BY ONLY TreeInv, <1>9, <1>11, <1>12, <1>14, <1>15, <1>16, <1>18, <1>19, <1>20, <2>2, <2>3, LoopWithBoth, SMTT(60)
<1> QED
  BY <1>24, <1>25, <1>26, <1>27

LEMMA OutwardPath ==
  ASSUME TreeInv, Len(open) > 1
  PROVE  /\ Path(nodes, Front(open)) /\ Last(Front(open)) \in AboveIn(nodes, Top)
         /\ nodes[Last(Front(open))].kind = "block"
<1> DEFINE op == Front(open)
<1>1. Tree(nodes) /\ Path(nodes, open)
  BY DEF TreeInv
<1>2. open \in Seq(DOMAIN nodes) /\ Len(open) \in Nat /\ open[1] = 1
  BY <1>1 DEF Path
<1>3. /\ op \in Seq(DOMAIN nodes) /\ Len(op) = Len(open) - 1
      /\ \A i \in 1 .. Len(op) : op[i] = open[i]
  BY <1>2 DEF Front
<1> HIDE DEF op
<1>4. /\ op # <<>> /\ op[1] = 1 /\ DOMAIN op = 1 .. Len(op) /\ Len(op) \in Nat /\ Len(op) >= 1
      /\ Last(op) = op[Len(op)]
  BY <1>2, <1>3 DEF Last
<1>5. \A i \in DOMAIN op : nodes[op[i]].kind = "block"
  <2>1. \A i \in DOMAIN op : i \in DOMAIN open /\ op[i] = open[i]
    BY <1>2, <1>3, <1>4
  <2> QED
    BY <1>1, <2>1 DEF Path
<1>6. \A i \in 1 .. Len(op) - 1 : op[i] \in AboveIn(nodes, op[i + 1])
  <2> SUFFICES ASSUME NEW i \in 1 .. Len(op) - 1
               PROVE  op[i] \in AboveIn(nodes, op[i + 1])
    OBVIOUS
  <2>1. i \in 1 .. Len(open) - 1 /\ i \in 1 .. Len(op) /\ i + 1 \in 1 .. Len(op)
    BY <1>2, <1>3
  <2>2. open[i] \in AboveIn(nodes, open[i + 1])
    BY <1>1, <2>1 DEF Path
  <2> QED
    BY <1>3, <2>1, <2>2
<1>7. Last(op) \in AboveIn(nodes, Top)
  <2>1. Len(op) \in 1 .. Len(open) - 1 /\ Len(op) + 1 = Len(open) /\ Top = open[Len(open)]
    BY <1>2, <1>3, <1>4 DEF Top, Last
  <2>2. open[Len(op)] \in AboveIn(nodes, open[Len(op) + 1])
    BY <1>1, <2>1 DEF Path
  <2> QED
    BY <1>3, <1>4, <2>1, <2>2
<1>8. AtEnd(nodes, Last(op))
  BY <1>1, <1>7, TopIs, AtEndAbove
<1>9. nodes[Last(op)].kind = "block"
  <2>1. Len(op) \in DOMAIN op
    BY <1>4
  <2> QED
    BY <1>4, <1>5, <2>1
<1>10. Path(nodes, op)
  BY <1>3, <1>4, <1>5, <1>6, <1>8 DEF Path
<1> QED
  BY <1>7, <1>9, <1>10 DEF op

LEMMA CloseStep ==
  ASSUME TreeInv, Close
  PROVE  TreeInv'
BY OutwardPath DEF TreeInv, Close

(* The block of an if is known to it, and no other block to an if.             *)
LEMMA BranchHolds ==
  ASSUME NEW ns, Tree(ns), Formed(ns), NEW n \in DOMAIN ns, NEW branch, ns[n].parent = branch,
         branch # 0, ns[branch].kind = "if"
  PROVE  n # 1 /\ HolderIn(ns, n) = branch /\ branch \in DOMAIN ns
<1>1. n # 1
  BY DEF Formed
<1> DEFINE h == HolderIn(ns, n)
<1>2. h \in DOMAIN ns /\ \E i \in DOMAIN ns[h].body : ns[h].body[i] = n
  BY <1>1, HolderHolds
<1> HIDE DEF h
<1>3. Link(ns, h, n)
  BY <1>2 DEF Formed
<1>4. CASE ns[h].kind \in FunctionKinds
  <2>1. branch = HolderIn(ns, h)
    BY <1>3, <1>4 DEF Link
  <2>2. h # 1
    BY <1>4 DEF Formed, FunctionKinds
  <2>3. branch \in DOMAIN ns /\ \E i \in DOMAIN ns[branch].body : ns[branch].body[i] = h
    BY <1>2, <2>1, <2>2, HolderHolds
  <2>4. ns[h].kind = "block"
    BY <2>3 DEF Formed, Form
  <2> QED
    BY <1>4, <2>4 DEF FunctionKinds
<1>5. CASE ns[h].kind \notin FunctionKinds
  BY <1>1, <1>2, <1>3, <1>5 DEF Link, h
<1> QED
  BY <1>4, <1>5

LEMMA AppendIs ==
  ASSUME NEW S, NEW s \in Seq(S), NEW e \in S
  PROVE  Append(s, e) = s \o <<e>>
<1>1. Append(s, e) \in Seq(S) /\ <<e>> \in Seq(S)
  OBVIOUS
<1>2. Splits(Append(s, e), s, <<e>>)
  <2>1. \A i \in 1 .. Len(<<e>>) : Append(s, e)[Len(s) + i] = <<e>>[i]
    <3>1. \A i \in 1 .. Len(<<e>>) : i = 1
      OBVIOUS
    <3>2. Append(s, e)[Len(s) + 1] = e /\ <<e>>[1] = e
      OBVIOUS
    <3> QED
      BY <3>1, <3>2
  <2>2. Len(Append(s, e)) = Len(s) + Len(<<e>>) /\ \A i \in 1 .. Len(s) : Append(s, e)[i] = s[i]
    OBVIOUS
  <2> QED
    BY <2>1, <2>2 DEF Splits
<1> QED
  BY <1>1, <1>2, ConcatenationIs

LEMMA ElseStep ==
  ASSUME TreeInv, Else
  PROVE  TreeInv'
<1> DEFINE branch == nodes[Top].parent
           block == Node("block", branch)
           size == Len(nodes)
<1>1. /\ Len(open) > 1 /\ branch # 0 /\ nodes[branch].kind = "if" /\ Len(nodes[branch].body) = 1
      /\ nodes' = Append([nodes EXCEPT ![branch].body = Append(@, New)], block)
      /\ open' = Append(Front(open), New) /\ language' = language
  BY DEF Else
<1>2. Tree(nodes) /\ Formed(nodes) /\ Sorted(nodes) /\ language \in Languages
  BY DEF TreeInv
<1>3. /\ Top \in DOMAIN nodes /\ New = size + 1 /\ AtEnd(nodes, Top) /\ size \in Nat
      /\ DOMAIN nodes = 1 .. size /\ nodes \in Seq(NodeRecords)
  BY <1>2, TopIs DEF Tree
<1> HIDE DEF branch
<1>4. Top # 1 /\ HolderIn(nodes, Top) = branch /\ branch \in DOMAIN nodes /\ branch \in Nat
  <2>1. nodes[Top].parent = branch
    BY DEF branch
  <2>2. Top # 1 /\ HolderIn(nodes, Top) = branch /\ branch \in DOMAIN nodes
    BY ONLY <1>1, <1>2, <1>3, <2>1, BranchHolds
  <2> QED
    BY <1>3, <2>2
<1>5. /\ block \in NodeRecords /\ block.body = <<>> /\ block.parent = branch /\ block.function = 0
      /\ block.kind = "block" /\ block.value = NoLook /\ block.type = None /\ block.argument = None
  BY <1>4, NodeFields DEF NodeKinds
<1> HIDE DEF block
<1>6. FormOf(block)
  BY <1>5 DEF FormOf, FunctionKinds, LoopKinds
<1>7. /\ Fragment(size, <<block>>)
      /\ Attached(nodes, branch, <<block>>, nodes') => Local(nodes', size, <<block>>)
  BY <1>5, <1>6, OneNode
<1>8. nodes' = Attach(nodes, branch, <<block>>)
  <2> DEFINE r == [nodes[branch] EXCEPT !.body = Append(nodes[branch].body, New)]
             ws == [nodes EXCEPT ![branch] = r]
  <2>1. nodes[branch] \in NodeRecords
    BY <1>3, <1>4
  <2>2. nodes[branch].body \in Seq(Nat) /\ New \in Nat
    BY <1>3, <2>1 DEF NodeRecords
  <2>3. Append(nodes[branch].body, New) \in Seq(Nat)
    BY <2>2
  <2>4. r \in NodeRecords
    BY <2>1, <2>3 DEF NodeRecords
  <2> HIDE DEF r
  <2>5. ws \in Seq(NodeRecords)
    BY <1>3, <1>4, <2>4
  <2>6. nodes' = Append(ws, block) /\ Attach(nodes, branch, <<block>>) = ws \o <<block>>
    BY <1>1, <1>3 DEF Attach, r
  <2> HIDE DEF ws
  <2> QED
    BY ONLY <1>5, <2>5, <2>6, AppendIs
<1>9. Attached(nodes, branch, <<block>>, nodes')
  BY <1>2, <1>4, <1>7, <1>8, AttachIs
<1>10. size + 1 \in DOMAIN nodes' /\ nodes'[size + 1] = block
  <2>1. 1 \in DOMAIN <<block>> /\ <<block>>[1] = block
    OBVIOUS
  <2> QED
    BY <1>9, <2>1 DEF Attached
<1>11. /\ nodes'[branch].kind = "if" /\ nodes'[branch].value = nodes[branch].value
       /\ nodes'[branch].type = nodes[branch].type /\ nodes'[branch].argument = nodes[branch].argument
       /\ nodes'[branch].body = Append(nodes[branch].body, size + 1)
  BY <1>1, <1>4, <1>9 DEF Attached
<1>12. /\ nodes[branch].body \in Seq(Nat)
       /\ \A i \in DOMAIN nodes[branch].body :
            nodes[branch].body[i] \in DOMAIN nodes /\ nodes[nodes[branch].body[i]].kind = "block"
  <2>1. nodes[branch] \in NodeRecords
    BY <1>3, <1>4
  <2>2. \A i \in DOMAIN nodes[branch].body : nodes[branch].body[i] \in DOMAIN nodes
    BY <1>2, <1>4, UnderHolder
  <2> QED
    BY <1>1, <1>2, <1>4, <2>1, <2>2 DEF NodeRecords, Formed, Form
<1>13. Form(nodes', branch)
  <2>1. FormOf(nodes[branch])
    BY <1>2, <1>4 DEF Formed, Form
  <2>2. Len(nodes'[branch].body) = 2
    <3> DEFINE body == nodes[branch].body
    <3>1. body \in Seq(Nat) /\ Len(body) = 1 /\ nodes'[branch].body = Append(body, size + 1) /\ size \in Nat
      BY <1>1, <1>3, <1>11, <1>12
    <3> HIDE DEF body, size
    <3>2. size + 1 \in Nat /\ Len(<<size + 1>>) = 1 /\ <<size + 1>> \in Seq(Nat)
      BY <3>1
    <3>3. nodes'[branch].body = body \o <<size + 1>>
      BY ONLY <3>1, <3>2, AppendIs
    <3>4. Len(body \o <<size + 1>>) = Len(body) + Len(<<size + 1>>)
      BY ONLY <3>1, <3>2, Joined
    <3> QED
      BY ONLY <3>1, <3>2, <3>3, <3>4
  <2>3. FormOf(nodes'[branch])
    BY <1>1, <1>11, <2>1, <2>2 DEF FormOf, FunctionKinds, LoopKinds, VariableKinds
  <2>4. ASSUME NEW i \in DOMAIN nodes'[branch].body
        PROVE  nodes'[nodes'[branch].body[i]].kind = "block"
    <3>1. CASE i \in DOMAIN nodes[branch].body
      <4>1. nodes'[branch].body[i] = nodes[branch].body[i]
        BY ONLY <1>11, <1>12, <3>1
      <4> QED
        BY <1>9, <1>12, <3>1, <4>1 DEF Attached
    <3>2. CASE i \notin DOMAIN nodes[branch].body
      <4>1. nodes'[branch].body[i] = size + 1
        BY ONLY <1>11, <1>12, <2>4, <3>2
      <4> QED
        BY <1>5, <1>10, <4>1
    <3> QED
      BY <3>1, <3>2
  <2> QED
    BY <2>3, <2>4 DEF Form
<1>14. Link(nodes', branch, size + 1)
  BY <1>5, <1>10, <1>11 DEF Link, FunctionKinds
<1>15. branch \in AboveIn(nodes, Top) /\ AtEnd(nodes, branch)
  BY <1>2, <1>3, <1>4, AboveIs, AtEndAbove
<1>16. /\ Tree(nodes') /\ Formed(nodes') /\ Sorted(nodes')
       /\ \A x \in DOMAIN nodes' : nodes'[x].kind = "block" /\ (x = branch \/ x > size) => AtEnd(nodes', x)
  BY <1>2, <1>4, <1>7, <1>9, <1>13, <1>14, <1>15, Grows
<1> DEFINE op == Front(open)
<1>17. Path(nodes, op) /\ Last(op) \in AboveIn(nodes, Top) /\ nodes[Last(op)].kind = "block"
  BY <1>1, OutwardPath
<1> HIDE DEF op
<1>18. Under(nodes, Last(op), branch)
  BY <1>1, <1>2, <1>3, <1>4, <1>17, AboveIs DEF Under
<1>19. Opened(nodes, op, nodes', open') /\ AtEnd(nodes', Last(open'))
  <2>1. size + 1 > size /\ open' = Append(op, size + 1)
    BY <1>1, <1>3 DEF op
  <2>2. op \in Seq(DOMAIN nodes)
    BY <1>17 DEF Path
  <2>3. Last(open') = size + 1
    BY <2>1, <2>2 DEF Last
  <2> QED
    BY <1>5, <1>10, <1>16, <2>1, <2>3 DEF Opened
<1>20. Path(nodes', open')
  BY ONLY <1>2, <1>4, <1>7, <1>9, <1>17, <1>18, <1>19, PathOpens DEF size
<1> QED
  BY <1>1, <1>2, <1>16, <1>20 DEF TreeInv

-----------------------------------------------------------------------------
(* The analysis leaves all but the parents as they are.                       *)
Frozen(ns, ns2) ==
  /\ Len(ns2) = Len(ns) /\ DOMAIN ns2 = DOMAIN ns
  /\ \A n \in DOMAIN ns :
       /\ ns2[n].kind = ns[n].kind /\ ns2[n].body = ns[n].body /\ ns2[n].name = ns[n].name
       /\ ns2[n].argument = ns[n].argument /\ ns2[n].type = ns[n].type /\ ns2[n].value = ns[n].value
       /\ ns2[n].label = ns[n].label /\ ns2[n].function = ns[n].function

LEMMA FrozenAbove ==
  ASSUME NEW ns, Tree(ns), NEW ns2, ns2 \in Seq(NodeRecords), Frozen(ns, ns2)
  PROVE  /\ Tree(ns2)
         /\ \A n \in DOMAIN ns : n # 1 => HolderIn(ns2, n) = HolderIn(ns, n)
         /\ \A n \in DOMAIN ns : AboveIn(ns2, n) = AboveIn(ns, n)
<1>1. Len(ns2) = Len(ns) /\ DOMAIN ns2 = DOMAIN ns /\ \A n \in DOMAIN ns : ns2[n].body = ns[n].body
  BY DEF Frozen
<1>2. Tree(ns2)
  <2>1. /\ Len(ns) >= 1
        /\ \A m \in DOMAIN ns : \A i \in DOMAIN ns[m].body : ns[m].body[i] \in m + 1 .. Len(ns)
        /\ \A m, q \in DOMAIN ns : \A i \in DOMAIN ns[m].body, j \in DOMAIN ns[q].body :
             ns[m].body[i] = ns[q].body[j] => m = q /\ i = j
        /\ \A n \in 2 .. Len(ns) : \E m \in DOMAIN ns : \E i \in DOMAIN ns[m].body : ns[m].body[i] = n
    BY DEF Tree
  <2>2. \A m \in DOMAIN ns2 : \A i \in DOMAIN ns2[m].body : ns2[m].body[i] \in m + 1 .. Len(ns2)
    BY ONLY <1>1, <2>1
  <2>3. \A m, q \in DOMAIN ns2 : \A i \in DOMAIN ns2[m].body, j \in DOMAIN ns2[q].body :
             ns2[m].body[i] = ns2[q].body[j] => m = q /\ i = j
    BY ONLY <1>1, <2>1
  <2>4. \A n \in 2 .. Len(ns2) : \E m \in DOMAIN ns2 : \E i \in DOMAIN ns2[m].body : ns2[m].body[i] = n
    BY ONLY <1>1, <2>1
  <2> QED
    BY <1>1, <2>1, <2>2, <2>3, <2>4 DEF Tree
<1>3. ASSUME NEW n \in DOMAIN ns, n # 1
      PROVE  HolderIn(ns2, n) = HolderIn(ns, n)
  <2>1. PICK m \in DOMAIN ns : \E i \in DOMAIN ns[m].body : ns[m].body[i] = n
    BY <1>3, HolderHolds
  <2>2. PICK i \in DOMAIN ns[m].body : ns[m].body[i] = n
    BY <2>1
  <2>3. HolderIn(ns, ns[m].body[i]) = m
    BY HolderIs
  <2>4. m \in DOMAIN ns2 /\ i \in DOMAIN ns2[m].body /\ ns2[m].body[i] = n
    BY <1>1, <2>2
  <2>5. HolderIn(ns2, ns2[m].body[i]) = m
    BY <1>2, <2>4, HolderIs
  <2> QED
    BY <2>2, <2>3, <2>4, <2>5
<1> DEFINE Odd(n) == AboveIn(ns2, n) # AboveIn(ns, n)
           S == {n \in DOMAIN ns : Odd(n)}
<1>4. DOMAIN ns = 1 .. Len(ns) /\ Len(ns) \in Nat
  BY DEF Tree
<1>5. ASSUME NEW n \in S
      PROVE  \E j \in S : j < n
  <2>1. n \in DOMAIN ns /\ n # 1 /\ AboveIn(ns2, n) # AboveIn(ns, n)
    BY <1>2, AboveIs
  <2> DEFINE h == HolderIn(ns, n)
  <2>2. h \in DOMAIN ns /\ h \in 1 .. n - 1 /\ HolderIn(ns2, n) = h
    BY <1>3, <2>1, HolderHolds
  <2>3. AboveIn(ns, n) = {h} \cup AboveIn(ns, h) /\ AboveIn(ns2, n) = {h} \cup AboveIn(ns2, h)
    BY <1>1, <1>2, <2>1, <2>2, AboveIs
  <2> HIDE DEF h
  <2>4. AboveIn(ns2, h) # AboveIn(ns, h)
    BY ONLY <2>1, <2>3
  <2>5. h \in S /\ h < n
    BY <1>4, <2>1, <2>2, <2>4
  <2> QED
    BY <2>5
<1>6. S = {}
  <2>1. S \in SUBSET Nat
    BY <1>4
  <2> HIDE DEF S
  <2> QED
    BY ONLY <1>5, <2>1, NoLeastNoElement
<1> QED
  BY <1>2, <1>3, <1>6

(* The block of a function gets to know the block the function is in.           *)
(* The body of function f is given its parent.                                  *)
Relinks(ns, f, ns2) == ns2 = [ns EXCEPT ![ns[f].body[1]].parent = HolderIn(ns, f)]

LEMMA Relinked ==
  ASSUME NEW ns, Tree(ns), Formed(ns), Sorted(ns), NEW op, Path(ns, op),
         NEW f \in DOMAIN ns, ns[f].kind \in FunctionKinds, NEW ns2, Relinks(ns, f, ns2)
  PROVE  /\ Tree(ns2) /\ Formed(ns2) /\ Sorted(ns2) /\ Path(ns2, op)
         /\ Frozen(ns, ns2) /\ ns2 \in Seq(NodeRecords)
         /\ ns[f].body[1] \in DOMAIN ns /\ HolderIn(ns, ns[f].body[1]) = f
         /\ ns2[ns[f].body[1]].parent = HolderIn(ns, f)
         /\ \A n \in DOMAIN ns : n # ns[f].body[1] => ns2[n].parent = ns[n].parent
<1> DEFINE b == ns[f].body[1]
           h == HolderIn(ns, f)
<1>1. ns \in Seq(NodeRecords) /\ Len(ns) \in Nat /\ DOMAIN ns = 1 .. Len(ns) /\ 1 \in DOMAIN ns
  BY DEF Tree
<1>2. 1 \in DOMAIN ns[f].body
  <2>1. FormOf(ns[f]) /\ ns[f] \in NodeRecords
    BY <1>1 DEF Formed, Form
  <2>2. Len(ns[f].body) = 1 /\ ns[f].body \in Seq(Nat)
    BY <2>1 DEF FormOf, NodeRecords
  <2> QED
    BY <2>2
<1>3. b \in DOMAIN ns /\ HolderIn(ns, b) = f /\ b # 1
  BY <1>2, UnderHolder
<1>4. f # 1
  BY DEF Formed, FunctionKinds
<1>5. h \in DOMAIN ns /\ h \in Nat
  BY <1>1, <1>4, HolderHolds
<1> HIDE DEF b, h
<1> DEFINE r == [ns[b] EXCEPT !.parent = h]
<1>6. ns[b] \in NodeRecords
  BY <1>1, <1>3
<1>7. /\ r \in NodeRecords /\ r.parent = h /\ r.kind = ns[b].kind /\ r.body = ns[b].body
      /\ r.name = ns[b].name /\ r.argument = ns[b].argument /\ r.type = ns[b].type
      /\ r.value = ns[b].value /\ r.label = ns[b].label /\ r.function = ns[b].function
  BY <1>5, <1>6 DEF NodeRecords
<1>8. ns2 = [ns EXCEPT ![b] = r]
  BY DEF b, h, Relinks
<1> HIDE DEF r
<1>9. /\ ns2 \in Seq(NodeRecords) /\ Len(ns2) = Len(ns) /\ DOMAIN ns2 = DOMAIN ns
      /\ ns2[b] = r /\ \A n \in DOMAIN ns : n # b => ns2[n] = ns[n]
  <2>1. r \in NodeRecords
    BY <1>7
  <2>2. /\ ns2 \in Seq(NodeRecords) /\ Len(ns2) = Len(ns)
        /\ ns2[b] = r /\ \A n \in 1 .. Len(ns) : n # b => ns2[n] = ns[n]
    BY ONLY <1>1, <1>3, <1>8, <2>1
  <2> QED
    BY <1>1, <2>2
<1>10. Frozen(ns, ns2)
  <2> SUFFICES ASSUME NEW n \in DOMAIN ns
               PROVE  /\ ns2[n].kind = ns[n].kind /\ ns2[n].body = ns[n].body /\ ns2[n].name = ns[n].name
                      /\ ns2[n].argument = ns[n].argument /\ ns2[n].type = ns[n].type /\ ns2[n].value = ns[n].value
                      /\ ns2[n].label = ns[n].label /\ ns2[n].function = ns[n].function
    BY <1>9 DEF Frozen
  <2>1. CASE n = b
    BY <1>7, <1>9, <2>1
  <2>2. CASE n # b
    BY <1>9, <2>2
  <2> QED
    BY <2>1, <2>2
<1>11. /\ Tree(ns2)
       /\ \A n \in DOMAIN ns : n # 1 => HolderIn(ns2, n) = HolderIn(ns, n)
       /\ \A n \in DOMAIN ns : AboveIn(ns2, n) = AboveIn(ns, n)
  BY ONLY <1>9, <1>10, Tree(ns), FrozenAbove
<1>12. \A n \in DOMAIN ns : \A i \in DOMAIN ns[n].body : ns[n].body[i] \in DOMAIN ns
  BY UnderHolder
<1>13. \A n \in DOMAIN ns : ns2[n].kind = ns[n].kind /\ ns2[n].body = ns[n].body
  BY <1>10 DEF Frozen
<1>14. ns2[b].parent = h /\ \A n \in DOMAIN ns : n # b => ns2[n].parent = ns[n].parent
  BY <1>7, <1>9
<1>15. Formed(ns2)
  <2>1. ns2[1].kind = "block" /\ ns2[1].parent = 0 /\ ns2[1].function = 0
    BY <1>1, <1>3, <1>10, <1>14 DEF Formed, Frozen
  <2>2. ASSUME NEW n \in DOMAIN ns
        PROVE  Form(ns2, n)
    <3>1. Form(ns, n)
      BY DEF Formed
    <3>2. FormOf(ns2[n])
      BY <1>10, <3>1 DEF Form, FormOf, Frozen
    <3>3. ns[n].kind # "block" => \A i \in DOMAIN ns[n].body : ns[ns[n].body[i]].kind = "block"
      BY <3>1 DEF Form
    <3>4. ns2[n].kind # "block" => \A i \in DOMAIN ns2[n].body : ns2[ns2[n].body[i]].kind = "block"
      BY ONLY <1>12, <1>13, <3>3, n \in DOMAIN ns
    <3> QED
      BY <3>2, <3>4 DEF Form
  <2>3. ASSUME NEW m \in DOMAIN ns, NEW i \in DOMAIN ns[m].body
        PROVE  Link(ns2, m, ns[m].body[i])
    <3> DEFINE n == ns[m].body[i]
    <3>1. n \in DOMAIN ns /\ HolderIn(ns, n) = m /\ Link(ns, m, n)
      BY UnderHolder DEF Formed
    <3> HIDE DEF n
    <3>2. ns2[m].kind = ns[m].kind /\ ns2[n].function = ns[n].function
      BY <1>10, <3>1 DEF Frozen
    <3>3. m # 1 => HolderIn(ns2, m) = HolderIn(ns, m)
      BY <1>11
    <3>4. ns[m].kind \in FunctionKinds => m # 1
      BY DEF Formed, FunctionKinds
    <3>5. CASE n = b
      <4>1. m = f
        BY <1>3, <3>1, <3>5
      <4>2. ns2[n].parent = HolderIn(ns, m)
        BY <1>14, <3>5, <4>1 DEF h
      <4>3. Link(ns2, m, n)
        BY ONLY <3>1, <3>2, <3>3, <3>4, <4>1, <4>2, ns[f].kind \in FunctionKinds DEF Link
      <4> QED
        BY <4>3 DEF n
    <3>6. CASE n # b
      <4>1. ns2[n].parent = ns[n].parent
        BY <1>14, <3>1, <3>6
      <4>2. Link(ns2, m, n)
        BY ONLY <3>1, <3>2, <3>3, <3>4, <4>1 DEF Link
      <4> QED
        BY <4>2 DEF n
    <3> QED
      BY <3>5, <3>6
  <2>4. \A m \in DOMAIN ns2 : \A i \in DOMAIN ns2[m].body : Link(ns2, m, ns2[m].body[i])
    BY ONLY <1>9, <1>13, <2>3
  <2> QED
    BY <1>9, <2>1, <2>2, <2>4 DEF Formed
<1>16. Sorted(ns2)
  <2> DEFINE Right(m, i, j) ==
               /\ ns2[ns[m].body[i]].kind \in VariableKinds => ns[m].body[i] < ns[m].body[j]
               /\ ns2[ns[m].body[j]].kind \in VariableKinds =>
                    \A n \in DOMAIN ns : Under(ns2, ns[m].body[i], n) => n < ns[m].body[j]
  <2>4. SUFFICES ASSUME NEW m \in DOMAIN ns, NEW i \in DOMAIN ns[m].body, NEW j \in DOMAIN ns[m].body, i < j
                 PROVE  Right(m, i, j)
    <3>1. \A m \in DOMAIN ns : \A i, j \in DOMAIN ns[m].body : i < j => Right(m, i, j)
      BY <2>4
    <3> QED
      BY ONLY <1>9, <1>13, <3>1 DEF Sorted
  <2>1. /\ ns[ns[m].body[i]].kind \in VariableKinds => ns[m].body[i] < ns[m].body[j]
        /\ ns[ns[m].body[j]].kind \in VariableKinds =>
             \A n \in DOMAIN ns : Under(ns, ns[m].body[i], n) => n < ns[m].body[j]
    BY <2>4 DEF Sorted
  <2>2. ns2[ns[m].body[i]].kind = ns[ns[m].body[i]].kind /\ ns2[ns[m].body[j]].kind = ns[ns[m].body[j]].kind
    BY <1>12, <1>13
  <2>3. \A n \in DOMAIN ns : \A x : Under(ns2, x, n) <=> Under(ns, x, n)
    BY <1>11 DEF Under
  <2> QED
    BY ONLY <2>1, <2>2, <2>3
<1>17. Path(ns2, op)
  <2>1. op \in Seq(DOMAIN ns) /\ op # <<>> /\ Len(op) \in Nat /\ Len(op) \in DOMAIN op
    BY DEF Path
  <2>2. Last(op) \in DOMAIN ns
    BY <2>1 DEF Last
  <2>3. \A i \in DOMAIN op : ns2[op[i]].kind = "block"
    BY <1>13, <2>1 DEF Path
  <2>4. \A i \in 1 .. Len(op) - 1 : op[i] \in AboveIn(ns2, op[i + 1])
    <3> SUFFICES ASSUME NEW i \in 1 .. Len(op) - 1
                 PROVE  op[i] \in AboveIn(ns2, op[i + 1])
      OBVIOUS
    <3>1. i + 1 \in DOMAIN op
      BY <2>1
    <3>2. op[i + 1] \in DOMAIN ns
      BY <2>1, <3>1
    <3>3. op[i] \in AboveIn(ns, op[i + 1])
      BY DEF Path
    <3> QED
      BY <1>11, <3>2, <3>3
  <2>5. ASSUME NEW m \in DOMAIN ns, m # 1, Under(ns2, m, Last(op))
        PROVE  EndsAt(ns2, m)
    <3>1. EndsAt(ns, m)
      BY <1>11, <2>2, <2>5 DEF Path, AtEnd, Under
    <3> DEFINE q == HolderIn(ns, m)
    <3>2. q \in DOMAIN ns /\ HolderIn(ns2, m) = q
      BY <1>11, <2>5, HolderHolds
    <3>3. EndsAt(ns, m) <=> m = ns[q].body[Len(ns[q].body)] \/ \A i \in DOMAIN ns[q].body : ns[ns[q].body[i]].kind \notin VariableKinds
      BY DEF EndsAt
    <3>4. EndsAt(ns2, m) <=> m = ns2[q].body[Len(ns2[q].body)] \/ \A i \in DOMAIN ns2[q].body : ns2[ns2[q].body[i]].kind \notin VariableKinds
      BY <3>2 DEF EndsAt
    <3> HIDE DEF q
    <3> QED
      BY ONLY <1>12, <1>13, <3>1, <3>2, <3>3, <3>4
  <2>6. op \in Seq(DOMAIN ns2)
    BY <1>9, <2>1
  <2>7. op[1] = 1
    BY DEF Path
  <2> QED
    BY <1>9, <2>1, <2>3, <2>4, <2>5, <2>6, <2>7 DEF Path, AtEnd
<1> QED
  BY <1>3, <1>9, <1>10, <1>11, <1>14, <1>15, <1>16, <1>17 DEF b, h

LEMMA TreeInit ==
  ASSUME Init
  PROVE  TreeInv
<1> DEFINE root == Node("block", 0)
<1>1. nodes = <<root>> /\ open = <<1>> /\ language \in Languages
  BY DEF Init
<1>2. /\ root \in NodeRecords /\ root.body = <<>> /\ root.parent = 0 /\ root.function = 0
      /\ root.kind = "block" /\ root.value = NoLook /\ root.type = None /\ root.argument = None
  <2>1. "block" \in NodeKinds /\ 0 \in Nat
    BY DEF NodeKinds
  <2> QED
    BY <2>1, NodeFields
<1> HIDE DEF root
<1>3. nodes \in Seq(NodeRecords) /\ Len(nodes) = 1 /\ DOMAIN nodes = {1} /\ nodes[1] = root /\ DOMAIN root.body = {}
  BY <1>1, <1>2
<1>4. Tree(nodes)
  <2>1. \A n : n \notin 2 .. 1
    OBVIOUS
  <2> QED
    BY <1>3, <2>1 DEF Tree
<1>5. Formed(nodes)
  <2>1. FormOf(root)
    BY <1>2 DEF FormOf, FunctionKinds, LoopKinds
  <2> QED
    BY <1>2, <1>3, <2>1 DEF Formed, Form
<1>6. Sorted(nodes)
  BY <1>3 DEF Sorted
<1>7. Path(nodes, open)
  <2>1. open \in Seq(DOMAIN nodes) /\ open # <<>> /\ open[1] = 1 /\ Len(open) = 1 /\ DOMAIN open = {1} /\ Last(open) = 1
    BY <1>1, <1>3 DEF Last
  <2>2. AtEnd(nodes, 1)
    BY <1>3, <1>4, AboveIs DEF AtEnd, Under
  <2>3. \A i : i \notin 1 .. 1 - 1
    OBVIOUS
  <2> QED
    BY <1>2, <1>3, <2>1, <2>2, <2>3 DEF Path
<1> QED
  BY <1>1, <1>4, <1>5, <1>6, <1>7 DEF TreeInv

-----------------------------------------------------------------------------
(* The calls of analyze.                                                     *)

(* What a call still has to come to.                                          *)
Coming(ns, c, n) ==
  \E j \in DOMAIN ns[c.block].body : j >= c.at /\ Under(ns, ns[c.block].body[j], n)
ToCome(ns, cs, n) == \E i \in DOMAIN cs : Coming(ns, cs[i], n)
(* Whose declarations Hoist still has to come to.                              *)
Unhoisted(ns, c, n) ==
  \/ c.at = 0 /\ n \in Range(ns[c.block].body)
  \/ \E j \in DOMAIN ns[c.block].body : j >= c.at /\ ns[c.block].body[j] \in AboveIn(ns, n)
ToHoist(ns, cs, n) == \E i \in DOMAIN cs : Unhoisted(ns, cs[i], n)

(* The block of a function has been given its parent.                          *)
Linked(ns, n) ==
  n = 1 \/ (ns[HolderIn(ns, n)].kind \in FunctionKinds =>
              ns[n].parent = HolderIn(ns, HolderIn(ns, n)))

Called(ns, cs) ==
  /\ cs \in Seq([block : DOMAIN ns, at : Nat])
  /\ \A i \in DOMAIN cs : /\ ns[cs[i].block].kind = "block"
                          /\ cs[i].at <= Len(ns[cs[i].block].body) + 1
Apart(ns, cs) ==
  \A i, k \in DOMAIN cs : i # k => cs[i].block # cs[k].block /\ ~Coming(ns, cs[i], cs[k].block)
AllLinked(ns, b) == \A m \in DOMAIN ns : Under(ns, m, b) => Linked(ns, m)
(* The calls of all the blocks around a block are under way, in the statement that *)
(* it is in.                                                                 *)
Around1(ns, cs, i) ==
  \A b \in AboveIn(ns, cs[i].block) : ns[b].kind = "block" =>
    \E k \in DOMAIN cs :
      /\ k < i /\ cs[k].block = b /\ cs[k].at - 1 \in DOMAIN ns[b].body
      /\ Under(ns, ns[b].body[cs[k].at - 1], cs[i].block)
CallsInv(ns, cs) ==
  /\ Called(ns, cs) /\ Apart(ns, cs)
  /\ \A i \in DOMAIN cs : AllLinked(ns, cs[i].block) /\ Around1(ns, cs, i)

-----------------------------------------------------------------------------
LEMMA UnderTransitive ==
  ASSUME NEW ns, Tree(ns), NEW n \in DOMAIN ns, NEW b, NEW a, Under(ns, b, n), Under(ns, a, b)
  PROVE  b \in DOMAIN ns /\ a \in DOMAIN ns /\ Under(ns, a, n) /\ (a = b \/ b = n => Under(ns, a, n))
<1>1. b \in DOMAIN ns
  BY AboveBefore DEF Under
<1>2. a \in DOMAIN ns
  BY <1>1, AboveBefore DEF Under
<1>3. Under(ns, a, n)
  BY AboveTransitive DEF Under
<1> QED
  BY <1>1, <1>2, <1>3

(* What is above a node comes before it, and what is under it after it.          *)
LEMMA AboveLess ==
  ASSUME NEW ns, Tree(ns), NEW n \in DOMAIN ns, NEW a \in AboveIn(ns, n)
  PROVE  a \in DOMAIN ns /\ a \in Nat /\ n \in Nat /\ a < n
<1>1. AboveIn(ns, n) \subseteq 1 .. n - 1 /\ AboveIn(ns, n) \subseteq DOMAIN ns
  BY AboveBefore
<1>2. DOMAIN ns = 1 .. Len(ns) /\ Len(ns) \in Nat
  BY DEF Tree
<1> QED
  BY <1>1, <1>2

LEMMA RootAbove ==
  ASSUME NEW ns, Tree(ns), NEW n \in DOMAIN ns, n # 1
  PROVE  1 \in AboveIn(ns, n)
<1> DEFINE S == {k \in DOMAIN ns : k # 1 /\ 1 \notin AboveIn(ns, k)}
<1>1. DOMAIN ns = 1 .. Len(ns) /\ Len(ns) \in Nat
  BY DEF Tree
<1>2. ASSUME NEW k \in S
      PROVE  \E j \in S : j < k
  <2>1. k \in DOMAIN ns /\ k # 1 /\ 1 \notin AboveIn(ns, k)
    OBVIOUS
  <2> DEFINE h == HolderIn(ns, k)
  <2>2. h \in DOMAIN ns /\ h \in 1 .. k - 1 /\ AboveIn(ns, k) = {h} \cup AboveIn(ns, h)
    BY <2>1, HolderHolds, AboveIs
  <2> HIDE DEF h
  <2>3. h \in S /\ h < k
    BY <1>1, <2>1, <2>2
  <2> QED
    BY <2>3
<1>3. S = {}
  <2>1. S \in SUBSET Nat
    BY <1>1
  <2> HIDE DEF S
  <2> QED
    BY ONLY <1>2, <2>1, NoLeastNoElement
<1> QED
  BY <1>3

(* The block of a call, and what it holds.                                      *)
LEMMA CallIs ==
  ASSUME NEW ns, Tree(ns), NEW cs, Called(ns, cs), NEW i \in DOMAIN cs
  PROVE  /\ cs[i].block \in DOMAIN ns /\ cs[i].at \in Nat /\ ns[cs[i].block].kind = "block"
         /\ cs[i].at <= Len(ns[cs[i].block].body) + 1
         /\ ns[cs[i].block].body \in Seq(Nat) /\ DOMAIN cs = 1 .. Len(cs) /\ Len(cs) \in Nat
<1>1. cs[i] \in [block : DOMAIN ns, at : Nat] /\ DOMAIN cs = 1 .. Len(cs) /\ Len(cs) \in Nat
  <2> DEFINE C == [block : DOMAIN ns, at : Nat]
  <2>1. cs \in Seq(C)
    BY DEF Called
  <2> HIDE DEF C
  <2>2. cs[i] \in C /\ DOMAIN cs = 1 .. Len(cs) /\ Len(cs) \in Nat
    BY <2>1
  <2> QED
    BY <2>2 DEF C
<1>2. cs[i].block \in DOMAIN ns
  BY <1>1
<1>3. ns[cs[i].block] \in NodeRecords
  BY <1>2 DEF Tree
<1>4. ns[cs[i].block].body \in Seq(Nat)
  BY ONLY <1>3 DEF NodeRecords
<1>5. cs[i].at \in Nat /\ DOMAIN cs = 1 .. Len(cs) /\ Len(cs) \in Nat
  BY <1>1
<1> QED
  BY <1>2, <1>4, <1>5 DEF Called

(* Neither the blocks of the calls nor what is above them is still to come.       *)
LEMMA AboveNotComing ==
  ASSUME NEW ns, Tree(ns), NEW cs, Called(ns, cs), Apart(ns, cs), NEW k \in DOMAIN cs,
         NEW m, Under(ns, m, cs[k].block)
  PROVE  ~ToCome(ns, cs, m)
<1> SUFFICES ASSUME NEW i \in DOMAIN cs, Coming(ns, cs[i], m)
             PROVE  FALSE
  BY DEF ToCome
<1>1. cs[k].block \in DOMAIN ns /\ cs[i].block \in DOMAIN ns
  BY CallIs
<1>2. PICK j \in DOMAIN ns[cs[i].block].body : j >= cs[i].at /\ Under(ns, ns[cs[i].block].body[j], m)
  BY DEF Coming
<1>3. Under(ns, ns[cs[i].block].body[j], cs[k].block)
  BY <1>1, <1>2, UnderTransitive
<1>4. Coming(ns, cs[i], cs[k].block)
  BY <1>2, <1>3 DEF Coming
<1>5. i = k
  BY <1>4 DEF Apart
<1>6. cs[i].block < ns[cs[i].block].body[j] /\ ns[cs[i].block].body[j] \in DOMAIN ns
  BY <1>1, UnderHolder
<1>7. DOMAIN ns \subseteq Nat
  BY DEF Tree
<1>8. ns[cs[i].block].body[j] # cs[i].block /\ ns[cs[i].block].body[j] \notin AboveIn(ns, cs[i].block)
  BY <1>1, <1>6, <1>7, AboveLess
<1> QED
  BY <1>3, <1>5, <1>8 DEF Under

(* A statement of a block with a call is to come if its call has not come to it.   *)
LEMMA StatementComing ==
  ASSUME NEW ns, Tree(ns), NEW cs, Called(ns, cs), Apart(ns, cs), NEW k \in DOMAIN cs,
         NEW j \in DOMAIN ns[cs[k].block].body
  PROVE  /\ ToCome(ns, cs, ns[cs[k].block].body[j]) <=> j >= cs[k].at
         /\ ToHoist(ns, cs, ns[cs[k].block].body[j]) <=> cs[k].at = 0
<1> DEFINE b == cs[k].block
           v == ns[b].body[j]
<1>1. b \in DOMAIN ns
  BY CallIs
<1>2. v \in DOMAIN ns /\ AboveIn(ns, v) = {b} \cup AboveIn(ns, b) /\ HolderIn(ns, v) = b
  BY <1>1, UnderHolder
<1>3. j >= cs[k].at => Coming(ns, cs[k], v)
  BY DEF Coming, Under
<1>4. ~ToCome(ns, cs, b)
  BY <1>1, AboveNotComing DEF Under
<1>5. ASSUME NEW i \in DOMAIN cs, Coming(ns, cs[i], v)
      PROVE  i = k /\ j >= cs[k].at
  <2>1. cs[i].block \in DOMAIN ns
    BY CallIs
  <2>2. PICK q \in DOMAIN ns[cs[i].block].body : q >= cs[i].at /\ Under(ns, ns[cs[i].block].body[q], v)
    BY <1>5 DEF Coming
  <2>3. ~Under(ns, ns[cs[i].block].body[q], b)
    BY <1>4, <2>2 DEF ToCome, Coming
  <2>4. ns[cs[i].block].body[q] = v
    BY <1>2, <2>2, <2>3 DEF Under
  <2>5. cs[i].block = b
    BY <1>2, <2>1, <2>4, HolderIs
  <2>6. i = k
    BY <2>5 DEF Apart
  <2>7. q = j
    <3>1. \A x, y \in DOMAIN ns[b].body : ns[b].body[x] = ns[b].body[y] => x = y
      BY <1>1 DEF Tree
    <3> QED
      BY <2>4, <2>5, <3>1
  <2> QED
    BY <2>2, <2>6, <2>7
<1>6. ToCome(ns, cs, v) <=> j >= cs[k].at
  BY <1>3, <1>5 DEF ToCome
<1>7. cs[k].at = 0 => Unhoisted(ns, cs[k], v)
  BY DEF Unhoisted, Range
<1>8. ASSUME NEW i \in DOMAIN cs, Unhoisted(ns, cs[i], v)
      PROVE  cs[k].at = 0
  <2>1. cs[i].block \in DOMAIN ns
    BY CallIs
  <2>2. CASE cs[i].at = 0 /\ v \in Range(ns[cs[i].block].body)
    <3>1. PICK q \in DOMAIN ns[cs[i].block].body : v = ns[cs[i].block].body[q]
      BY <2>2 DEF Range
    <3>2. cs[i].block = b
      BY <1>2, <2>1, <3>1, HolderIs
    <3>3. i = k
      BY <3>2 DEF Apart
    <3> QED
      BY <2>2, <3>3
  <2>3. ASSUME NEW q \in DOMAIN ns[cs[i].block].body, q >= cs[i].at, ns[cs[i].block].body[q] \in AboveIn(ns, v)
        PROVE  FALSE
    <3>1. Under(ns, ns[cs[i].block].body[q], b)
      BY <1>2, <2>3 DEF Under
    <3> QED
      BY <1>4, <2>3, <3>1 DEF ToCome, Coming
  <2> QED
    BY <1>8, <2>2, <2>3 DEF Unhoisted
<1>9. ToHoist(ns, cs, v) <=> cs[k].at = 0
  BY <1>7, <1>8 DEF ToHoist
<1> QED
  BY <1>6, <1>9

(* All the calls are but the last, or above it: what is under a statement that    *)
(* the last has still to come to, no other has.                                *)
LEMMA OnlyLastComes ==
  ASSUME NEW ns, Tree(ns), NEW cs, CallsInv(ns, cs), cs # <<>>,
         NEW j \in DOMAIN ns[cs[Len(cs)].block].body, j >= cs[Len(cs)].at,
         NEW n \in DOMAIN ns, Under(ns, ns[cs[Len(cs)].block].body[j], n),
         NEW i \in DOMAIN cs, Coming(ns, cs[i], n)
  PROVE  i = Len(cs)
<1> DEFINE L == Len(cs)
           b == cs[L].block
           s == ns[b].body[j]
<1>1. Called(ns, cs) /\ Apart(ns, cs)
  BY DEF CallsInv
<1>2. L \in DOMAIN cs /\ DOMAIN cs = 1 .. L /\ L \in Nat
  BY <1>1 DEF Called
<1>3. b \in DOMAIN ns /\ cs[i].block \in DOMAIN ns /\ ns[b].kind = "block"
  BY <1>1, <1>2, CallIs
<1>4. s \in DOMAIN ns /\ HolderIn(ns, s) = b /\ AboveIn(ns, s) = {b} \cup AboveIn(ns, b)
  <2>1. j \in DOMAIN ns[b].body
    OBVIOUS
  <2> QED
    BY ONLY Tree(ns), <1>3, <2>1, UnderHolder
<1>5. PICK q \in DOMAIN ns[cs[i].block].body : q >= cs[i].at /\ Under(ns, ns[cs[i].block].body[q], n)
  BY DEF Coming
<1> DEFINE v == ns[cs[i].block].body[q]
<1>6. v \in DOMAIN ns /\ AboveIn(ns, v) = {cs[i].block} \cup AboveIn(ns, cs[i].block) /\ HolderIn(ns, v) = cs[i].block
  BY <1>3, UnderHolder
<1>7. Under(ns, v, s) \/ Under(ns, s, v)
  BY <1>5, AboveChain
<1>8. CASE s = v
  <2>1. cs[i].block = cs[L].block
    BY <1>4, <1>6, <1>8
  <2> QED
    BY <1>1, <1>2, <2>1 DEF Apart
<1>9. CASE v \in AboveIn(ns, s)
  <2>1. Under(ns, v, b)
    BY <1>4, <1>9 DEF Under
  <2>2. Coming(ns, cs[i], b)
    BY <1>5, <2>1 DEF Coming
  <2> QED
    BY <1>1, <1>2, <2>2 DEF Apart
<1>10. CASE s \in AboveIn(ns, v)
  <2>1. Under(ns, s, cs[i].block)
    BY <1>6, <1>10 DEF Under
  <2>2. Under(ns, b, s)
    BY <1>4 DEF Under
  <2>3. Under(ns, b, cs[i].block) /\ cs[i].block # b
    <3>1. Under(ns, b, cs[i].block)
      BY <1>3, <2>1, <2>2, UnderTransitive
    <3>2. cs[i].block # b
      <4>1. Under(ns, s, b) => FALSE
        <5>1. b \in AboveIn(ns, s) /\ DOMAIN ns \subseteq Nat
          BY <1>4 DEF Tree
        <5> QED
          BY <1>3, <1>4, <5>1, AboveLess DEF Under
      <4> QED
        BY <2>1, <4>1
    <3> QED
      BY <3>1, <3>2
  <2>4. b \in AboveIn(ns, cs[i].block)
    BY <2>3 DEF Under
  <2>5. Around1(ns, cs, i)
    BY DEF CallsInv
  <2>6. PICK k \in DOMAIN cs : k < i /\ cs[k].block = b
    BY <1>3, <2>4, <2>5 DEF Around1
  <2>7. k = L
    BY <1>1, <1>2, <2>6 DEF Apart
  <2> QED
    BY <1>2, <2>6, <2>7
<1> QED
  BY <1>7, <1>8, <1>9, <1>10 DEF Under

-----------------------------------------------------------------------------
(* What the analysis does with its calls.                                    *)

(* The blocks that a statement is analyzed by, which are next.                 *)
Inner(ns, s) == IF ns[s].kind = "block" THEN {s} ELSE Range(ns[s].body)
(* The call of block b goes over what is in b, all of it.                       *)
Entering(ns, s, inner) ==
  /\ \A x \in inner : x \in DOMAIN ns /\ ns[x].kind = "block" /\ Under(ns, s, x)
  /\ \A x, y \in inner : x # y => ~Under(ns, x, y)
  /\ \A n \in DOMAIN ns : Under(ns, s, n) /\ n # s /\ n \notin inner =>
       \E x \in inner : x \in AboveIn(ns, n)
  /\ \A x \in inner : \A a \in AboveIn(ns, x) : ns[a].kind = "block" => a \in AboveIn(ns, s)
  /\ \A x \in inner : \A a : Under(ns, a, x) => a = x \/ a = s \/ a \in AboveIn(ns, s)

LEMMA InnerEnters ==
  ASSUME NEW ns, Tree(ns), Formed(ns), NEW s \in DOMAIN ns
  PROVE  Entering(ns, s, Inner(ns, s))
<1>1. DOMAIN ns \subseteq Nat
  BY DEF Tree
<1>2. CASE ns[s].kind = "block"
  <2>1. Inner(ns, s) = {s}
    BY <1>2 DEF Inner
  <2> QED
    BY <1>2, <2>1 DEF Entering, Under
<1>3. CASE ns[s].kind # "block"
  <2>1. \A x \in Inner(ns, s) : \E i \in DOMAIN ns[s].body : x = ns[s].body[i]
    BY <1>3 DEF Inner, Range
  <2>2. \A i \in DOMAIN ns[s].body : ns[s].body[i] \in Inner(ns, s)
    BY <1>3 DEF Inner, Range
  <2>3. \A x \in Inner(ns, s) : /\ x \in DOMAIN ns /\ HolderIn(ns, x) = s /\ s < x
                                /\ AboveIn(ns, x) = {s} \cup AboveIn(ns, s)
    BY <2>1, UnderHolder
  <2>4. \A x \in Inner(ns, s) : ns[x].kind = "block"
    BY <1>3, <2>1 DEF Formed, Form
  <2>5. \A x, y \in Inner(ns, s) : x # y => ~Under(ns, x, y)
    <3> SUFFICES ASSUME NEW x \in Inner(ns, s), NEW y \in Inner(ns, s), x # y, Under(ns, x, y)
                 PROVE  FALSE
      OBVIOUS
    <3>1. x \in AboveIn(ns, y)
      BY DEF Under
    <3>2. x = s \/ x \in AboveIn(ns, s)
      BY <2>3, <3>1
    <3>3. x \in Nat /\ s \in Nat /\ s < x
      BY <1>1, <2>3
    <3>4. x \in AboveIn(ns, s) => x < s
      BY AboveLess
    <3> QED
      BY <3>2, <3>3, <3>4
  <2>6. \A n \in DOMAIN ns : Under(ns, s, n) /\ n # s /\ n \notin Inner(ns, s) =>
          \E x \in Inner(ns, s) : x \in AboveIn(ns, n)
    <3> SUFFICES ASSUME NEW n \in DOMAIN ns, Under(ns, s, n), n # s, n \notin Inner(ns, s)
                 PROVE  \E x \in Inner(ns, s) : x \in AboveIn(ns, n)
      OBVIOUS
    <3>1. s \in AboveIn(ns, n)
      BY DEF Under
    <3>2. PICK i \in DOMAIN ns[s].body : Under(ns, ns[s].body[i], n)
      BY <3>1, AboveDown
    <3> QED
      BY <2>2, <3>2 DEF Under
  <2> QED
    BY <1>3, <2>3, <2>4, <2>5, <2>6 DEF Entering, Under
<1> QED
  BY <1>2, <1>3

(* The last call goes on by one statement, and calls of inner follow.            *)
Pushed(ns, cs, cs2, inner) ==
  /\ cs2 \in Seq([block : DOMAIN ns, at : Nat]) /\ Len(cs) >= 1 /\ Len(cs2) >= Len(cs)
  /\ \A i \in DOMAIN cs : i < Len(cs) => cs2[i] = cs[i]
  /\ cs2[Len(cs)].block = cs[Len(cs)].block /\ cs2[Len(cs)].at = cs[Len(cs)].at + 1
  /\ \A i \in DOMAIN cs2 : i > Len(cs) => cs2[i].at = 0 /\ cs2[i].block \in inner
  /\ \A x \in inner : \E i \in DOMAIN cs2 : i > Len(cs) /\ cs2[i].block = x
  /\ \A i, k \in DOMAIN cs2 : i > Len(cs) /\ k > Len(cs) /\ i # k => cs2[i].block # cs2[k].block

LEMMA NewCall ==
  ASSUME NEW ns, Tree(ns), NEW x \in DOMAIN ns, NEW n \in DOMAIN ns, NEW c, c.block = x, c.at = 0
  PROVE  /\ Coming(ns, c, n) <=> x \in AboveIn(ns, n)
         /\ Unhoisted(ns, c, n) <=> x \in AboveIn(ns, n)
<1>1. ns[x] \in NodeRecords
  BY DEF Tree
<1>2. ns[x].body \in Seq(Nat)
  BY <1>1 DEF NodeRecords
<1>3. \A i \in DOMAIN ns[x].body : i >= 0
  BY <1>2
<1>4. \A i \in DOMAIN ns[x].body : x \in AboveIn(ns, ns[x].body[i]) /\ ns[x].body[i] \in DOMAIN ns
  BY UnderHolder
<1>5. \A i \in DOMAIN ns[x].body : Under(ns, ns[x].body[i], n) => x \in AboveIn(ns, n)
  <2> SUFFICES ASSUME NEW i \in DOMAIN ns[x].body, Under(ns, ns[x].body[i], n)
               PROVE  x \in AboveIn(ns, n)
    OBVIOUS
  <2>1. CASE n = ns[x].body[i]
    BY <1>4, <2>1
  <2>2. CASE ns[x].body[i] \in AboveIn(ns, n)
    BY <1>4, <2>2, AboveTransitive
  <2> QED
    BY <2>1, <2>2 DEF Under
<1>6. x \in AboveIn(ns, n) => \E i \in DOMAIN ns[x].body : Under(ns, ns[x].body[i], n)
  BY AboveDown
<1>7. Coming(ns, c, n) <=> x \in AboveIn(ns, n)
  BY <1>3, <1>5, <1>6 DEF Coming
<1>8. Unhoisted(ns, c, n) <=> \E i \in DOMAIN ns[x].body : Under(ns, ns[x].body[i], n)
  BY <1>3 DEF Unhoisted, Under, Range
<1> QED
  BY <1>5, <1>6, <1>7, <1>8

LEMMA LaterCall ==
  ASSUME NEW ns, Tree(ns), NEW c, NEW c2, c2.block = c.block, c2.at = c.at + 1, c.block \in DOMAIN ns,
         c.at \in DOMAIN ns[c.block].body, NEW n \in DOMAIN ns
  PROVE  /\ Coming(ns, c2, n) <=> Coming(ns, c, n) /\ ~Under(ns, ns[c.block].body[c.at], n)
         /\ Unhoisted(ns, c2, n) <=> Unhoisted(ns, c, n) /\ ns[c.block].body[c.at] \notin AboveIn(ns, n)
         /\ Under(ns, ns[c.block].body[c.at], n) => Coming(ns, c, n)
         /\ ns[c.block].body[c.at] \in AboveIn(ns, n) => Unhoisted(ns, c, n)
<1>1. ns[c.block] \in NodeRecords
  BY DEF Tree
<1>2. ns[c.block].body \in Seq(Nat)
  BY <1>1 DEF NodeRecords
<1>3. c.at \in Nat /\ c.at >= 1 /\ DOMAIN ns[c.block].body \subseteq Nat
  BY <1>2
<1>4. \A j \in DOMAIN ns[c.block].body : j >= c2.at <=> j >= c.at /\ j # c.at
  BY <1>3
<1>5. \A j \in DOMAIN ns[c.block].body :
        Under(ns, ns[c.block].body[j], n) /\ Under(ns, ns[c.block].body[c.at], n) => j = c.at
  BY SiblingsApart
<1>6. c.at # 0 /\ c2.at # 0 /\ c.at >= c.at
  BY <1>3
<1>7. Coming(ns, c2, n) <=> Coming(ns, c, n) /\ ~Under(ns, ns[c.block].body[c.at], n)
  BY <1>4, <1>5 DEF Coming
<1>8. Unhoisted(ns, c2, n) <=> Unhoisted(ns, c, n) /\ ns[c.block].body[c.at] \notin AboveIn(ns, n)
  BY <1>4, <1>5, <1>6 DEF Unhoisted, Under
<1>9. Under(ns, ns[c.block].body[c.at], n) => Coming(ns, c, n)
  BY <1>6 DEF Coming
<1>10. ns[c.block].body[c.at] \in AboveIn(ns, n) => Unhoisted(ns, c, n)
  BY <1>6 DEF Unhoisted
<1> QED
  BY <1>7, <1>8, <1>9, <1>10

(* A call goes on by a statement, and goes into it.                             *)
Step(ns, cs, cs2, inner) ==
  /\ Tree(ns) /\ CallsInv(ns, cs) /\ Pushed(ns, cs, cs2, inner)
  /\ cs[Len(cs)].at \in DOMAIN ns[cs[Len(cs)].block].body
  /\ Entering(ns, ns[cs[Len(cs)].block].body[cs[Len(cs)].at], inner)
StepAt(ns, cs) == ns[cs[Len(cs)].block].body[cs[Len(cs)].at]

LEMMA PushIs ==
  ASSUME NEW ns, NEW cs, NEW cs2, NEW inner, Step(ns, cs, cs2, inner)
  PROVE  /\ Tree(ns) /\ Called(ns, cs) /\ Apart(ns, cs)
         /\ Len(cs) \in DOMAIN cs /\ DOMAIN cs = 1 .. Len(cs) /\ Len(cs) \in Nat /\ cs # <<>>
         /\ DOMAIN cs2 = 1 .. Len(cs2) /\ Len(cs2) \in Nat /\ DOMAIN cs \subseteq DOMAIN cs2
         /\ \A i \in DOMAIN cs : cs2[i].block = cs[i].block /\ cs[i].block \in DOMAIN ns
         /\ cs[Len(cs)].at \in DOMAIN ns[cs[Len(cs)].block].body
         /\ StepAt(ns, cs) \in DOMAIN ns /\ HolderIn(ns, StepAt(ns, cs)) = cs[Len(cs)].block
         /\ AboveIn(ns, StepAt(ns, cs)) = {cs[Len(cs)].block} \cup AboveIn(ns, cs[Len(cs)].block)
         /\ cs[Len(cs)].at \in Nat /\ Entering(ns, StepAt(ns, cs), inner)
<1> DEFINE C == [block : DOMAIN ns, at : Nat]
<1>1. Tree(ns) /\ Called(ns, cs) /\ Apart(ns, cs)
  BY DEF Step, CallsInv
<1>2. cs \in Seq(C) /\ cs2 \in Seq(C) /\ Len(cs) >= 1 /\ Len(cs2) >= Len(cs)
  BY <1>1 DEF Step, Called, Pushed
<1> HIDE DEF C
<1>3. /\ Len(cs) \in DOMAIN cs /\ DOMAIN cs = 1 .. Len(cs) /\ Len(cs) \in Nat
      /\ DOMAIN cs2 = 1 .. Len(cs2) /\ Len(cs2) \in Nat /\ DOMAIN cs \subseteq DOMAIN cs2
  BY <1>2
<1>4. \A i \in DOMAIN cs : cs2[i].block = cs[i].block
  <2> SUFFICES ASSUME NEW i \in DOMAIN cs
               PROVE  cs2[i].block = cs[i].block
    OBVIOUS
  <2>1. CASE i = Len(cs)
    BY <2>1 DEF Step, Pushed
  <2>2. CASE i < Len(cs)
    BY <2>2 DEF Step, Pushed
  <2> QED
    BY <1>3, <2>1, <2>2
<1>5. \A i \in DOMAIN cs : cs[i].block \in DOMAIN ns
  BY <1>1, CallIs
<1>6. cs[Len(cs)].at \in DOMAIN ns[cs[Len(cs)].block].body
  BY DEF Step
<1>7. /\ StepAt(ns, cs) \in DOMAIN ns /\ HolderIn(ns, StepAt(ns, cs)) = cs[Len(cs)].block
      /\ AboveIn(ns, StepAt(ns, cs)) = {cs[Len(cs)].block} \cup AboveIn(ns, cs[Len(cs)].block)
  <2> DEFINE b == cs[Len(cs)].block
             j == cs[Len(cs)].at
  <2>1. b \in DOMAIN ns /\ j \in DOMAIN ns[b].body /\ StepAt(ns, cs) = ns[b].body[j]
    BY <1>3, <1>5, <1>6 DEF StepAt
  <2> HIDE DEF b, j
  <2>2. /\ ns[b].body[j] \in DOMAIN ns /\ HolderIn(ns, ns[b].body[j]) = b
        /\ AboveIn(ns, ns[b].body[j]) = {b} \cup AboveIn(ns, b)
    BY <1>1, <2>1, UnderHolder
  <2> QED
    BY <2>1, <2>2 DEF b
<1>8. cs[Len(cs)].at \in Nat
  BY <1>1, <1>3, CallIs
<1>9. Entering(ns, StepAt(ns, cs), inner)
  BY DEF Step, StepAt
<1>10. cs # <<>>
  BY <1>2
<1> QED
  BY <1>1, <1>3, <1>4, <1>5, <1>6, <1>7, <1>8, <1>9, <1>10

(* What each call has still to come to after the step.                          *)
LEMMA PushComes ==
  ASSUME NEW ns, NEW cs, NEW cs2, NEW inner, Step(ns, cs, cs2, inner), NEW n \in DOMAIN ns
  PROVE  /\ \A i \in DOMAIN cs : i # Len(cs) =>
              /\ Coming(ns, cs2[i], n) <=> Coming(ns, cs[i], n)
              /\ Unhoisted(ns, cs2[i], n) <=> Unhoisted(ns, cs[i], n)
         /\ Coming(ns, cs2[Len(cs)], n) <=> Coming(ns, cs[Len(cs)], n) /\ ~Under(ns, StepAt(ns, cs), n)
         /\ Unhoisted(ns, cs2[Len(cs)], n) <=>
              Unhoisted(ns, cs[Len(cs)], n) /\ StepAt(ns, cs) \notin AboveIn(ns, n)
         /\ \A i \in DOMAIN cs2 : i \notin DOMAIN cs =>
              /\ cs2[i].block \in inner
              /\ Coming(ns, cs2[i], n) <=> cs2[i].block \in AboveIn(ns, n)
              /\ Unhoisted(ns, cs2[i], n) <=> cs2[i].block \in AboveIn(ns, n)
         /\ Under(ns, StepAt(ns, cs), n) => Coming(ns, cs[Len(cs)], n)
         /\ StepAt(ns, cs) \in AboveIn(ns, n) => Unhoisted(ns, cs[Len(cs)], n)
<1> DEFINE L == Len(cs)
<1>1. Pushed(ns, cs, cs2, inner)
  BY DEF Step
<1>2. \A i \in DOMAIN cs : i # L => cs2[i] = cs[i]
  <2>1. \A i \in DOMAIN cs : i # L => i < L
    BY PushIs
  <2> QED
    BY <1>1, <2>1 DEF Pushed
<1>3. cs2[L].block = cs[L].block /\ cs2[L].at = cs[L].at + 1 /\ cs[L].block \in DOMAIN ns /\ Tree(ns)
      /\ cs[L].at \in DOMAIN ns[cs[L].block].body
  BY <1>1, PushIs DEF Pushed
<1>4. /\ Coming(ns, cs2[L], n) <=> Coming(ns, cs[L], n) /\ ~Under(ns, ns[cs[L].block].body[cs[L].at], n)
      /\ Unhoisted(ns, cs2[L], n) <=> Unhoisted(ns, cs[L], n) /\ ns[cs[L].block].body[cs[L].at] \notin AboveIn(ns, n)
      /\ Under(ns, ns[cs[L].block].body[cs[L].at], n) => Coming(ns, cs[L], n)
      /\ ns[cs[L].block].body[cs[L].at] \in AboveIn(ns, n) => Unhoisted(ns, cs[L], n)
  <2> HIDE DEF L
  <2> QED
    BY ONLY <1>3, n \in DOMAIN ns, LaterCall
<1>5. \A i \in DOMAIN cs2 : i \notin DOMAIN cs =>
        /\ cs2[i].block \in inner
        /\ Coming(ns, cs2[i], n) <=> cs2[i].block \in AboveIn(ns, n)
        /\ Unhoisted(ns, cs2[i], n) <=> cs2[i].block \in AboveIn(ns, n)
  <2> SUFFICES ASSUME NEW i \in DOMAIN cs2, i \notin DOMAIN cs
               PROVE  /\ cs2[i].block \in inner
                      /\ Coming(ns, cs2[i], n) <=> cs2[i].block \in AboveIn(ns, n)
                      /\ Unhoisted(ns, cs2[i], n) <=> cs2[i].block \in AboveIn(ns, n)
    OBVIOUS
  <2>1. i > L
    BY PushIs
  <2>2. cs2[i].block \in inner /\ cs2[i].at = 0
    BY <1>1, <2>1 DEF Pushed
  <2>3. cs2[i].block \in DOMAIN ns
    BY <2>2, PushIs DEF Entering
  <2> QED
    BY <1>3, <2>2, <2>3, NewCall
<1> QED
  BY <1>2, <1>4, <1>5 DEF StepAt

LEMMA StepOnlyLast ==
  ASSUME NEW ns, NEW cs, NEW cs2, NEW inner, Step(ns, cs, cs2, inner), NEW n \in DOMAIN ns,
         Under(ns, StepAt(ns, cs), n), NEW i \in DOMAIN cs, Coming(ns, cs[i], n)
  PROVE  i = Len(cs)
<1>1. CallsInv(ns, cs) /\ Tree(ns)
  BY DEF Step
<1>2. cs[Len(cs)].at \in DOMAIN ns[cs[Len(cs)].block].body /\ cs[Len(cs)].at \in Nat /\ cs # <<>>
  BY PushIs
<1> QED
  BY <1>1, <1>2, OnlyLastComes DEF StepAt

(* Nothing of the statement has a call.                                       *)
LEMMA StepAhead ==
  ASSUME NEW ns, NEW cs, NEW cs2, NEW inner, Step(ns, cs, cs2, inner), NEW i \in DOMAIN cs
  PROVE  ~Under(ns, StepAt(ns, cs), cs[i].block)
<1>1. SUFFICES ASSUME Under(ns, StepAt(ns, cs), cs[i].block)
               PROVE  FALSE
  OBVIOUS
<1>2. cs[i].block \in DOMAIN ns /\ Len(cs) \in DOMAIN cs /\ Tree(ns) /\ Called(ns, cs) /\ Apart(ns, cs)
  BY PushIs
<1>3. Coming(ns, cs[Len(cs)], cs[i].block)
  BY <1>1, <1>2, PushComes
<1>4. ~ToCome(ns, cs, cs[i].block)
  BY <1>2, AboveNotComing DEF Under
<1> QED
  BY <1>2, <1>3, <1>4 DEF ToCome

LEMMA PushToCome ==
  ASSUME NEW ns, NEW cs, NEW cs2, NEW inner, Step(ns, cs, cs2, inner), NEW n \in DOMAIN ns
  PROVE  ToCome(ns, cs2, n) <=> ToCome(ns, cs, n) /\ n # StepAt(ns, cs) /\ n \notin inner
<1> DEFINE L == Len(cs)
           s == StepAt(ns, cs)
<1>1. /\ L \in DOMAIN cs /\ DOMAIN cs \subseteq DOMAIN cs2 /\ Entering(ns, s, inner) /\ Tree(ns)
      /\ s \in DOMAIN ns
  BY PushIs
<1> HIDE DEF s
<1>2. /\ \A i \in DOMAIN cs : i # L => (Coming(ns, cs2[i], n) <=> Coming(ns, cs[i], n))
      /\ Coming(ns, cs2[L], n) <=> Coming(ns, cs[L], n) /\ ~Under(ns, s, n)
      /\ \A i \in DOMAIN cs2 : i \notin DOMAIN cs =>
           cs2[i].block \in inner /\ (Coming(ns, cs2[i], n) <=> cs2[i].block \in AboveIn(ns, n))
      /\ Under(ns, s, n) => Coming(ns, cs[L], n)
  BY PushComes DEF s
<1>3. \A x \in inner : \E i \in DOMAIN cs2 : i \notin DOMAIN cs /\ cs2[i].block = x
  <2>1. \A x \in inner : \E i \in DOMAIN cs2 : i > L /\ cs2[i].block = x
    BY DEF Step, Pushed
  <2>2. \A i \in DOMAIN cs2 : i > L => i \notin DOMAIN cs
    BY PushIs
  <2> QED
    BY <2>1, <2>2
<1>4. \A x \in inner : x \in AboveIn(ns, n) => Under(ns, s, n) /\ n # s /\ n \notin inner
  <2> SUFFICES ASSUME NEW x \in inner, x \in AboveIn(ns, n)
               PROVE  Under(ns, s, n) /\ n # s /\ n \notin inner
    OBVIOUS
  <2>1. Under(ns, s, x) /\ x \in DOMAIN ns
    BY <1>1 DEF Entering
  <2>2. Under(ns, x, n)
    BY DEF Under
  <2>3. Under(ns, s, n)
    BY <1>1, <2>1, <2>2, UnderTransitive
  <2>4. x < n /\ x \in Nat /\ n \in Nat
    BY <1>1, AboveLess
  <2>5. s = x \/ (s \in Nat /\ s < x)
    BY <1>1, <2>1, AboveLess DEF Under
  <2>6. n \notin inner
    BY <1>1, <2>2, <2>4 DEF Entering
  <2> QED
    BY <2>3, <2>4, <2>5, <2>6
<1>5. ASSUME ToCome(ns, cs2, n)
      PROVE  ToCome(ns, cs, n) /\ n # s /\ n \notin inner
  <2>1. PICK i \in DOMAIN cs2 : Coming(ns, cs2[i], n)
    BY <1>5 DEF ToCome
  <2>2. CASE i \in DOMAIN cs
    <3>1. Coming(ns, cs[i], n)
      BY <1>2, <2>1, <2>2
    <3>2. ~Under(ns, s, n)
      <4>1. CASE i = L
        BY <1>2, <2>1, <4>1
      <4>2. CASE i # L
        BY <2>2, <3>1, <4>2, StepOnlyLast DEF s
      <4> QED
        BY <4>1, <4>2
    <3>3. n # s /\ n \notin inner
      BY <1>1, <3>2 DEF Under, Entering
    <3> QED
      BY <2>2, <3>1, <3>3 DEF ToCome
  <2>3. CASE i \notin DOMAIN cs
    <3>1. cs2[i].block \in inner /\ cs2[i].block \in AboveIn(ns, n)
      BY <1>2, <2>1, <2>3
    <3>2. Under(ns, s, n) /\ n # s /\ n \notin inner
      BY <1>4, <3>1
    <3> QED
      BY <1>1, <1>2, <3>2 DEF ToCome
  <2> QED
    BY <2>2, <2>3
<1>6. ASSUME ToCome(ns, cs, n), n # s, n \notin inner
      PROVE  ToCome(ns, cs2, n)
  <2>1. PICK i \in DOMAIN cs : Coming(ns, cs[i], n)
    BY <1>6 DEF ToCome
  <2>2. CASE Under(ns, s, n)
    <3>1. PICK x \in inner : x \in AboveIn(ns, n)
      BY <1>1, <1>6, <2>2 DEF Entering
    <3>2. PICK k \in DOMAIN cs2 : k \notin DOMAIN cs /\ cs2[k].block = x
      BY <1>3
    <3> QED
      BY <1>2, <3>1, <3>2 DEF ToCome
  <2>3. CASE ~Under(ns, s, n)
    <3>1. Coming(ns, cs2[i], n)
      BY <1>2, <2>1, <2>3
    <3> QED
      BY <1>1, <3>1 DEF ToCome
  <2> QED
    BY <2>2, <2>3
<1> QED
  BY <1>5, <1>6 DEF s

LEMMA PushToHoist ==
  ASSUME NEW ns, NEW cs, NEW cs2, NEW inner, Step(ns, cs, cs2, inner), NEW n \in DOMAIN ns, n \notin inner
  PROVE  ToHoist(ns, cs2, n) <=> ToHoist(ns, cs, n)
<1> DEFINE L == Len(cs)
           s == StepAt(ns, cs)
<1>1. /\ L \in DOMAIN cs /\ DOMAIN cs \subseteq DOMAIN cs2 /\ Entering(ns, s, inner) /\ Tree(ns)
      /\ s \in DOMAIN ns
  BY PushIs
<1> HIDE DEF s
<1>2. /\ \A i \in DOMAIN cs : i # L => (Unhoisted(ns, cs2[i], n) <=> Unhoisted(ns, cs[i], n))
      /\ Unhoisted(ns, cs2[L], n) <=> Unhoisted(ns, cs[L], n) /\ s \notin AboveIn(ns, n)
      /\ \A i \in DOMAIN cs2 : i \notin DOMAIN cs =>
           cs2[i].block \in inner /\ (Unhoisted(ns, cs2[i], n) <=> cs2[i].block \in AboveIn(ns, n))
      /\ s \in AboveIn(ns, n) => Unhoisted(ns, cs[L], n)
  BY PushComes DEF s
<1>3. \A x \in inner : \E i \in DOMAIN cs2 : i \notin DOMAIN cs /\ cs2[i].block = x
  <2>1. \A x \in inner : \E i \in DOMAIN cs2 : i > L /\ cs2[i].block = x
    BY DEF Step, Pushed
  <2>2. \A i \in DOMAIN cs2 : i > L => i \notin DOMAIN cs
    BY PushIs
  <2> QED
    BY <2>1, <2>2
<1>4. \A x \in inner : x \in AboveIn(ns, n) => s \in AboveIn(ns, n)
  <2> SUFFICES ASSUME NEW x \in inner, x \in AboveIn(ns, n)
               PROVE  s \in AboveIn(ns, n)
    OBVIOUS
  <2>1. Under(ns, s, x) /\ x \in DOMAIN ns
    BY <1>1 DEF Entering
  <2>2. x = s \/ s \in AboveIn(ns, x)
    BY <2>1 DEF Under
  <2> QED
    BY <1>1, <2>2, AboveTransitive
<1>5. s \in AboveIn(ns, n) => \E x \in inner : x \in AboveIn(ns, n)
  <2>1. s \in AboveIn(ns, n) => s # n
    <3>1. s \in AboveIn(ns, n) => s < n /\ s \in Nat
      BY <1>1, AboveLess
    <3> QED
      BY <3>1
  <2> QED
    BY <1>1, <2>1 DEF Entering, Under
<1>6. ASSUME ToHoist(ns, cs2, n)
      PROVE  ToHoist(ns, cs, n)
  <2>1. PICK i \in DOMAIN cs2 : Unhoisted(ns, cs2[i], n)
    BY <1>6 DEF ToHoist
  <2>2. CASE i \in DOMAIN cs
    BY <1>2, <2>1, <2>2 DEF ToHoist
  <2>3. CASE i \notin DOMAIN cs
    BY <1>1, <1>2, <1>4, <2>1, <2>3 DEF ToHoist
  <2> QED
    BY <2>2, <2>3
<1>7. ASSUME ToHoist(ns, cs, n)
      PROVE  ToHoist(ns, cs2, n)
  <2>1. PICK i \in DOMAIN cs : Unhoisted(ns, cs[i], n)
    BY <1>7 DEF ToHoist
  <2>2. CASE s \in AboveIn(ns, n)
    BY <1>2, <1>3, <1>5, <2>2 DEF ToHoist
  <2>3. CASE s \notin AboveIn(ns, n)
    BY <1>1, <1>2, <2>1, <2>3 DEF ToHoist
  <2> QED
    BY <2>2, <2>3
<1> QED
  BY <1>6, <1>7

LEMMA PushCalls ==
  ASSUME NEW ns, NEW cs, NEW cs2, NEW inner, Step(ns, cs, cs2, inner),
         \A x \in inner : Linked(ns, x), Linked(ns, StepAt(ns, cs))
  PROVE  CallsInv(ns, cs2)
<1> DEFINE L == Len(cs)
           s == StepAt(ns, cs)
           p == cs[L].block
<1>1. /\ L \in DOMAIN cs /\ DOMAIN cs \subseteq DOMAIN cs2 /\ Entering(ns, s, inner) /\ Tree(ns)
      /\ DOMAIN cs = 1 .. L /\ L \in Nat /\ DOMAIN cs2 = 1 .. Len(cs2) /\ Len(cs2) \in Nat
      /\ s \in DOMAIN ns /\ Called(ns, cs) /\ Apart(ns, cs) /\ p \in DOMAIN ns
      /\ AboveIn(ns, s) = {p} \cup AboveIn(ns, p)
      /\ \A i \in DOMAIN cs : cs2[i].block = cs[i].block /\ cs[i].block \in DOMAIN ns
      /\ cs[L].at \in DOMAIN ns[p].body /\ s = ns[p].body[cs[L].at]
  BY PushIs DEF StepAt
<1>2. \A i \in DOMAIN cs2 : i \notin DOMAIN cs => cs2[i].block \in inner /\ cs2[i].at = 0 /\ i > L
  <2>1. \A i \in DOMAIN cs2 : i \notin DOMAIN cs => i > L
    BY <1>1
  <2> QED
    BY <2>1 DEF Step, Pushed
<1>3. \A i \in DOMAIN cs : i # L => cs2[i] = cs[i]
  <2>1. \A i \in DOMAIN cs : i # L => i < L
    BY <1>1
  <2> QED
    BY <2>1 DEF Step, Pushed
<1>4. cs2[L].at = cs[L].at + 1 /\ cs2 \in Seq([block : DOMAIN ns, at : Nat])
  BY DEF Step, Pushed
<1>5. \A x \in inner : x \in DOMAIN ns /\ ns[x].kind = "block" /\ Under(ns, s, x)
  BY <1>1 DEF Entering
<1>6. \A i \in DOMAIN cs : ~Under(ns, s, cs[i].block)
  BY StepAhead
<1> HIDE DEF s
<1>7. Called(ns, cs2)
  <2>1. \A i \in DOMAIN cs : ns[cs[i].block].kind = "block" /\ cs[i].at <= Len(ns[cs[i].block].body) + 1
    BY <1>1 DEF Called
  <2>2. \A n \in DOMAIN ns : Len(ns[n].body) \in Nat
    <3> SUFFICES ASSUME NEW n \in DOMAIN ns
                 PROVE  Len(ns[n].body) \in Nat
      OBVIOUS
    <3>1. ns[n] \in NodeRecords
      BY <1>1 DEF Tree
    <3>2. ns[n].body \in Seq(Nat)
      BY <3>1 DEF NodeRecords
    <3> QED
      BY <3>2
  <2>3. cs[L].at + 1 <= Len(ns[p].body) + 1
    <3>1. ns[p] \in NodeRecords
      BY <1>1 DEF Tree
    <3>2. ns[p].body \in Seq(Nat)
      BY <3>1 DEF NodeRecords
    <3>3. cs[L].at \in 1 .. Len(ns[p].body) /\ Len(ns[p].body) \in Nat
      BY <1>1, <3>2
    <3> QED
      BY <3>3
  <2>4. ASSUME NEW i \in DOMAIN cs2
        PROVE  ns[cs2[i].block].kind = "block" /\ cs2[i].at <= Len(ns[cs2[i].block].body) + 1
    <3>1. CASE i \notin DOMAIN cs
      BY <1>2, <1>5, <2>2, <3>1
    <3>2. CASE i = L
      BY <1>1, <1>4, <2>1, <2>3, <3>2
    <3>3. CASE i \in DOMAIN cs /\ i # L
      BY <1>3, <2>1, <3>3
    <3> QED
      BY <3>1, <3>2, <3>3
  <2> QED
    BY <1>4, <2>4 DEF Called
<1>8. Apart(ns, cs2)
  <2> SUFFICES ASSUME NEW i \in DOMAIN cs2, NEW k \in DOMAIN cs2, i # k
               PROVE  cs2[i].block # cs2[k].block /\ ~Coming(ns, cs2[i], cs2[k].block)
    BY DEF Apart
  <2>1. CASE i \in DOMAIN cs /\ k \in DOMAIN cs
    <3>1. cs[i].block # cs[k].block /\ ~Coming(ns, cs[i], cs[k].block)
      BY <1>1, <2>1 DEF Apart
    <3>2. Coming(ns, cs2[i], cs[k].block) => Coming(ns, cs[i], cs[k].block)
      BY <1>1, <2>1, PushComes
    <3> QED
      BY <1>1, <2>1, <3>1, <3>2
  <2>2. CASE i \in DOMAIN cs /\ k \notin DOMAIN cs
    <3> DEFINE x == cs2[k].block
    <3>1. x \in inner /\ x \in DOMAIN ns /\ Under(ns, s, x)
      BY <1>2, <1>5, <2>2
    <3> HIDE DEF x
    <3>2. cs[i].block # x
      BY <1>6, <2>2, <3>1
    <3>3. ~Coming(ns, cs2[i], x)
      <4>1. CASE i = L
        BY <3>1, <4>1, PushComes DEF s
      <4>2. CASE i # L
        BY <2>2, <3>1, <4>2, PushComes, StepOnlyLast DEF s
      <4> QED
        BY <4>1, <4>2
    <3> QED
      BY <1>1, <2>2, <3>2, <3>3 DEF x
  <2>3. CASE i \notin DOMAIN cs /\ k \in DOMAIN cs
    <3>1. cs2[i].block \in inner /\ cs2[k].block = cs[k].block /\ cs[k].block \in DOMAIN ns
      BY <1>1, <1>2, <2>3
    <3>2. ~Under(ns, cs2[i].block, cs[k].block)
      <4>1. Under(ns, s, cs2[i].block) /\ ~Under(ns, s, cs[k].block)
        BY <1>5, <1>6, <2>3, <3>1
      <4> QED
        BY <1>1, <3>1, <4>1, UnderTransitive
    <3>3. ~Coming(ns, cs2[i], cs[k].block)
      BY <2>3, <3>1, <3>2, PushComes DEF Under
    <3> QED
      BY <3>1, <3>2, <3>3 DEF Under
  <2>4. CASE i \notin DOMAIN cs /\ k \notin DOMAIN cs
    <3>1. i > L /\ k > L /\ cs2[i].block \in inner /\ cs2[k].block \in inner
      BY <1>2, <2>4
    <3>2. cs2[i].block # cs2[k].block
      BY <3>1 DEF Step, Pushed
    <3>3. ~Under(ns, cs2[i].block, cs2[k].block)
      BY <1>1, <3>1, <3>2 DEF Entering
    <3>4. cs2[k].block \in DOMAIN ns
      BY <1>5, <3>1
    <3>5. ~Coming(ns, cs2[i], cs2[k].block)
      BY <2>4, <3>3, <3>4, PushComes DEF Under
    <3> QED
      BY <3>2, <3>5
  <2> QED
    BY <2>1, <2>2, <2>3, <2>4
<1>9. ASSUME NEW i \in DOMAIN cs2
      PROVE  AllLinked(ns, cs2[i].block)
  <2>1. CASE i \in DOMAIN cs
    BY <1>1, <2>1 DEF Step, CallsInv
  <2>2. CASE i \notin DOMAIN cs
    <3>1. cs2[i].block \in inner
      BY <1>2, <2>2
    <3>2. AllLinked(ns, p)
      BY <1>1 DEF Step, CallsInv
    <3>3. \A a : Under(ns, a, cs2[i].block) => a = cs2[i].block \/ a = s \/ a \in AboveIn(ns, s)
      BY <1>1, <3>1 DEF Entering
    <3>4. \A a \in AboveIn(ns, s) : Under(ns, a, p)
      BY <1>1 DEF Under
    <3> QED
      BY <3>1, <3>2, <3>3, <3>4 DEF AllLinked, s
  <2> QED
    BY <2>1, <2>2
<1>10. ASSUME NEW i \in DOMAIN cs2
       PROVE  Around1(ns, cs2, i)
  <2> SUFFICES ASSUME NEW b \in AboveIn(ns, cs2[i].block), ns[b].kind = "block"
               PROVE  \E k \in DOMAIN cs2 :
                        /\ k < i /\ cs2[k].block = b /\ cs2[k].at - 1 \in DOMAIN ns[b].body
                        /\ Under(ns, ns[b].body[cs2[k].at - 1], cs2[i].block)
    BY DEF Around1
  <2>1. ASSUME NEW h \in DOMAIN cs, b \in AboveIn(ns, cs[h].block)
        PROVE  \E k \in DOMAIN cs2 :
                 /\ k < h /\ cs2[k].block = b /\ cs2[k].at - 1 \in DOMAIN ns[b].body
                 /\ Under(ns, ns[b].body[cs2[k].at - 1], cs[h].block)
    <3>1. Around1(ns, cs, h)
      BY DEF Step, CallsInv
    <3>2. PICK k \in DOMAIN cs : /\ k < h /\ cs[k].block = b /\ cs[k].at - 1 \in DOMAIN ns[b].body
                                 /\ Under(ns, ns[b].body[cs[k].at - 1], cs[h].block)
      BY <2>1, <3>1 DEF Around1
    <3>3. k # L
      BY <1>1, <3>2
    <3> QED
      BY <1>1, <1>3, <3>2, <3>3
  <2>2. CASE i \in DOMAIN cs
    BY <1>1, <2>1, <2>2
  <2>3. CASE i \notin DOMAIN cs
    <3> DEFINE x == cs2[i].block
    <3>1. x \in inner /\ x \in DOMAIN ns /\ Under(ns, s, x) /\ L < i
      BY <1>2, <1>5, <2>3
    <3> HIDE DEF x
    <3>2. b \in AboveIn(ns, s)
      BY <1>1, <3>1 DEF Entering, x
    <3>3. CASE b = p
      <4>1. cs2[L].at - 1 = cs[L].at
        <5>1. cs[L].at \in Nat
          BY PushIs
        <5> QED
          BY <1>4, <5>1
      <4> QED
        BY <1>1, <3>1, <3>3, <4>1 DEF x
    <3>4. CASE b \in AboveIn(ns, p)
      <4>1. PICK k \in DOMAIN cs2 :
                   /\ k < L /\ cs2[k].block = b /\ cs2[k].at - 1 \in DOMAIN ns[b].body
                   /\ Under(ns, ns[b].body[cs2[k].at - 1], p)
        BY <1>1, <2>1, <3>4
      <4>2. Under(ns, p, x)
        <5>1. Under(ns, p, s)
          BY <1>1 DEF Under
        <5> QED
          BY <1>1, <3>1, <5>1, UnderTransitive
      <4>3. Under(ns, ns[b].body[cs2[k].at - 1], x)
        BY <1>1, <3>1, <4>1, <4>2, UnderTransitive
      <4>4. k < i
        BY <1>1, <3>1, <4>1
      <4> QED
        BY <4>1, <4>3, <4>4 DEF x
    <3> QED
      BY <1>1, <3>2, <3>3, <3>4
  <2> QED
    BY <2>2, <2>3
<1> QED
  BY <1>7, <1>8, <1>9, <1>10 DEF CallsInv

(* A call goes on from the hoisting to its first statement.                     *)
Raised(ns, cs, cs2) ==
  /\ Tree(ns) /\ CallsInv(ns, cs) /\ cs # <<>>
  /\ cs2 \in Seq([block : DOMAIN ns, at : Nat]) /\ Len(cs2) = Len(cs)
  /\ \A i \in DOMAIN cs : i < Len(cs) => cs2[i] = cs[i]
  /\ cs2[Len(cs)].block = cs[Len(cs)].block /\ cs2[Len(cs)].at = 1 /\ cs[Len(cs)].at = 0

LEMMA RaisedIs ==
  ASSUME NEW ns, NEW cs, NEW cs2, Raised(ns, cs, cs2)
  PROVE  /\ Tree(ns) /\ Called(ns, cs) /\ Apart(ns, cs) /\ DOMAIN cs2 = DOMAIN cs
         /\ Len(cs) \in DOMAIN cs /\ DOMAIN cs = 1 .. Len(cs) /\ Len(cs) \in Nat
         /\ \A i \in DOMAIN cs : /\ cs2[i].block = cs[i].block /\ cs[i].block \in DOMAIN ns
                                 /\ i # Len(cs) => cs2[i] = cs[i]
         /\ \A n : \A i \in DOMAIN cs : Coming(ns, cs2[i], n) <=> Coming(ns, cs[i], n)
<1> DEFINE C == [block : DOMAIN ns, at : Nat]
<1>1. Tree(ns) /\ Called(ns, cs) /\ Apart(ns, cs)
  BY DEF Raised, CallsInv
<1>2. cs \in Seq(C) /\ cs2 \in Seq(C) /\ Len(cs2) = Len(cs) /\ cs # <<>>
  BY <1>1 DEF Raised, Called
<1> HIDE DEF C
<1>3. /\ Len(cs) \in DOMAIN cs /\ DOMAIN cs = 1 .. Len(cs) /\ Len(cs) \in Nat /\ DOMAIN cs2 = DOMAIN cs
  BY <1>2
<1>4. \A i \in DOMAIN cs : i # Len(cs) => cs2[i] = cs[i]
  <2>1. \A i \in DOMAIN cs : i # Len(cs) => i < Len(cs)
    BY <1>3
  <2> QED
    BY <2>1 DEF Raised
<1>5. \A i \in DOMAIN cs : cs2[i].block = cs[i].block /\ cs[i].block \in DOMAIN ns
  <2>1. \A i \in DOMAIN cs : cs[i].block \in DOMAIN ns
    BY <1>1, CallIs
  <2> QED
    BY <1>4, <2>1 DEF Raised
<1>6. ASSUME NEW n, NEW i \in DOMAIN cs
      PROVE  Coming(ns, cs2[i], n) <=> Coming(ns, cs[i], n)
  <2>1. ns[cs[i].block].body \in Seq(Nat)
    BY <1>1, CallIs
  <2>2. \A j \in DOMAIN ns[cs[i].block].body : j >= 0 /\ j >= 1
    BY <2>1
  <2>3. CASE i = Len(cs)
    <3>1. cs2[i].at = 1 /\ cs[i].at = 0
      BY <2>3 DEF Raised
    <3> QED
      BY <1>5, <2>2, <3>1 DEF Coming
  <2> QED
    BY <1>4, <2>3
<1> QED
  BY <1>1, <1>3, <1>4, <1>5, <1>6

LEMMA RaisedCalls ==
  ASSUME NEW ns, NEW cs, NEW cs2, Raised(ns, cs, cs2)
  PROVE  /\ CallsInv(ns, cs2)
         /\ \A n : ToCome(ns, cs2, n) <=> ToCome(ns, cs, n)
         /\ \A n \in DOMAIN ns : ToHoist(ns, cs2, n) <=>
              ToHoist(ns, cs, n) /\ n \notin Range(ns[cs[Len(cs)].block].body)
<1> DEFINE L == Len(cs)
           p == cs[L].block
<1>1. /\ Tree(ns) /\ Called(ns, cs) /\ Apart(ns, cs) /\ DOMAIN cs2 = DOMAIN cs
      /\ L \in DOMAIN cs /\ DOMAIN cs = 1 .. L /\ L \in Nat
      /\ \A i \in DOMAIN cs : /\ cs2[i].block = cs[i].block /\ cs[i].block \in DOMAIN ns
                              /\ i # L => cs2[i] = cs[i]
      /\ \A n : \A i \in DOMAIN cs : Coming(ns, cs2[i], n) <=> Coming(ns, cs[i], n)
  BY RaisedIs
<1>2. cs2 \in Seq([block : DOMAIN ns, at : Nat]) /\ cs2[L].at = 1 /\ cs[L].at = 0 /\ CallsInv(ns, cs)
  BY DEF Raised
<1>3. p \in DOMAIN ns /\ ns[p].body \in Seq(Nat)
  BY <1>1, CallIs
<1>4. Called(ns, cs2)
  <2>1. ASSUME NEW i \in DOMAIN cs2
        PROVE  ns[cs2[i].block].kind = "block" /\ cs2[i].at <= Len(ns[cs2[i].block].body) + 1
    <3>1. ns[cs[i].block].kind = "block" /\ cs[i].at <= Len(ns[cs[i].block].body) + 1
      BY <1>1 DEF Called
    <3>2. CASE i = L
      <4>1. Len(ns[p].body) \in Nat
        BY <1>3
      <4>2. 1 <= Len(ns[p].body) + 1
        BY <4>1
      <4> QED
        BY <1>1, <1>2, <3>1, <3>2, <4>2
    <3>3. CASE i # L
      BY <1>1, <3>1, <3>3
    <3> QED
      BY <3>2, <3>3
  <2> QED
    BY <1>2, <2>1 DEF Called
<1>5. Apart(ns, cs2)
  BY <1>1 DEF Apart
<1>6. ASSUME NEW i \in DOMAIN cs2
      PROVE  AllLinked(ns, cs2[i].block) /\ Around1(ns, cs2, i)
  <2>1. AllLinked(ns, cs[i].block) /\ Around1(ns, cs, i)
    BY <1>1, <1>2 DEF CallsInv
  <2>2. \A k \in DOMAIN cs : k < i => k # L
    BY <1>1
  <2> QED
    BY <1>1, <2>1, <2>2 DEF Around1
<1>7. CallsInv(ns, cs2)
  BY <1>4, <1>5, <1>6 DEF CallsInv
<1>8. \A n : ToCome(ns, cs2, n) <=> ToCome(ns, cs, n)
  BY <1>1 DEF ToCome
<1>9. ASSUME NEW n \in DOMAIN ns
      PROVE  ToHoist(ns, cs2, n) <=> ToHoist(ns, cs, n) /\ n \notin Range(ns[p].body)
  <2>1. \A i \in DOMAIN cs : i # L => (Unhoisted(ns, cs2[i], n) <=> Unhoisted(ns, cs[i], n))
    BY <1>1
  <2>2. \A j \in DOMAIN ns[p].body : j >= 0 /\ j >= 1
    BY <1>3
  <2>3. Unhoisted(ns, cs2[L], n) => Unhoisted(ns, cs[L], n)
    BY <1>1, <1>2, <2>2 DEF Unhoisted
  <2>4. Unhoisted(ns, cs[L], n) => Unhoisted(ns, cs2[L], n) \/ n \in Range(ns[p].body)
    BY <1>1, <1>2, <2>2 DEF Unhoisted
  <2>5. n \in Range(ns[p].body) => ~ToHoist(ns, cs2, n)
    <3> SUFFICES ASSUME n \in Range(ns[p].body)
                 PROVE  ~ToHoist(ns, cs2, n)
      OBVIOUS
    <3>1. PICK j \in DOMAIN ns[cs2[L].block].body : n = ns[cs2[L].block].body[j]
      BY <1>1 DEF Range
    <3>2. cs2[L].at # 0
      BY <1>2
    <3> QED
      BY <1>1, <1>4, <1>5, <3>1, <3>2, StatementComing
  <2>6. ToHoist(ns, cs2, n) => ToHoist(ns, cs, n)
    BY <1>1, <2>1, <2>3 DEF ToHoist
  <2>7. ToHoist(ns, cs, n) => ToHoist(ns, cs2, n) \/ n \in Range(ns[p].body)
    BY <1>1, <2>1, <2>4 DEF ToHoist
  <2> QED
    BY <2>5, <2>6, <2>7
<1> QED
  BY <1>7, <1>8, <1>9

(* A call that is over leaves nothing to come.                                  *)
LEMMA LeaveCalls ==
  ASSUME NEW ns, Tree(ns), NEW cs, CallsInv(ns, cs), cs # <<>>,
         cs[Len(cs)].at > Len(ns[cs[Len(cs)].block].body)
  PROVE  /\ CallsInv(ns, Front(cs)) /\ (Front(cs) = <<>> <=> Len(cs) = 1)
         /\ \A n : ToCome(ns, Front(cs), n) <=> ToCome(ns, cs, n)
         /\ \A n : ToHoist(ns, Front(cs), n) <=> ToHoist(ns, cs, n)
<1> DEFINE L == Len(cs)
           C == [block : DOMAIN ns, at : Nat]
           f == Front(cs)
<1>1. Called(ns, cs) /\ Apart(ns, cs)
  BY DEF CallsInv
<1>2. cs \in Seq(C)
  BY <1>1 DEF Called
<1> HIDE DEF C
<1>3. /\ f \in Seq(C) /\ Len(f) = L - 1 /\ DOMAIN f = 1 .. L - 1 /\ DOMAIN cs = 1 .. L /\ L \in Nat /\ L >= 1
      /\ \A i \in DOMAIN f : i \in DOMAIN cs /\ f[i] = cs[i]
  <2>1. L \in Nat /\ L >= 1 /\ DOMAIN cs = 1 .. L
    BY <1>2
  <2>2. f \in Seq(C) /\ Len(f) = L - 1 /\ \A i \in 1 .. L - 1 : f[i] = cs[i]
    BY <1>2, <2>1 DEF Front
  <2> HIDE DEF f
  <2>3. DOMAIN f = 1 .. L - 1
    BY <2>1, <2>2
  <2> QED
    BY <2>1, <2>2, <2>3
<1>4. f = <<>> <=> L = 1
  BY <1>3
<1> HIDE DEF f
<1>5. cs[L].at \in Nat /\ ns[cs[L].block].body \in Seq(Nat)
  BY <1>1, <1>3, CallIs
<1>6. cs[L].at # 0 /\ \A j \in DOMAIN ns[cs[L].block].body : ~(j >= cs[L].at)
  BY <1>5
<1>7. \A n : ~Coming(ns, cs[L], n) /\ ~Unhoisted(ns, cs[L], n)
  BY <1>6 DEF Coming, Unhoisted
<1>8. \A i \in DOMAIN cs : i \in DOMAIN f \/ i = L
  BY <1>3
<1>9. CallsInv(ns, f)
  <2>1. Called(ns, f)
    <3>1. \A i \in DOMAIN f : ns[f[i].block].kind = "block" /\ f[i].at <= Len(ns[f[i].block].body) + 1
      BY <1>1, <1>3 DEF Called
    <3> QED
      BY <1>3, <3>1 DEF Called, C
  <2>2. Apart(ns, f)
    BY <1>1, <1>3 DEF Apart
  <2>3. ASSUME NEW i \in DOMAIN f
        PROVE  AllLinked(ns, f[i].block) /\ Around1(ns, f, i)
    <3>1. AllLinked(ns, cs[i].block) /\ Around1(ns, cs, i)
      BY <1>3 DEF CallsInv
    <3>2. \A k \in DOMAIN cs : k < i => k \in DOMAIN f
      BY <1>3
    <3> QED
      BY <1>3, <3>1, <3>2 DEF Around1
  <2> QED
    BY <2>1, <2>2, <2>3 DEF CallsInv
<1>10. \A n : ToCome(ns, f, n) <=> ToCome(ns, cs, n)
  BY <1>3, <1>7, <1>8 DEF ToCome
<1>11. \A n : ToHoist(ns, f, n) <=> ToHoist(ns, cs, n)
  BY <1>3, <1>7, <1>8 DEF ToHoist
<1> QED
  BY <1>4, <1>9, <1>10, <1>11 DEF f

(* The same after a change of parents.                                        *)
LEMMA FrozenCalls ==
  ASSUME NEW ns, Tree(ns), NEW ns2, ns2 \in Seq(NodeRecords), Frozen(ns, ns2),
         NEW cs, CallsInv(ns, cs), \A n \in DOMAIN ns : Linked(ns, n) => Linked(ns2, n)
  PROVE  /\ CallsInv(ns2, cs)
         /\ \A n \in DOMAIN ns : ToCome(ns2, cs, n) <=> ToCome(ns, cs, n)
         /\ \A n \in DOMAIN ns : ToHoist(ns2, cs, n) <=> ToHoist(ns, cs, n)
<1>1. DOMAIN ns2 = DOMAIN ns /\ \A n \in DOMAIN ns : ns2[n].kind = ns[n].kind /\ ns2[n].body = ns[n].body
  BY DEF Frozen
<1>2. \A n \in DOMAIN ns : AboveIn(ns2, n) = AboveIn(ns, n)
  BY FrozenAbove
<1>3. \A n \in DOMAIN ns : \A s : Under(ns2, s, n) <=> Under(ns, s, n)
  BY <1>2 DEF Under
<1>4. Called(ns, cs) /\ Apart(ns, cs)
  BY DEF CallsInv
<1>5. \A i \in DOMAIN cs : cs[i].block \in DOMAIN ns
  BY <1>4, CallIs
<1>6. \A i \in DOMAIN cs : \A n \in DOMAIN ns : Coming(ns2, cs[i], n) <=> Coming(ns, cs[i], n)
  BY <1>1, <1>3, <1>5 DEF Coming
<1>7. \A i \in DOMAIN cs : \A n \in DOMAIN ns : Unhoisted(ns2, cs[i], n) <=> Unhoisted(ns, cs[i], n)
  BY <1>1, <1>2, <1>5 DEF Unhoisted
<1>8. Called(ns2, cs)
  BY <1>1, <1>4, <1>5 DEF Called
<1>9. Apart(ns2, cs)
  BY <1>4, <1>5, <1>6 DEF Apart
<1>10. ASSUME NEW i \in DOMAIN cs
       PROVE  AllLinked(ns2, cs[i].block) /\ Around1(ns2, cs, i)
  <2>1. AllLinked(ns, cs[i].block) /\ Around1(ns, cs, i)
    BY DEF CallsInv
  <2>2. AllLinked(ns2, cs[i].block)
    BY <1>1, <1>3, <1>5, <2>1 DEF AllLinked
  <2>3. AboveIn(ns, cs[i].block) \subseteq DOMAIN ns
    BY <1>5, AboveBefore
  <2>4. Around1(ns2, cs, i)
    BY <1>1, <1>2, <1>3, <1>5, <2>1, <2>3 DEF Around1
  <2> QED
    BY <2>2, <2>4
<1> QED
  BY <1>6, <1>7, <1>8, <1>9, <1>10 DEF CallsInv, ToCome, ToHoist

LEMMA FirstCall ==
  ASSUME NEW ns, Tree(ns), Formed(ns)
  PROVE  /\ CallsInv(ns, <<Call(1)>>)
         /\ \A n \in DOMAIN ns : n # 1 => ToCome(ns, <<Call(1)>>, n) /\ ToHoist(ns, <<Call(1)>>, n)
<1> DEFINE c == Call(1)
           cs == <<c>>
<1>1. c \in [block : DOMAIN ns, at : Nat] /\ c.block = 1 /\ c.at = 0 /\ 1 \in DOMAIN ns
  BY DEF Call, Tree
<1>2. ns[1].kind = "block" /\ AboveIn(ns, 1) = {} /\ ns[1] \in NodeRecords
  BY <1>1, AboveIs DEF Formed, Tree
<1>3. ns[1].body \in Seq(Nat)
  BY <1>2 DEF NodeRecords
<1> HIDE DEF c
<1>4. cs \in Seq([block : DOMAIN ns, at : Nat]) /\ DOMAIN cs = {1} /\ cs[1] = c
  <2> DEFINE C == [block : DOMAIN ns, at : Nat]
  <2>1. c \in C
    BY <1>1
  <2> HIDE DEF C
  <2>2. cs \in Seq(C) /\ DOMAIN cs = {1} /\ cs[1] = c
    BY <2>1
  <2> QED
    BY <2>2 DEF C
<1> HIDE DEF cs
<1>5. Called(ns, cs)
  <2>1. 0 <= Len(ns[1].body) + 1
    BY <1>3
  <2> QED
    BY <1>1, <1>2, <1>4, <2>1 DEF Called
<1>6. Apart(ns, cs)
  BY <1>4 DEF Apart
<1>7. AllLinked(ns, 1) /\ Around1(ns, cs, 1)
  BY <1>1, <1>2, <1>4 DEF AllLinked, Around1, Under, Linked
<1>8. ASSUME NEW n \in DOMAIN ns, n # 1
      PROVE  Coming(ns, c, n) /\ Unhoisted(ns, c, n)
  BY <1>1, <1>8, RootAbove, NewCall
<1> QED
  BY <1>1, <1>4, <1>5, <1>6, <1>7, <1>8 DEF CallsInv, ToCome, ToHoist, cs, c

-----------------------------------------------------------------------------
(* The steps of the analysis.                                                *)

Begun == calls # <<>> \/ ended # ""
LinkInv == \A n \in DOMAIN nodes : n # 1 => Linked(nodes, n) \/ ToCome(nodes, calls, HolderIn(nodes, n))
ControlInv ==
  /\ TreeInv
  /\ Begun => /\ CallsInv(nodes, calls) /\ (ended = "done" <=> calls = <<>>)
              /\ ended \in Verdicts \cup {"", "done"} /\ LinkInv

LEMMA OnwardIs ==
  ASSUME NEW ns, Called(ns, calls), calls # <<>>
  PROVE  /\ Onward \in Seq([block : DOMAIN ns, at : Nat]) /\ Len(Onward) = Len(calls)
         /\ Len(calls) \in DOMAIN calls /\ Len(calls) \in Nat /\ DOMAIN calls = 1 .. Len(calls)
         /\ \A i \in DOMAIN calls : i # Len(calls) => Onward[i] = calls[i]
         /\ Onward[Len(calls)].block = calls[Len(calls)].block
         /\ Onward[Len(calls)].at = calls[Len(calls)].at + 1
<1> DEFINE C == [block : DOMAIN ns, at : Nat]
           L == Len(calls)
           r == [calls[L] EXCEPT !.at = @ + 1]
<1>1. calls \in Seq(C)
  BY DEF Called
<1>2. \A c \in C : /\ [c EXCEPT !.at = @ + 1] \in C /\ [c EXCEPT !.at = @ + 1].block = c.block
                   /\ [c EXCEPT !.at = @ + 1].at = c.at + 1
  OBVIOUS
<1> HIDE DEF C
<1>3. L \in DOMAIN calls /\ L \in Nat /\ DOMAIN calls = 1 .. L /\ calls[L] \in C
  BY <1>1
<1>4. r \in C /\ r.block = calls[L].block /\ r.at = calls[L].at + 1
  BY <1>2, <1>3
<1>5. Onward = [calls EXCEPT ![L] = r]
  BY DEF Onward
<1> HIDE DEF r, L
<1>6. /\ Onward \in Seq(C) /\ Len(Onward) = Len(calls) /\ Onward[L] = r
      /\ \A i \in DOMAIN calls : i # L => Onward[i] = calls[i]
  BY ONLY <1>1, <1>3, <1>4, <1>5
<1> QED
  BY <1>3, <1>4, <1>6 DEF C, L

LEMMA ConcatenationOf ==
  ASSUME NEW S, NEW s \in Seq(S), NEW t \in Seq(S)
  PROVE  /\ s \o t \in Seq(S) /\ Len(s \o t) = Len(s) + Len(t) /\ DOMAIN (s \o t) = 1 .. Len(s) + Len(t)
         /\ Len(s) \in Nat /\ Len(t) \in Nat /\ DOMAIN s = 1 .. Len(s) /\ DOMAIN t = 1 .. Len(t)
         /\ \A i \in DOMAIN s : (s \o t)[i] = s[i]
         /\ \A i \in DOMAIN t : (s \o t)[Len(s) + i] = t[i]
<1>1. s \o t \in Seq(S) /\ Len(s \o t) = Len(s) + Len(t)
  BY Joined
<1>2. /\ Len(s) \in Nat /\ Len(t) \in Nat /\ DOMAIN s = 1 .. Len(s) /\ DOMAIN t = 1 .. Len(t)
      /\ DOMAIN (s \o t) = 1 .. Len(s \o t)
  BY <1>1
<1> QED
  BY <1>1, <1>2, Joined

LEMMA AfterIs ==
  ASSUME NEW ns, Called(ns, calls), calls # <<>>, NEW blocks \in Seq(DOMAIN ns),
         \A i, k \in DOMAIN blocks : blocks[i] = blocks[k] => i = k
  PROVE  Pushed(ns, calls, OnwardAfter(blocks), Range(blocks))
<1> DEFINE C == [block : DOMAIN ns, at : Nat]
           L == Len(calls)
           N == Len(blocks)
           t == Reverse([i \in DOMAIN blocks |-> Call(blocks[i])])
           cs == OnwardAfter(blocks)
<1>1. /\ Onward \in Seq(C) /\ Len(Onward) = L
      /\ L \in DOMAIN calls /\ L \in Nat /\ DOMAIN calls = 1 .. L
      /\ \A i \in DOMAIN calls : i # L => Onward[i] = calls[i]
      /\ Onward[L].block = calls[L].block /\ Onward[L].at = calls[L].at + 1
  BY OnwardIs
<1>2. \A b \in DOMAIN ns : Call(b) \in C /\ Call(b).block = b /\ Call(b).at = 0
  BY DEF Call
<1>3. N \in Nat /\ DOMAIN blocks = 1 .. N /\ \A i \in 1 .. N : blocks[i] \in DOMAIN ns
  OBVIOUS
<1>4. cs = Onward \o t
  BY DEF OnwardAfter
<1> HIDE DEF C, L
<1>5. t \in Seq(C) /\ Len(t) = N /\ DOMAIN t = 1 .. N /\ \A i \in 1 .. N : t[i] = Call(blocks[N - i + 1])
  <2> DEFINE u == [i \in 1 .. N |-> Call(blocks[i])]
             w == [i \in 1 .. N |-> u[N - i + 1]]
  <2>1. u \in Seq(C) /\ Len(u) = N /\ \A i \in 1 .. N : u[i] = Call(blocks[i])
    BY <1>2, <1>3
  <2>2. \A i \in 1 .. N : N - i + 1 \in 1 .. N
    BY <1>3
  <2>3. t = w
    BY <1>3, <2>1 DEF Reverse
  <2> HIDE DEF u
  <2>4. \A i \in 1 .. N : u[N - i + 1] \in C /\ u[N - i + 1] = Call(blocks[N - i + 1])
    BY <1>2, <1>3, <2>1, <2>2
  <2>5. w \in Seq(C) /\ Len(w) = N /\ DOMAIN w = 1 .. N /\ \A i \in 1 .. N : w[i] = u[N - i + 1]
    BY <1>3, <2>4
  <2> HIDE DEF w, t
  <2> QED
    BY <2>3, <2>4, <2>5
<1> HIDE DEF t, cs
<1>6. /\ cs \in Seq(C) /\ Len(cs) = L + N /\ DOMAIN cs = 1 .. L + N
      /\ \A i \in 1 .. L : cs[i] = Onward[i]
      /\ \A i \in 1 .. N : cs[L + i] = t[i]
  <2>1. /\ Onward \o t \in Seq(C) /\ Len(Onward \o t) = Len(Onward) + Len(t)
        /\ DOMAIN (Onward \o t) = 1 .. Len(Onward) + Len(t)
        /\ DOMAIN Onward = 1 .. Len(Onward) /\ DOMAIN t = 1 .. Len(t)
        /\ \A i \in DOMAIN Onward : (Onward \o t)[i] = Onward[i]
        /\ \A i \in DOMAIN t : (Onward \o t)[Len(Onward) + i] = t[i]
    <3>1. Onward \in Seq(C) /\ t \in Seq(C)
      BY <1>1, <1>5
    <3> QED
      BY ONLY <3>1, ConcatenationOf
  <2> QED
    BY <1>1, <1>4, <1>5, <2>1
<1>7. \A i \in DOMAIN cs : i > L => i - L \in 1 .. N /\ i = L + (i - L) /\ N - (i - L) + 1 \in 1 .. N
  BY <1>1, <1>3, <1>6
<1>8. \A i \in DOMAIN cs : i > L => cs[i] = Call(blocks[N - (i - L) + 1])
  BY <1>5, <1>6, <1>7
<1>9. \A i \in DOMAIN cs : i > L => /\ cs[i].block = blocks[N - (i - L) + 1] /\ cs[i].at = 0
                                    /\ cs[i].block \in Range(blocks)
  <2> SUFFICES ASSUME NEW i \in DOMAIN cs, i > L
               PROVE  /\ cs[i].block = blocks[N - (i - L) + 1] /\ cs[i].at = 0
                      /\ cs[i].block \in Range(blocks)
    OBVIOUS
  <2>1. N - (i - L) + 1 \in DOMAIN blocks /\ blocks[N - (i - L) + 1] \in DOMAIN ns
    BY <1>3, <1>7
  <2>2. cs[i].block = blocks[N - (i - L) + 1] /\ cs[i].at = 0
    BY <1>2, <1>8, <2>1
  <2> QED
    BY <2>1, <2>2 DEF Range
<1>10. \A x \in Range(blocks) : \E i \in DOMAIN cs : i > L /\ cs[i].block = x
  <2> SUFFICES ASSUME NEW k \in DOMAIN blocks
               PROVE  \E i \in DOMAIN cs : i > L /\ cs[i].block = blocks[k]
    BY DEF Range
  <2> DEFINE i == L + (N - k + 1)
  <2>1. i \in DOMAIN cs /\ i > L /\ N - (i - L) + 1 = k
    BY <1>1, <1>3, <1>6
  <2> HIDE DEF i
  <2> QED
    BY <1>9, <2>1
<1>11. \A i, k \in DOMAIN cs : i > L /\ k > L /\ i # k => cs[i].block # cs[k].block
  <2> SUFFICES ASSUME NEW i \in DOMAIN cs, NEW k \in DOMAIN cs, i > L, k > L, cs[i].block = cs[k].block
               PROVE  i = k
    OBVIOUS
  <2>1. blocks[N - (i - L) + 1] = blocks[N - (k - L) + 1]
    BY <1>9
  <2>2. N - (i - L) + 1 \in DOMAIN blocks /\ N - (k - L) + 1 \in DOMAIN blocks
    BY <1>3, <1>7
  <2>3. N - (i - L) + 1 = N - (k - L) + 1
    BY <2>1, <2>2
  <2>4. i \in Nat /\ k \in Nat
    BY <1>1, <1>3, <1>6
  <2> QED
    BY <1>1, <1>3, <2>3, <2>4
<1>12. \A i \in DOMAIN calls : i < L => cs[i] = calls[i]
  BY <1>1, <1>6
<1>13. cs[L].block = calls[L].block /\ cs[L].at = calls[L].at + 1
  BY <1>1, <1>6
<1>14. L >= 1 /\ Len(cs) >= L
  BY <1>1, <1>3, <1>6
<1> QED
  BY <1>6, <1>9, <1>10, <1>11, <1>12, <1>13, <1>14 DEF Pushed, C, L, cs

LEMMA OnwardPushes ==
  ASSUME NEW ns, Called(ns, calls), calls # <<>>
  PROVE  Pushed(ns, calls, Onward, {})
<1>1. /\ Onward \in Seq([block : DOMAIN ns, at : Nat]) /\ Len(Onward) = Len(calls)
      /\ Len(calls) \in DOMAIN calls /\ Len(calls) \in Nat /\ DOMAIN calls = 1 .. Len(calls)
      /\ \A i \in DOMAIN calls : i # Len(calls) => Onward[i] = calls[i]
      /\ Onward[Len(calls)].block = calls[Len(calls)].block
      /\ Onward[Len(calls)].at = calls[Len(calls)].at + 1
  BY OnwardIs
<1>2. DOMAIN Onward = 1 .. Len(calls)
  <2> DEFINE C == [block : DOMAIN ns, at : Nat]
  <2>1. Onward \in Seq(C) /\ Len(Onward) = Len(calls)
    BY <1>1
  <2> HIDE DEF C
  <2> QED
    BY <2>1
<1>3. Len(calls) >= 1 /\ \A i \in DOMAIN Onward : ~(i > Len(calls))
  BY <1>1, <1>2
<1> QED
  BY <1>1, <1>3 DEF Pushed

LEMMA RunningIs ==
  ASSUME ControlInv, Running
  PROVE  /\ Tree(nodes) /\ Formed(nodes) /\ Sorted(nodes) /\ Path(nodes, open) /\ language \in Languages
         /\ CallsInv(nodes, calls) /\ Called(nodes, calls) /\ Apart(nodes, calls) /\ LinkInv
         /\ calls # <<>> /\ ended = "" /\ Len(calls) \in DOMAIN calls /\ Len(calls) \in Nat
         /\ Block = calls[Len(calls)].block /\ Last(calls).at = calls[Len(calls)].at
         /\ Last(calls).at \in Nat
         /\ Block \in DOMAIN nodes /\ nodes[Block].kind = "block"
         /\ nodes[Block].body \in Seq(Nat) /\ nodes \in Seq(NodeRecords)
         /\ DOMAIN nodes = 1 .. Len(nodes) /\ Len(nodes) \in Nat
<1>1. TreeInv /\ calls # <<>> /\ ended = "" /\ CallsInv(nodes, calls) /\ LinkInv
  BY DEF ControlInv, Begun, Running
<1>2. /\ Tree(nodes) /\ Formed(nodes) /\ Sorted(nodes) /\ Path(nodes, open) /\ language \in Languages
      /\ Called(nodes, calls) /\ Apart(nodes, calls)
  BY <1>1 DEF TreeInv, CallsInv
<1>3. Len(calls) \in DOMAIN calls /\ Len(calls) \in Nat
  BY <1>1, <1>2, OnwardIs
<1>4. Block = calls[Len(calls)].block /\ Last(calls).at = calls[Len(calls)].at
  BY DEF Block, Last
<1>5. /\ Block \in DOMAIN nodes /\ nodes[Block].kind = "block" /\ nodes[Block].body \in Seq(Nat)
      /\ Last(calls).at \in Nat
  BY <1>2, <1>3, <1>4, CallIs
<1>6. nodes \in Seq(NodeRecords) /\ DOMAIN nodes = 1 .. Len(nodes) /\ Len(nodes) \in Nat
  BY <1>2 DEF Tree
<1> QED
  BY <1>1, <1>2, <1>3, <1>4, <1>5, <1>6

LEMMA AtIs ==
  ASSUME ControlInv, NEW kinds, At(kinds)
  PROVE  /\ calls[Len(calls)].at \in DOMAIN nodes[Block].body
         /\ calls[Len(calls)].at \in DOMAIN nodes[calls[Len(calls)].block].body
         /\ Statement = StepAt(nodes, calls) /\ Statement = nodes[Block].body[calls[Len(calls)].at]
         /\ Statement \in DOMAIN nodes /\ Statement \in Nat /\ Statement # 1
         /\ HolderIn(nodes, Statement) = Block /\ AboveIn(nodes, Statement) = {Block} \cup AboveIn(nodes, Block)
         /\ nodes[Statement].kind \in kinds /\ nodes[Statement] \in NodeRecords
         /\ nodes[Statement].body \in Seq(Nat)
         /\ Form(nodes, Statement) /\ FormOf(nodes[Statement])
         /\ ToCome(nodes, calls, Statement) /\ ~ToHoist(nodes, calls, Statement)
         /\ Entering(nodes, Statement, Inner(nodes, Statement))
         /\ Linked(nodes, Statement) /\ Statement \notin {0}
<1>1. /\ Running /\ Last(calls).at \in 1 .. Len(nodes[Block].body) /\ nodes[Statement].kind \in kinds
  BY DEF At
<1>2. /\ Tree(nodes) /\ Formed(nodes) /\ Called(nodes, calls) /\ Apart(nodes, calls)
      /\ Len(calls) \in DOMAIN calls
      /\ Block = calls[Len(calls)].block /\ Last(calls).at = calls[Len(calls)].at
      /\ Block \in DOMAIN nodes /\ nodes[Block].kind = "block" /\ nodes[Block].body \in Seq(Nat)
      /\ nodes \in Seq(NodeRecords) /\ DOMAIN nodes = 1 .. Len(nodes) /\ Len(nodes) \in Nat
  BY <1>1, RunningIs
<1> DEFINE j == Last(calls).at
           b == Block
<1>3. j \in DOMAIN nodes[b].body /\ j \in Nat /\ j # 0 /\ j >= j
  <2>1. DOMAIN nodes[b].body = 1 .. Len(nodes[b].body)
    BY <1>2
  <2> QED
    BY <1>1, <2>1
<1>4. Statement = nodes[b].body[j] /\ StepAt(nodes, calls) = nodes[b].body[j]
  BY <1>2 DEF Statement, StepAt
<1>5. b \in DOMAIN nodes
  BY <1>2
<1> HIDE DEF b, j
<1>6. /\ Statement \in DOMAIN nodes /\ Statement # 1 /\ HolderIn(nodes, Statement) = b
      /\ AboveIn(nodes, Statement) = {b} \cup AboveIn(nodes, b)
  BY <1>2, <1>3, <1>4, <1>5, UnderHolder
<1>7. ToCome(nodes, calls, Statement) /\ ~ToHoist(nodes, calls, Statement)
  <2>1. /\ ToCome(nodes, calls, nodes[calls[Len(calls)].block].body[j]) <=> j >= calls[Len(calls)].at
        /\ ToHoist(nodes, calls, nodes[calls[Len(calls)].block].body[j]) <=> calls[Len(calls)].at = 0
    <3>1. j \in DOMAIN nodes[calls[Len(calls)].block].body
      BY <1>2, <1>3 DEF b
    <3> QED
      BY ONLY <1>2, <3>1, StatementComing
  <2> QED
    BY <1>2, <1>3, <1>4, <2>1 DEF b, j
<1>8. nodes[Statement] \in NodeRecords /\ Form(nodes, Statement) /\ FormOf(nodes[Statement])
  <2>1. nodes[Statement] \in NodeRecords /\ Form(nodes, Statement)
    BY <1>2, <1>6 DEF Formed
  <2> QED
    BY <2>1 DEF Form, FormOf
<1>9. nodes[Statement].body \in Seq(Nat)
  BY <1>8 DEF NodeRecords
<1>10. Entering(nodes, Statement, Inner(nodes, Statement))
  BY <1>2, <1>6, InnerEnters
<1>11. Linked(nodes, Statement)
  BY <1>2, <1>6 DEF Linked, FunctionKinds, b
<1>12. Statement \in Nat /\ Statement \notin {0}
  BY <1>2, <1>6
<1>13. b = Block /\ j = calls[Len(calls)].at /\ b = calls[Len(calls)].block
  BY <1>2 DEF b, j
<1> QED
  BY <1>1, <1>3, <1>4, <1>6, <1>7, <1>8, <1>9, <1>10, <1>11, <1>12, <1>13

(* Only a verdict changes.                                                    *)
LEMMA StopStep ==
  ASSUME ControlInv, Running, NEW how \in Verdicts, Ends(how)
  PROVE  ControlInv'
<1>1. ended' = how /\ UNCHANGED <<language, nodes, open, calls>>
  BY DEF Ends
<1>2. /\ TreeInv /\ CallsInv(nodes, calls) /\ LinkInv /\ calls # <<>>
  BY DEF ControlInv, Begun, Running
<1>3. TreeInv'
  BY <1>1, <1>2 DEF TreeInv
<1>4. LinkInv'
  BY <1>1, <1>2 DEF LinkInv
<1>5. how \in Verdicts \cup {"", "done"} /\ how # "done" /\ how # ""
  BY DEF Verdicts
<1>6. CallsInv(nodes', calls')
  BY <1>1, <1>2
<1> QED
  BY <1>1, <1>2, <1>3, <1>4, <1>5, <1>6 DEF ControlInv

LEMMA RaiseStep ==
  ASSUME ControlInv, Running, Last(calls).at = 0, calls' = Onward,
         UNCHANGED <<language, nodes, open, ended>>
  PROVE  ControlInv' /\ Raised(nodes, calls, calls') /\ calls' # <<>>
<1>1. /\ Tree(nodes) /\ CallsInv(nodes, calls) /\ Called(nodes, calls) /\ LinkInv /\ calls # <<>>
      /\ ended = "" /\ Last(calls).at = calls[Len(calls)].at
  BY RunningIs
<1>2. Raised(nodes, calls, calls')
  <2>1. /\ Onward \in Seq([block : DOMAIN nodes, at : Nat]) /\ Len(Onward) = Len(calls)
        /\ Len(calls) \in DOMAIN calls /\ Len(calls) \in Nat /\ DOMAIN calls = 1 .. Len(calls)
        /\ \A i \in DOMAIN calls : i # Len(calls) => Onward[i] = calls[i]
        /\ Onward[Len(calls)].block = calls[Len(calls)].block
        /\ Onward[Len(calls)].at = calls[Len(calls)].at + 1
    BY <1>1, OnwardIs
  <2>2. \A i \in DOMAIN calls : i < Len(calls) => calls'[i] = calls[i]
    BY <2>1
  <2>3. calls'[Len(calls)].at = 1 /\ calls[Len(calls)].at = 0
    <3>1. calls[Len(calls)].at = 0
      BY <1>1
    <3>2. calls'[Len(calls)].at = calls[Len(calls)].at + 1
      BY <2>1
    <3> QED
      BY ONLY <3>1, <3>2
  <2> QED
    BY <1>1, <2>1, <2>2, <2>3 DEF Raised
<1>3. CallsInv(nodes, calls') /\ \A n : ToCome(nodes, calls', n) <=> ToCome(nodes, calls, n)
  BY <1>2, RaisedCalls
<1>4. LinkInv'
  BY <1>1, <1>3 DEF LinkInv
<1>5. TreeInv'
  BY DEF ControlInv, TreeInv
<1>6. calls' # <<>>
  <2>1. Len(calls') = Len(calls) /\ Len(calls) \in Nat /\ Len(calls) # 0
    <3>1. Len(calls') = Len(calls)
      BY <1>2 DEF Raised
    <3>2. Len(calls) \in DOMAIN calls /\ DOMAIN calls = 1 .. Len(calls) /\ Len(calls) \in Nat
      BY <1>2, RaisedIs
    <3> QED
      BY <3>1, <3>2
  <2> QED
    BY <2>1
<1> QED
  BY <1>1, <1>2, <1>3, <1>4, <1>5, <1>6 DEF ControlInv

(* Onto the next statement, and into this one.                                 *)
Passed(inner) ==
  /\ calls' # <<>>
  /\ \A n \in DOMAIN nodes :
      /\ ToCome(nodes', calls', n) <=> ToCome(nodes, calls, n) /\ n # Statement /\ n \notin inner
      /\ n \notin inner => (ToHoist(nodes', calls', n) <=> ToHoist(nodes, calls, n))
      /\ n \in inner => nodes[n].kind = "block"

LEMMA InnerLinked ==
  ASSUME NEW ns, Tree(ns), NEW s \in DOMAIN ns, s # 1, ns[HolderIn(ns, s)].kind = "block", ns[s].kind \notin FunctionKinds
  PROVE  \A x \in Inner(ns, s) : Linked(ns, x)
<1> SUFFICES ASSUME NEW x \in Inner(ns, s)
             PROVE  Linked(ns, x)
  OBVIOUS
<1>1. CASE x = s
  BY <1>1 DEF Linked, FunctionKinds
<1>2. CASE x # s
  <2>1. x \in Range(ns[s].body)
    BY <1>2 DEF Inner
  <2>2. PICK i \in DOMAIN ns[s].body : x = ns[s].body[i]
    BY <2>1 DEF Range
  <2>3. HolderIn(ns, x) = s
    BY <2>2, HolderIs
  <2> QED
    BY <2>3 DEF Linked
<1> QED
  BY <1>1, <1>2

LEMMA PassStep ==
  ASSUME ControlInv, NEW kinds, At(kinds), nodes[Statement].kind \notin FunctionKinds,
         Pushed(nodes, calls, calls', Inner(nodes, Statement)), UNCHANGED <<language, nodes, open, ended>>
  PROVE  ControlInv' /\ Passed(Inner(nodes, Statement))
<1> DEFINE inner == Inner(nodes, Statement)
<1>1. Running
  BY DEF At
<1>2. /\ Tree(nodes) /\ Formed(nodes) /\ CallsInv(nodes, calls) /\ Called(nodes, calls) /\ LinkInv
      /\ calls # <<>> /\ ended = "" /\ Block \in DOMAIN nodes /\ nodes[Block].kind = "block"
  BY <1>1, RunningIs
<1>3. /\ calls[Len(calls)].at \in DOMAIN nodes[calls[Len(calls)].block].body
      /\ Statement = StepAt(nodes, calls) /\ Statement \in DOMAIN nodes /\ Statement # 1
      /\ HolderIn(nodes, Statement) = Block /\ Entering(nodes, Statement, inner)
      /\ Linked(nodes, Statement)
  BY AtIs
<1> HIDE DEF inner
<1>4. Step(nodes, calls, calls', inner)
  BY <1>2, <1>3 DEF Step, StepAt, inner
<1>5. \A x \in inner : Linked(nodes, x)
  BY <1>2, <1>3, InnerLinked DEF inner
<1>6. CallsInv(nodes, calls')
  BY <1>3, <1>4, <1>5, PushCalls
<1>7. \A n \in DOMAIN nodes : ToCome(nodes, calls', n) <=> ToCome(nodes, calls, n) /\ n # Statement /\ n \notin inner
  BY <1>3, <1>4, PushToCome
<1>8. \A n \in DOMAIN nodes : n \notin inner => (ToHoist(nodes, calls', n) <=> ToHoist(nodes, calls, n))
  BY <1>4, PushToHoist
<1>9. \A n \in inner : nodes[n].kind = "block"
  BY <1>3 DEF Entering
<1>10. calls' # <<>>
  <2>1. calls' \in Seq([block : DOMAIN nodes, at : Nat]) /\ Len(calls) >= 1 /\ Len(calls') >= Len(calls)
    BY <1>4 DEF Step, Pushed
  <2>2. Len(calls) \in Nat /\ Len(calls') \in Nat
    BY <1>4, PushIs
  <2> QED
    BY <2>1, <2>2
<1>11. Passed(inner)
  BY <1>7, <1>8, <1>9, <1>10 DEF Passed
<1>12. LinkInv'
  <2> SUFFICES ASSUME NEW n \in DOMAIN nodes, n # 1
               PROVE  Linked(nodes, n) \/ ToCome(nodes, calls', HolderIn(nodes, n))
    BY DEF LinkInv
  <2> DEFINE h == HolderIn(nodes, n)
  <2>1. h \in DOMAIN nodes
    BY <1>2, HolderHolds
  <2>2. Linked(nodes, n) \/ ToCome(nodes, calls, h)
    BY <1>2 DEF LinkInv
  <2>3. h = Statement \/ h \in inner => Linked(nodes, n)
    BY <1>9 DEF Linked, FunctionKinds
  <2> HIDE DEF h
  <2>4. Linked(nodes, n) \/ ToCome(nodes, calls', h)
    BY <1>7, <2>1, <2>2, <2>3
  <2> QED
    BY <2>4 DEF h
<1>13. TreeInv'
  BY DEF ControlInv, TreeInv
<1> QED
  BY <1>2, <1>6, <1>11, <1>12, <1>13, <1>10 DEF ControlInv, inner

LEMMA LeaveStep ==
  ASSUME ControlInv, Leave
  PROVE  /\ ControlInv' /\ UNCHANGED nodes
         /\ \A n : /\ ToCome(nodes', calls', n) <=> ToCome(nodes, calls, n)
                   /\ ToHoist(nodes', calls', n) <=> ToHoist(nodes, calls, n)
<1>1. Running /\ Last(calls).at > Len(nodes[Block].body)
  BY DEF Leave
<1>2. /\ Tree(nodes) /\ CallsInv(nodes, calls) /\ LinkInv /\ calls # <<>>
      /\ Block = calls[Len(calls)].block /\ Last(calls).at = calls[Len(calls)].at
  BY <1>1, RunningIs
<1>3. /\ calls' = Front(calls) /\ ended' = (IF Len(calls) = 1 THEN "done" ELSE "")
      /\ UNCHANGED <<language, nodes, open>>
  BY DEF Leave
<1>4. calls[Len(calls)].at > Len(nodes[calls[Len(calls)].block].body)
  BY <1>1, <1>2
<1>5. /\ CallsInv(nodes, Front(calls)) /\ (Front(calls) = <<>> <=> Len(calls) = 1)
      /\ \A n : ToCome(nodes, Front(calls), n) <=> ToCome(nodes, calls, n)
      /\ \A n : ToHoist(nodes, Front(calls), n) <=> ToHoist(nodes, calls, n)
  BY <1>2, <1>4, LeaveCalls
<1>6. LinkInv'
  BY <1>2, <1>3, <1>5 DEF LinkInv
<1>7. TreeInv'
  BY <1>3 DEF ControlInv, TreeInv
<1>8. (ended' = "done" <=> calls' = <<>>) /\ ended' \in Verdicts \cup {"", "done"}
  BY <1>3, <1>5
<1> QED
  BY <1>3, <1>5, <1>6, <1>7, <1>8 DEF ControlInv

(* A function's body is given its parent, and gone into.                        *)
LEMMA FunctionStep ==
  ASSUME ControlInv, AnalyzeFunction
  PROVE  /\ ControlInv' /\ Frozen(nodes, nodes') /\ nodes' \in Seq(NodeRecords)
         /\ Passed(Inner(nodes, Statement)) /\ nodes[Statement].body[1] \in Inner(nodes, Statement)
<1> DEFINE body == nodes[Statement].body[1]
           inner == Inner(nodes, Statement)
<1>1. At(FunctionKinds) /\ Running
  BY DEF AnalyzeFunction, FunctionKinds, At
<1>2. /\ Tree(nodes) /\ Formed(nodes) /\ Sorted(nodes) /\ Path(nodes, open) /\ language \in Languages
      /\ CallsInv(nodes, calls) /\ Called(nodes, calls) /\ LinkInv
      /\ calls # <<>> /\ ended = "" /\ Block \in DOMAIN nodes /\ nodes[Block].kind = "block"
      /\ Block = calls[Len(calls)].block
  BY <1>1, RunningIs
<1>3. /\ calls[Len(calls)].at \in DOMAIN nodes[calls[Len(calls)].block].body
      /\ Statement = StepAt(nodes, calls) /\ Statement \in DOMAIN nodes /\ Statement # 1
      /\ HolderIn(nodes, Statement) = Block /\ Entering(nodes, Statement, inner)
      /\ Linked(nodes, Statement) /\ nodes[Statement].kind \in FunctionKinds
      /\ FormOf(nodes[Statement]) /\ nodes[Statement].body \in Seq(Nat)
  BY <1>1, AtIs
<1>4. /\ nodes' = [nodes EXCEPT ![body].parent = Block] /\ calls' = OnwardAfter(<<body>>)
      /\ UNCHANGED <<language, open, ended>>
  BY DEF AnalyzeFunction
<1>5. nodes' = [nodes EXCEPT ![nodes[Statement].body[1]].parent = HolderIn(nodes, Statement)]
  BY <1>3, <1>4
<1> DEFINE ns == nodes'
<1>6. /\ Tree(ns) /\ Formed(ns) /\ Sorted(ns) /\ Path(ns, open)
      /\ Frozen(nodes, ns) /\ ns \in Seq(NodeRecords)
      /\ body \in DOMAIN nodes /\ HolderIn(nodes, body) = Statement
      /\ ns[body].parent = Block
      /\ \A n \in DOMAIN nodes : n # body => ns[n].parent = nodes[n].parent
  <2> HIDE DEF ns
  <2>1. ns = [nodes EXCEPT ![nodes[Statement].body[1]].parent = HolderIn(nodes, Statement)]
    BY <1>5 DEF ns
  <2> DEFINE f == Statement
  <2>2. f \in DOMAIN nodes /\ nodes[f].kind \in FunctionKinds /\ Relinks(nodes, f, ns)
    BY <1>3, <2>1 DEF Relinks
  <2>3. HolderIn(nodes, f) = Block /\ f = Statement
    BY <1>3
  <2> HIDE DEF f
  <2>4. /\ Tree(ns) /\ Formed(ns) /\ Sorted(ns) /\ Path(ns, open)
        /\ Frozen(nodes, ns) /\ ns \in Seq(NodeRecords)
        /\ nodes[f].body[1] \in DOMAIN nodes /\ HolderIn(nodes, nodes[f].body[1]) = f
        /\ ns[nodes[f].body[1]].parent = HolderIn(nodes, f)
        /\ \A n \in DOMAIN nodes : n # nodes[f].body[1] => ns[n].parent = nodes[n].parent
    <3>1. Tree(nodes) /\ Formed(nodes) /\ Sorted(nodes) /\ Path(nodes, open)
      BY <1>2
    <3> QED
      BY ONLY <2>2, <3>1, Relinked
  <2> QED
    BY ONLY <2>3, <2>4 DEF body
<1>7. inner = {body} /\ nodes[Statement].kind # "block"
  <2>1. Len(nodes[Statement].body) = 1 /\ nodes[Statement].kind # "block"
    BY <1>3 DEF FormOf, FunctionKinds
  <2>2. DOMAIN nodes[Statement].body = {1}
    BY <1>3, <2>1
  <2> QED
    BY <2>1, <2>2 DEF Inner, Range
<1> HIDE DEF ns, body
<1>8. DOMAIN ns = DOMAIN nodes /\ \A n \in DOMAIN nodes : ns[n].kind = nodes[n].kind /\ ns[n].body = nodes[n].body
  BY <1>6 DEF Frozen
<1>9. /\ \A n \in DOMAIN nodes : n # 1 => HolderIn(ns, n) = HolderIn(nodes, n)
      /\ \A n \in DOMAIN nodes : AboveIn(ns, n) = AboveIn(nodes, n)
  BY <1>2, <1>6, FrozenAbove
<1>10. \A n \in DOMAIN nodes : n # 1 => HolderIn(nodes, n) \in DOMAIN nodes
  BY <1>2, HolderHolds
<1>11. ASSUME NEW n \in DOMAIN nodes, Linked(nodes, n) \/ n = body
       PROVE  Linked(ns, n)
  <2> SUFFICES ASSUME n # 1, nodes[HolderIn(nodes, n)].kind \in FunctionKinds
               PROVE  ns[n].parent = HolderIn(ns, HolderIn(ns, n))
    BY <1>8, <1>9, <1>10 DEF Linked
  <2>1. HolderIn(nodes, n) # 1
    BY <1>2 DEF Formed, FunctionKinds
  <2>2. HolderIn(ns, HolderIn(ns, n)) = HolderIn(nodes, HolderIn(nodes, n))
    BY <1>9, <1>10, <2>1
  <2>3. CASE n = body
    BY <1>3, <1>6, <2>2, <2>3
  <2>4. CASE n # body
    BY <1>6, <1>11, <2>2, <2>4 DEF Linked
  <2> QED
    BY <2>3, <2>4
<1>12. /\ CallsInv(ns, calls)
       /\ \A n \in DOMAIN nodes : ToCome(ns, calls, n) <=> ToCome(nodes, calls, n)
       /\ \A n \in DOMAIN nodes : ToHoist(ns, calls, n) <=> ToHoist(nodes, calls, n)
  <2>1. \A n \in DOMAIN nodes : Linked(nodes, n) => Linked(ns, n)
    BY <1>11
  <2> QED
    BY ONLY <1>2, <1>6, <2>1, FrozenCalls
<1>13. Called(ns, calls)
  BY <1>12 DEF CallsInv
<1>14. Pushed(ns, calls, calls', inner)
  <2> DEFINE bs == <<body>>
  <2>1. bs \in Seq(DOMAIN ns) /\ \A i, k \in DOMAIN bs : bs[i] = bs[k] => i = k
    BY <1>6, <1>8
  <2>2. Range(bs) = {body}
    BY DEF Range
  <2>3. calls' = OnwardAfter(bs)
    BY <1>4
  <2> HIDE DEF bs
  <2>4. Pushed(ns, calls, OnwardAfter(bs), Range(bs))
    BY ONLY <1>2, <1>13, <2>1, AfterIs
  <2> QED
    BY <1>7, <2>2, <2>3, <2>4
<1>15. StepAt(ns, calls) = Statement
  BY <1>2, <1>3, <1>8 DEF StepAt
<1>16. Inner(ns, Statement) = inner
  BY <1>3, <1>8 DEF Inner
<1>17. Entering(ns, Statement, inner)
  BY <1>3, <1>6, <1>8, <1>16, InnerEnters
<1>18. Step(ns, calls, calls', inner)
  BY <1>2, <1>3, <1>6, <1>8, <1>12, <1>14, <1>15, <1>17 DEF Step, StepAt
<1>19. CallsInv(ns, calls')
  <2>1. \A x \in inner : Linked(ns, x)
    BY <1>6, <1>7, <1>11
  <2>2. Linked(ns, StepAt(ns, calls))
    BY <1>3, <1>11, <1>15
  <2> QED
    BY ONLY <1>18, <2>1, <2>2, PushCalls
<1>20. ASSUME NEW n \in DOMAIN nodes
       PROVE  /\ ToCome(ns, calls', n) <=> ToCome(nodes, calls, n) /\ n # Statement /\ n \notin inner
              /\ n \notin inner => (ToHoist(ns, calls', n) <=> ToHoist(nodes, calls, n))
              /\ n \in inner => nodes[n].kind = "block"
  <2>1. n \in DOMAIN ns
    BY <1>8
  <2>2. ToCome(ns, calls', n) <=> ToCome(ns, calls, n) /\ n # StepAt(ns, calls) /\ n \notin inner
    BY <1>18, <2>1, PushToCome
  <2>3. n \notin inner => (ToHoist(ns, calls', n) <=> ToHoist(ns, calls, n))
    BY <1>18, <2>1, PushToHoist
  <2>4. n \in inner => nodes[n].kind = "block"
    BY <1>3 DEF Entering
  <2> QED
    BY <1>12, <1>15, <2>2, <2>3, <2>4
<1>21. calls' # <<>>
  <2>1. calls' \in Seq([block : DOMAIN ns, at : Nat]) /\ Len(calls) >= 1 /\ Len(calls') >= Len(calls)
    BY <1>18 DEF Step, Pushed
  <2>2. Len(calls) \in Nat /\ Len(calls') \in Nat
    BY <1>18, PushIs
  <2> QED
    BY <2>1, <2>2
<1>22. Passed(inner)
  BY <1>20, <1>21 DEF Passed, ns
<1>23. LinkInv'
  <2> SUFFICES ASSUME NEW n \in DOMAIN nodes, n # 1
               PROVE  Linked(ns, n) \/ ToCome(ns, calls', HolderIn(ns, n))
    BY <1>8 DEF LinkInv, ns
  <2> DEFINE h == HolderIn(nodes, n)
  <2>1. h \in DOMAIN nodes /\ HolderIn(ns, n) = h /\ n \in Range(nodes[h].body)
    <3>1. h \in DOMAIN nodes /\ \E i \in DOMAIN nodes[h].body : nodes[h].body[i] = n
      BY <1>2, HolderHolds
    <3> QED
      BY <1>9, <3>1 DEF Range
  <2>2. Linked(nodes, n) \/ ToCome(nodes, calls, h)
    BY <1>2 DEF LinkInv
  <2>3. h = Statement => n \in inner
    BY <1>7, <2>1 DEF Inner
  <2>4. h \in inner => Linked(nodes, n)
    BY <1>3 DEF Entering, Linked, FunctionKinds
  <2> HIDE DEF h
  <2>5. n \in inner => Linked(ns, n)
    BY <1>7, <1>11
  <2> QED
    BY <1>11, <1>20, <2>1, <2>2, <2>3, <2>4, <2>5
<1>24. TreeInv'
  BY <1>2, <1>4, <1>6 DEF TreeInv, ns
<1>25. ControlInv'
  <2>1. ended' = ""
    BY <1>2, <1>4
  <2>2. CallsInv(nodes', calls')
    BY <1>19 DEF ns
  <2> QED
    BY <1>23, <1>24, <1>21, <2>1, <2>2 DEF ControlInv
<1> QED
  BY <1>6, <1>7, <1>22, <1>25 DEF ns, body

(* Statements that hold nothing.                                             *)
LEMMA OntoNext ==
  ASSUME ControlInv, NEW kinds, At(kinds), kinds \cap ({"block", "if"} \cup FunctionKinds \cup LoopKinds) = {},
         calls' = Onward, UNCHANGED <<language, nodes, open, ended>>
  PROVE  ControlInv' /\ Passed({})
<1>1. Running
  BY DEF At
<1>2. Called(nodes, calls) /\ calls # <<>>
  BY <1>1, RunningIs
<1>3. nodes[Statement].kind \in kinds /\ FormOf(nodes[Statement]) /\ nodes[Statement].body \in Seq(Nat)
  BY AtIs
<1>4. /\ nodes[Statement].kind \notin {"block", "if"} \cup FunctionKinds \cup LoopKinds
      /\ nodes[Statement].kind # "block" /\ nodes[Statement].kind \notin FunctionKinds
  BY <1>3
<1>5. nodes[Statement].body = <<>>
  BY <1>3, <1>4 DEF FormOf
<1>6. Inner(nodes, Statement) = {}
  BY <1>4, <1>5 DEF Inner, Range
<1>7. Pushed(nodes, calls, calls', Inner(nodes, Statement))
  BY <1>2, <1>6, OnwardPushes
<1>8. ControlInv' /\ Passed(Inner(nodes, Statement))
  BY <1>4, <1>7, PassStep
<1> QED
  BY <1>6, <1>8

LEMMA IntoBodies ==
  ASSUME ControlInv, NEW kinds, At(kinds), kinds \subseteq {"if"} \cup LoopKinds,
         calls' = OnwardAfter(nodes[Statement].body), UNCHANGED <<language, nodes, open, ended>>
  PROVE  ControlInv' /\ Passed(Inner(nodes, Statement))
<1>1. Running
  BY DEF At
<1>2. Called(nodes, calls) /\ calls # <<>> /\ Tree(nodes)
  BY <1>1, RunningIs
<1>3. nodes[Statement].kind \in kinds /\ nodes[Statement].body \in Seq(Nat) /\ Statement \in DOMAIN nodes
  BY AtIs
<1>4. nodes[Statement].kind # "block" /\ nodes[Statement].kind \notin FunctionKinds
  BY <1>3 DEF LoopKinds, FunctionKinds
<1>5. Inner(nodes, Statement) = Range(nodes[Statement].body)
  BY <1>4 DEF Inner
<1> DEFINE bs == nodes[Statement].body
<1>6. bs \in Seq(DOMAIN nodes) /\ \A i, k \in DOMAIN bs : bs[i] = bs[k] => i = k
  <2>1. \A i \in DOMAIN bs : bs[i] \in DOMAIN nodes
    BY <1>2, <1>3, UnderHolder
  <2>2. bs \in Seq(DOMAIN nodes)
    <3> HIDE DEF bs
    <3>1. bs \in Seq(Nat)
      BY <1>3 DEF bs
    <3> QED
      BY <2>1, <3>1
  <2>3. \A i, k \in DOMAIN bs : bs[i] = bs[k] => i = k
    BY <1>2, <1>3 DEF Tree
  <2> QED
    BY <2>2, <2>3
<1> HIDE DEF bs
<1>7. Pushed(nodes, calls, OnwardAfter(bs), Range(bs))
  BY ONLY <1>2, <1>6, AfterIs
<1>8. Pushed(nodes, calls, calls', Inner(nodes, Statement))
  BY <1>5, <1>7 DEF bs
<1> QED
  BY <1>4, <1>8, PassStep

LEMMA IntoBlock ==
  ASSUME ControlInv, At({"block"}), calls' = OnwardAfter(<<Statement>>),
         UNCHANGED <<language, nodes, open, ended>>
  PROVE  ControlInv' /\ Passed({Statement})
<1>1. Running
  BY DEF At
<1>2. Called(nodes, calls) /\ calls # <<>> /\ Tree(nodes)
  BY <1>1, RunningIs
<1>3. nodes[Statement].kind = "block" /\ Statement \in DOMAIN nodes
  BY AtIs
<1>4. Inner(nodes, Statement) = {Statement} /\ nodes[Statement].kind \notin FunctionKinds
  BY <1>3 DEF Inner, FunctionKinds
<1> DEFINE bs == <<Statement>>
<1>5. bs \in Seq(DOMAIN nodes) /\ \A i, k \in DOMAIN bs : bs[i] = bs[k] => i = k
  BY <1>3
<1>6. Range(bs) = {Statement}
  BY DEF Range
<1>7. calls' = OnwardAfter(bs)
  OBVIOUS
<1> HIDE DEF bs
<1>8. Pushed(nodes, calls, OnwardAfter(bs), Range(bs))
  BY ONLY <1>2, <1>5, AfterIs
<1>9. ControlInv' /\ Passed(Inner(nodes, Statement))
  BY <1>4, <1>6, <1>7, <1>8, PassStep
<1> QED
  BY <1>4, <1>9

LEMMA FaultsAre ==
  ASSUME NEW finds
  PROVE  /\ Faults(finds) \subseteq {"undeclared", "misused"} /\ Faults(finds) \subseteq Verdicts
         /\ Faults(finds) # {} => (CHOOSE f \in Faults(finds) : TRUE) \in Faults(finds)
<1>1. ASSUME NEW look, NEW entry
      PROVE  Fault(look, entry) \in {"undeclared", "misused", ""}
  BY DEF Fault
<1>2. Faults(finds) \subseteq {"undeclared", "misused"}
  BY <1>1 DEF Faults
<1>3. {"undeclared", "misused"} \subseteq Verdicts
  BY DEF Verdicts
<1> HIDE DEF Faults
<1> QED
  BY <1>2, <1>3

(* A step either finds a fault and stops, or it goes well.                      *)
LEMMA GoesIs ==
  ASSUME NEW ts, NEW finds, NEW cs, GoesOrEnds(ts, finds, cs)
  PROVE  \/ Faults(finds) = {} /\ Goes(ts, finds, cs)
         \/ Faults(finds) # {} /\ \E how \in Faults(finds) : Ends(how)
<1> QED
  BY FaultsAre DEF GoesOrEnds

LEMMA StartStep ==
  ASSUME ControlInv, Start
  PROVE  ControlInv'
<1>1. /\ calls = <<>> /\ ended = "" /\ calls' = <<Call(1)>> /\ UNCHANGED <<language, nodes, open, ended>>
  BY DEF Start, Writing
<1>2. TreeInv /\ Tree(nodes) /\ Formed(nodes) /\ TreeInv'
  BY <1>1 DEF ControlInv, TreeInv
<1>3. /\ CallsInv(nodes, <<Call(1)>>)
      /\ \A n \in DOMAIN nodes : n # 1 => ToCome(nodes, <<Call(1)>>, n)
  BY <1>2, FirstCall
<1>4. LinkInv'
  <2> SUFFICES ASSUME NEW n \in DOMAIN nodes, n # 1
               PROVE  Linked(nodes, n) \/ ToCome(nodes, <<Call(1)>>, HolderIn(nodes, n))
    BY <1>1 DEF LinkInv
  <2>1. HolderIn(nodes, n) \in DOMAIN nodes
    BY <1>2, HolderHolds
  <2>2. HolderIn(nodes, n) = 1 => Linked(nodes, n)
    BY <1>2 DEF Linked, Formed, FunctionKinds
  <2> QED
    BY <1>3, <2>1, <2>2
<1>5. <<Call(1)>> # <<>>
  OBVIOUS
<1>6. CallsInv(nodes', calls')
  BY <1>1, <1>3
<1> QED
  BY <1>1, <1>2, <1>4, <1>5, <1>6 DEF ControlInv

LEMMA ParseStep ==
  ASSUME TreeInv, Parse
  PROVE  /\ TreeInv' /\ calls = <<>> /\ ended = ""
         /\ UNCHANGED <<calls, ended, tables, found, targets>>
<1>1. TreeInv'
  BY WriteExpressionStep, WriteLetStep, WriteDefineStep, WriteClassStep, WriteControlStep,
     WriteReturnStep, WriteEmptyReturnStep, WriteEmptyLoopStep, BlockStep, OpenFunctionStep,
     OpenLiteralStep, OpenIfStep, OpenLoopStep, OpenForStep, CloseStep, ElseStep DEF Parse
<1>2. Writing
  <2>1. ASSUME NEW form, May(form)
        PROVE  Writing
    BY <2>1 DEF May
  <2> QED
    BY <2>1 DEF Parse, WriteExpression, WriteLet, WriteDefine, WriteClass, WriteControl,
       WriteReturn, WriteEmptyReturn, WriteEmptyLoop, OpenBlock, OpenFunction,
       OpenLiteral, OpenIf, OpenLoop, OpenFor, Close, Else
<1>3. UNCHANGED <<calls, ended, tables, found, targets>>
  <2>1. ASSUME NEW new, Write(new)
        PROVE  UNCHANGED <<calls, ended, tables, found, targets>>
    BY <2>1 DEF Write
  <2>2. ASSUME NEW node, WriteLine(node)
        PROVE  UNCHANGED <<calls, ended, tables, found, targets>>
    BY <2>1, <2>2 DEF WriteLine
  <2>3. ASSUME NEW new, NEW block, WriteAround(new, block)
        PROVE  UNCHANGED <<calls, ended, tables, found, targets>>
    BY <2>1, <2>3 DEF WriteAround
  <2>4. Close \/ Else => UNCHANGED <<calls, ended, tables, found, targets>>
    BY DEF Close, Else
  <2>5. WriteExpression \/ WriteLet \/ WriteDefine \/ WriteClass \/ WriteControl \/ WriteReturn
          \/ WriteEmptyReturn \/ WriteEmptyLoop => UNCHANGED <<calls, ended, tables, found, targets>>
    BY <2>2 DEF WriteExpression, WriteLet, WriteDefine, WriteClass, WriteControl, WriteReturn,
       WriteEmptyReturn, WriteEmptyLoop
  <2>6. OpenBlock \/ OpenFunction \/ OpenLiteral \/ OpenIf \/ OpenLoop \/ OpenFor
          => UNCHANGED <<calls, ended, tables, found, targets>>
    BY <2>3 DEF OpenBlock, OpenFunction, WriteFunction, OpenLiteral, OpenIf, OpenLoop, OpenFor
  <2> QED
    BY <2>4, <2>5, <2>6 DEF Parse
<1> QED
  BY <1>1, <1>2, <1>3 DEF Writing

(* Statements without bodies: a verdict, or on to the next.                     *)
Plain == {"expression", "let", "define", "class", "control", "return", "return nothing"}
Stops == \E how \in Verdicts : Ends(how)

LEMMA PlainIs ==
  ASSUME ControlInv, NEW kinds \in SUBSET Plain, At(kinds)
  PROVE  /\ Running
         /\ Stops => ControlInv'
         /\ calls' = Onward /\ UNCHANGED <<language, nodes, open, ended>> => ControlInv' /\ Passed({})
<1>1. Running
  BY DEF At
<1>2. Stops => ControlInv'
  BY <1>1, StopStep DEF Stops
<1>3. kinds \cap ({"block", "if"} \cup FunctionKinds \cup LoopKinds) = {}
  BY DEF Plain, FunctionKinds, LoopKinds
<1> QED
  BY <1>1, <1>2, <1>3, OntoNext

LEMMA GoesStops ==
  ASSUME NEW ts, NEW finds, NEW cs, GoesOrEnds(ts, finds, cs)
  PROVE  \/ Stops /\ \E how \in Faults(finds) : Ends(how)
         \/ Faults(finds) = {} /\ Goes(ts, finds, cs)
<1> QED
  BY GoesIs, FaultsAre DEF Stops

LEMMA HoistShape ==
  ASSUME ControlInv, Hoist
  PROVE  /\ ControlInv' /\ Running
         /\ \/ Stops
            \/ Raised(nodes, calls, calls') /\ calls' # <<>> /\ UNCHANGED <<language, nodes, open, targets, ended>>
<1>1. Running /\ Last(calls).at = 0
  BY DEF Hoist
<1>2. Stops \/ \E ts, finds : Goes(ts, finds, Onward)
  <2>1. "defined" \in Verdicts /\ "undeclared" \in Verdicts
    BY DEF Verdicts
  <2>2. Ends("defined") \/ Ends("undeclared") => Stops
    BY <2>1 DEF Stops
  <2> QED
    BY <2>2 DEF Hoist
<1>3. ASSUME NEW ts, NEW finds, Goes(ts, finds, Onward)
      PROVE  /\ ControlInv' /\ Raised(nodes, calls, calls') /\ calls' # <<>>
             /\ UNCHANGED <<language, nodes, open, targets, ended>>
  <2>1. calls' = Onward /\ UNCHANGED <<language, nodes, open, targets, ended>>
    BY <1>3 DEF Goes
  <2> QED
    BY <1>1, <2>1, RaiseStep
<1>4. Stops => ControlInv'
  BY <1>1, StopStep DEF Stops
<1> QED
  BY <1>1, <1>2, <1>3, <1>4

(* What goes well, and where to.                                              *)
Goneto(inner) ==
  ControlInv' /\ Passed(inner) /\ UNCHANGED <<language, nodes, open, ended>>

LEMMA BlockShape ==
  ASSUME ControlInv, AnalyzeBlock
  PROVE  At({"block"}) /\ Goneto({Statement}) /\ UNCHANGED <<tables, found, targets>>
<1>1. At({"block"}) /\ Goes(tables, {}, OnwardAfter(<<Statement>>))
  BY DEF AnalyzeBlock
<1>2. /\ calls' = OnwardAfter(<<Statement>>) /\ UNCHANGED <<language, nodes, open, ended>>
      /\ UNCHANGED <<tables, found, targets>>
  BY <1>1 DEF Goes
<1> QED
  BY <1>1, <1>2, IntoBlock DEF Goneto

LEMMA PlainGoes ==
  ASSUME ControlInv, NEW kinds \in SUBSET Plain, At(kinds), NEW ts, NEW finds, Goes(ts, finds, Onward)
  PROVE  Goneto({}) /\ tables' = ts /\ found' = found \cup finds /\ UNCHANGED targets
<1>1. /\ calls' = Onward /\ UNCHANGED <<language, nodes, open, ended>>
      /\ tables' = ts /\ found' = found \cup finds /\ UNCHANGED targets
  BY DEF Goes
<1>2. ControlInv' /\ Passed({})
  BY <1>1, PlainIs
<1> QED
  BY <1>1, <1>2 DEF Goneto

LEMMA ClassShape ==
  ASSUME ControlInv, SkipClass
  PROVE  At({"class"}) /\ Goneto({}) /\ UNCHANGED <<tables, found, targets>>
<1>1. At({"class"}) /\ Goes(tables, {}, Onward)
  BY DEF SkipClass
<1>2. {"class"} \in SUBSET Plain
  BY DEF Plain
<1>3. Goneto({}) /\ tables' = tables /\ found' = found \cup {} /\ UNCHANGED targets
  BY <1>1, <1>2, PlainGoes
<1> QED
  BY <1>1, <1>3

(* Looks of the statement, where it is.                                       *)
Conditions == Finds(tables, Statement, Block, LooksOf(nodes[Statement].value))

LEMMA ExpressionShape ==
  ASSUME ControlInv, AnalyzeExpression
  PROVE  /\ At({"expression"})
         /\ \/ Stops /\ ControlInv' /\ \E how \in Faults(Conditions) : Ends(how)
            \/ /\ Faults(Conditions) = {} /\ Goneto({}) /\ tables' = tables
               /\ found' = found \cup Conditions /\ UNCHANGED targets
<1>1. At({"expression"}) /\ GoesOrEnds(tables, Conditions, Onward)
  BY DEF AnalyzeExpression, Conditions
<1>2. {"expression"} \in SUBSET Plain
  BY DEF Plain
<1> QED
  BY <1>1, <1>2, GoesStops, PlainIs, PlainGoes

LEMMA LetShape ==
  ASSUME ControlInv, AnalyzeLet
  PROVE  /\ At({"let"})
         /\ \/ /\ Stops /\ ControlInv'
               /\ \/ \E how \in Faults(Conditions) : Ends(how)
                  \/ Ends("defined") /\ Defined(tables, Declares(Statement, Block))
            \/ /\ Faults(Conditions) = {} /\ ~Defined(tables, Declares(Statement, Block))
               /\ Goneto({}) /\ tables' = tables \cup Declares(Statement, Block)
               /\ found' = found \cup Conditions /\ UNCHANGED targets
<1> DEFINE entries == Declares(Statement, Block)
<1>1. /\ At({"let"})
      /\ IF Faults(Conditions) = {} /\ Defined(tables, entries) THEN Ends("defined")
         ELSE GoesOrEnds(tables \cup entries, Conditions, Onward)
  BY DEF AnalyzeLet, Conditions
<1>2. {"let"} \in SUBSET Plain /\ "defined" \in Verdicts
  BY DEF Plain, Verdicts
<1>3. CASE Ends("defined") /\ Defined(tables, entries)
  BY <1>1, <1>2, <1>3, PlainIs DEF Stops
<1>4. CASE GoesOrEnds(tables \cup entries, Conditions, Onward) /\ ~(Faults(Conditions) = {} /\ Defined(tables, entries))
  BY <1>1, <1>2, <1>4, GoesStops, PlainIs, PlainGoes
<1> QED
  BY <1>1, <1>3, <1>4

LEMMA DefineShape ==
  ASSUME ControlInv, AnalyzeDefine
  PROVE  LET typed == Finds(tables, Statement, Block, Types(Statement))
             entries == Declares(Statement, Block)
             finds == Finds(tables \cup entries, Statement, Block, LooksOf(nodes[Statement].value))
         IN /\ At({"define"})
            /\ \/ /\ Stops /\ ControlInv'
                  /\ \/ \E how \in Faults(typed) : Ends(how)
                     \/ ~Defined(tables, entries) /\ \E how \in Faults(typed \cup finds) : Ends(how)
                     \/ Ends("defined") /\ Defined(tables, entries)
               \/ /\ Faults(typed \cup finds) = {} /\ ~Defined(tables, entries)
                  /\ Goneto({}) /\ tables' = tables \cup entries
                  /\ found' = found \cup typed \cup finds /\ UNCHANGED targets
<1> DEFINE typed == Finds(tables, Statement, Block, Types(Statement))
           entries == Declares(Statement, Block)
           finds == Finds(tables \cup entries, Statement, Block, LooksOf(nodes[Statement].value))
           both == IF Faults(typed) # {} THEN typed ELSE typed \cup finds
<1>1. /\ At({"define"})
      /\ IF Faults(typed) = {} /\ Defined(tables, entries) THEN Ends("defined")
         ELSE GoesOrEnds(tables \cup entries, both, Onward)
  BY DEF AnalyzeDefine
<1>2. {"define"} \in SUBSET Plain /\ "defined" \in Verdicts
  BY DEF Plain, Verdicts
<1>3. both = typed \/ (both = typed \cup finds /\ Faults(typed) = {})
  OBVIOUS
<1>4. Faults(typed) # {} => both = typed
  OBVIOUS
<1> HIDE DEF typed, finds, both, entries
<1>5. CASE Faults(typed) = {} /\ Ends("defined") /\ Defined(tables, entries)
  BY <1>1, <1>2, <1>5, PlainIs DEF Stops, typed, finds, entries
<1>6. CASE GoesOrEnds(tables \cup entries, both, Onward) /\ ~(Faults(typed) = {} /\ Defined(tables, entries))
  <2>1. \/ Stops /\ \E how \in Faults(both) : Ends(how)
        \/ Faults(both) = {} /\ Goes(tables \cup entries, both, Onward)
    BY <1>6, GoesStops
  <2>2. CASE Stops /\ \E how \in Faults(both) : Ends(how)
    <3>1. ControlInv'
      BY <1>1, <1>2, <2>2, PlainIs
    <3>2. \/ \E how \in Faults(typed) : Ends(how)
          \/ ~Defined(tables, entries) /\ \E how \in Faults(typed \cup finds) : Ends(how)
      BY <1>3, <1>6, <2>2
    <3> QED
      BY <1>1, <2>2, <3>1, <3>2 DEF typed, finds, entries
  <2>3. CASE Faults(both) = {} /\ Goes(tables \cup entries, both, Onward)
    <3>1. both = typed \cup finds
      BY <1>3, <1>4, <2>3 DEF both
    <3>2. Goneto({}) /\ tables' = tables \cup entries /\ found' = found \cup both /\ UNCHANGED targets
      BY <1>1, <1>2, <2>3, PlainGoes
    <3>3. Faults(typed) = {}
      BY <1>4, <2>3
    <3>4. ~Defined(tables, entries)
      BY <1>6, <3>3
    <3>5. found' = found \cup typed \cup finds
      BY <3>1, <3>2
    <3>6. Faults(typed \cup finds) = {}
      BY <2>3, <3>1
    <3> QED
      BY <1>1, <3>2, <3>4, <3>5, <3>6 DEF typed, finds, entries
  <2> QED
    BY <2>1, <2>2, <2>3
<1> QED
  BY <1>1, <1>5, <1>6

LEMMA IfShape ==
  ASSUME ControlInv, AnalyzeIf
  PROVE  /\ At({"if"})
         /\ \/ Stops /\ ControlInv' /\ \E how \in Faults(Conditions) : Ends(how)
            \/ /\ Faults(Conditions) = {} /\ Goneto(Inner(nodes, Statement)) /\ tables' = tables
               /\ found' = found \cup Conditions /\ UNCHANGED targets
<1>1. At({"if"}) /\ GoesOrEnds(tables, Conditions, OnwardAfter(nodes[Statement].body)) /\ Running
  BY DEF AnalyzeIf, Conditions, Condition, At
<1>2. CASE Stops /\ \E how \in Faults(Conditions) : Ends(how)
  BY <1>1, <1>2, StopStep DEF Stops
<1>3. CASE Faults(Conditions) = {} /\ Goes(tables, Conditions, OnwardAfter(nodes[Statement].body))
  <2>1. /\ calls' = OnwardAfter(nodes[Statement].body) /\ UNCHANGED <<language, nodes, open, ended>>
        /\ tables' = tables /\ found' = found \cup Conditions /\ UNCHANGED targets
    BY <1>3 DEF Goes
  <2>2. {"if"} \subseteq {"if"} \cup LoopKinds
    OBVIOUS
  <2>3. ControlInv' /\ Passed(Inner(nodes, Statement))
    BY ONLY ControlInv, <1>1, <2>1, <2>2, IntoBodies
  <2> QED
    BY <1>1, <1>3, <2>1, <2>3 DEF Goneto
<1> QED
  BY <1>1, <1>2, <1>3, GoesStops

LEMMA LoopShape ==
  ASSUME ControlInv, AnalyzeLoop
  PROVE  /\ At(LoopKinds)
         /\ \/ Stops /\ ControlInv' /\ \E how \in Faults(Conditions) : Ends(how)
            \/ Stops /\ ControlInv' /\ Ends("crash") /\ nodes[Statement].body = <<>>
            \/ /\ Faults(Conditions) = {} /\ nodes[Statement].body # <<>>
               /\ Goneto(Inner(nodes, Statement)) /\ tables' = tables
               /\ found' = found \cup Conditions /\ UNCHANGED targets
<1>1. /\ At(LoopKinds) /\ Running
      /\ IF Faults(Conditions) = {} /\ nodes[Statement].body = <<>> THEN Ends("crash")
         ELSE GoesOrEnds(tables, Conditions, OnwardAfter(nodes[Statement].body))
  BY DEF AnalyzeLoop, Conditions, Condition, At
<1>2. "crash" \in Verdicts
  BY DEF Verdicts
<1>3. CASE Ends("crash") /\ nodes[Statement].body = <<>>
  BY <1>1, <1>2, <1>3, StopStep DEF Stops
<1>4. CASE /\ GoesOrEnds(tables, Conditions, OnwardAfter(nodes[Statement].body))
           /\ ~(Faults(Conditions) = {} /\ nodes[Statement].body = <<>>)
  <2>1. CASE Stops /\ \E how \in Faults(Conditions) : Ends(how)
    BY <1>1, <2>1, StopStep DEF Stops
  <2>2. CASE Faults(Conditions) = {} /\ Goes(tables, Conditions, OnwardAfter(nodes[Statement].body))
    <3>1. /\ calls' = OnwardAfter(nodes[Statement].body) /\ UNCHANGED <<language, nodes, open, ended>>
          /\ tables' = tables /\ found' = found \cup Conditions /\ UNCHANGED targets
      BY <2>2 DEF Goes
    <3>2. LoopKinds \subseteq {"if"} \cup LoopKinds
      OBVIOUS
    <3>3. ControlInv' /\ Passed(Inner(nodes, Statement))
      BY ONLY ControlInv, <1>1, <3>1, <3>2, IntoBodies
    <3> QED
      BY <1>1, <1>4, <2>2, <3>1, <3>3 DEF Goneto
  <2> QED
    BY <1>4, <2>1, <2>2, GoesStops
<1> QED
  BY <1>1, <1>3, <1>4

TargetFrom == IF nodes[Statement].label = None THEN NearestLoop(Block) ELSE GetLabel(Statement)
Going(target) == targets' = targets \cup {[node |-> Statement, target |-> target]}

LEMMA ControlShape ==
  ASSUME ControlInv, AnalyzeControl
  PROVE  /\ At({"control"})
         /\ \/ Stops /\ ControlInv' /\ Ends("outside") /\ TargetFrom = 0
            \/ /\ TargetFrom # 0 /\ Goneto({}) /\ Going(TargetFrom) /\ UNCHANGED <<tables, found>>
<1>1. /\ At({"control"})
      /\ IF TargetFrom = 0 THEN Ends("outside")
         ELSE Going(TargetFrom) /\ calls' = Onward /\ UNCHANGED <<language, nodes, open, lines, tables, found, ended>>
  BY DEF AnalyzeControl, TargetFrom, Going
<1>2. {"control"} \in SUBSET Plain /\ "outside" \in Verdicts
  BY DEF Plain, Verdicts
<1>3. CASE TargetFrom = 0
  BY <1>1, <1>2, <1>3, PlainIs DEF Stops
<1>4. CASE TargetFrom # 0
  <2>1. Going(TargetFrom) /\ calls' = Onward /\ UNCHANGED <<language, nodes, open, tables, found, ended>>
    BY <1>1, <1>4
  <2>2. ControlInv' /\ Passed({})
    BY <1>1, <1>2, <2>1, PlainIs
  <2> QED
    BY <1>1, <1>4, <2>1, <2>2 DEF Goneto
<1> QED
  BY <1>3, <1>4

LEMMA ReturnShape ==
  ASSUME ControlInv, AnalyzeReturn
  PROVE  /\ At({"return", "return nothing"})
         /\ \/ Stops /\ ControlInv' /\ Ends("outside") /\ FunctionAround(Block) = 0
            \/ Stops /\ ControlInv' /\ Ends("crash") /\ nodes[Statement].kind = "return nothing"
            \/ Stops /\ ControlInv' /\ Ends("undeclared") /\ Faults(Conditions) # {}
            \/ /\ FunctionAround(Block) # 0 /\ nodes[Statement].kind = "return" /\ Faults(Conditions) = {}
               /\ Goneto({}) /\ Going(FunctionAround(Block))
               /\ found' = found \cup Conditions /\ UNCHANGED tables
<1> DEFINE target == FunctionAround(Block)
           goes == /\ Going(target) /\ found' = found \cup Conditions /\ calls' = Onward
                   /\ UNCHANGED <<language, nodes, open, lines, tables, ended>>
<1>1. /\ At({"return", "return nothing"})
      /\ CASE target = 0 -> Ends("outside")
           [] target # 0 /\ nodes[Statement].kind = "return nothing" -> Ends("crash")
           [] target # 0 /\ Faults(Conditions) # {} -> Ends("undeclared")
           [] OTHER -> goes
  BY DEF AnalyzeReturn, Conditions, Condition, Going
<1> HIDE DEF target, goes
<1>2. {"return", "return nothing"} \in SUBSET Plain /\ {"outside", "crash", "undeclared"} \subseteq Verdicts
  BY DEF Plain, Verdicts
<1>3. nodes[Statement].kind \in {"return", "return nothing"}
  BY <1>1, AtIs
<1>4. CASE target = 0
  BY <1>1, <1>2, <1>4, PlainIs DEF Stops, target
<1>5. CASE target # 0 /\ nodes[Statement].kind = "return nothing"
  <2>1. Ends("crash") \/ (Ends("undeclared") /\ Faults(Conditions) # {})
    BY <1>1, <1>5
  <2> QED
    BY <1>1, <1>2, <1>5, <2>1, PlainIs DEF Stops
<1>6. CASE target # 0 /\ nodes[Statement].kind # "return nothing" /\ Faults(Conditions) # {}
  <2>1. Ends("undeclared")
    BY <1>1, <1>6
  <2> QED
    BY <1>1, <1>2, <1>6, <2>1, PlainIs DEF Stops
<1>7. CASE target # 0 /\ nodes[Statement].kind # "return nothing" /\ Faults(Conditions) = {}
  <2>1. goes
    BY <1>1, <1>7
  <2>2. /\ Going(target) /\ found' = found \cup Conditions /\ calls' = Onward
        /\ UNCHANGED <<language, nodes, open, tables, ended>>
    BY <2>1 DEF goes
  <2>3. ControlInv' /\ Passed({})
    BY <1>1, <1>2, <2>2, PlainIs
  <2>4. Goneto({})
    BY <2>2, <2>3 DEF Goneto
  <2> QED
    BY <1>1, <1>3, <1>7, <2>2, <2>4 DEF target
<1> QED
  BY <1>4, <1>5, <1>6, <1>7

LEMMA AnalyzeFunctionIs ==
  ASSUME ControlInv, AnalyzeFunction
  PROVE  /\ At(FunctionKinds) /\ tables' = tables \cup Arguments(Statement)
         /\ UNCHANGED <<language, open, found, targets, ended>>
<1> QED
  BY DEF AnalyzeFunction, FunctionKinds

LEMMA ControlStep ==
  ASSUME ControlInv, [Next]_vars
  PROVE  ControlInv'
<1>1. CASE Parse
  <2>1. TreeInv' /\ UNCHANGED <<calls, ended>> /\ calls = <<>> /\ ended = ""
    BY <1>1, ParseStep DEF ControlInv
  <2>2. ~Begun'
    BY <2>1 DEF Begun
  <2> QED
    BY <2>1, <2>2 DEF ControlInv
<1>2. CASE Start
  BY <1>2, StartStep
<1>3. CASE Hoist
  BY <1>3, HoistShape
<1>4. CASE AnalyzeBlock
  BY <1>4, BlockShape DEF Goneto
<1>5. CASE AnalyzeExpression
  BY <1>5, ExpressionShape DEF Goneto
<1>6. CASE AnalyzeLet
  BY <1>6, LetShape DEF Goneto
<1>7. CASE AnalyzeDefine
  BY <1>7, DefineShape DEF Goneto
<1>8. CASE AnalyzeFunction
  BY <1>8, FunctionStep
<1>9. CASE AnalyzeIf
  BY <1>9, IfShape DEF Goneto
<1>10. CASE AnalyzeLoop
  BY <1>10, LoopShape DEF Goneto
<1>11. CASE AnalyzeControl
  BY <1>11, ControlShape DEF Goneto
<1>12. CASE AnalyzeReturn
  BY <1>12, ReturnShape DEF Goneto
<1>13. CASE SkipClass
  BY <1>13, ClassShape DEF Goneto
<1>14. CASE Leave
  BY <1>14, LeaveStep
<1>15. CASE UNCHANGED vars
  BY <1>15 DEF vars, ControlInv, TreeInv, Begun, LinkInv
<1> QED
  BY <1>1, <1>2, <1>3, <1>4, <1>5, <1>6, <1>7, <1>8, <1>9, <1>10, <1>11, <1>12, <1>13, <1>14, <1>15
  DEF Next, Analyze

(* At every moment the tree is one, and the calls of analyze that are under way    *)
(* (analyze_block and what it calls) stand in blocks that hold one another; what   *)
(* none of them is still to come to has been analyzed, functions of theirs given    *)
(* their parents.                                                             *)
THEOREM ControlHolds == Spec => []ControlInv
<1>1. Init => ControlInv
  BY TreeInit DEF Init, ControlInv, Begun
<1>2. ControlInv /\ [Next]_vars => ControlInv'
  BY ControlStep
<1> QED
  BY <1>1, <1>2, PTL DEF Spec

LEMMA HolderLinks ==
  ASSUME NEW ns, Tree(ns), Formed(ns), NEW n \in DOMAIN ns, n # 1
  PROVE  Link(ns, HolderIn(ns, n), n) /\ HolderIn(ns, n) \in DOMAIN ns
<1>1. HolderIn(ns, n) \in DOMAIN ns /\ \E i \in DOMAIN ns[HolderIn(ns, n)].body : ns[HolderIn(ns, n)].body[i] = n
  BY HolderHolds
<1> QED
  BY <1>1 DEF Formed

LEMMA NothingToCome ==
  ASSUME NEW ns, NEW n
  PROVE  ~ToCome(ns, <<>>, n) /\ ~ToHoist(ns, <<>>, n)
BY DEF ToCome, ToHoist

LEMMA ControlLinks ==
  ASSUME ControlInv
  PROVE  LinksAgree
<1>1. Tree(nodes) /\ Formed(nodes)
  BY DEF ControlInv, TreeInv
<1> SUFFICES ASSUME NEW n \in DOMAIN nodes, n # 1
             PROVE  IF nodes[Holder(n)].kind \in {"function", "literal"}
                      THEN nodes[n].parent \in IF ended = "done" THEN {Holder(Holder(n))} ELSE {0, Holder(Holder(n))}
                      ELSE nodes[n].parent = Holder(n)
  BY DEF LinksAgree
<1>2. \A m : Holder(m) = HolderIn(nodes, m)
  BY DEF Holder, HolderIn
<1>3. Link(nodes, Holder(n), n)
  BY <1>1, <1>2, HolderLinks
<1>4. CASE nodes[Holder(n)].kind \in FunctionKinds
  <2>1. nodes[n].parent \in {0, Holder(Holder(n))}
    BY <1>2, <1>3, <1>4 DEF Link
  <2>2. ended = "done" => nodes[n].parent = Holder(Holder(n))
    <3> SUFFICES ASSUME ended = "done"
                 PROVE  nodes[n].parent = Holder(Holder(n))
      OBVIOUS
    <3>1. calls = <<>> /\ LinkInv
      BY DEF ControlInv, Begun
    <3>2. Linked(nodes, n)
      BY <3>1, NothingToCome DEF LinkInv
    <3> QED
      BY <1>2, <1>4, <3>2 DEF Linked
  <2> QED
    BY <1>4, <2>1, <2>2 DEF FunctionKinds
<1>5. CASE nodes[Holder(n)].kind \notin FunctionKinds
  BY <1>3, <1>5 DEF Link, FunctionKinds
<1> QED
  BY <1>4, <1>5

(* The parents set by hand all over parse.c, and the one analyze_function gives  *)
(* a body, agree with what holds what (parse.c, analyze.c): nothing the parser  *)
(* opens, closes or wraps leaves a parent behind, and no call of analyze misses   *)
(* a function.                                                               *)
THEOREM LinksHold == Spec => []LinksAgree
BY ControlHolds, ControlLinks, PTL

-----------------------------------------------------------------------------
(* Walks along the parents.                                                  *)

LEMMA InnermostIs ==
  ASSUME NEW S, NEW m \in S, m \in Nat, \A k \in S : k \in Nat /\ k <= m
  PROVE  Innermost(S) = m
<1>1. S # {}
  OBVIOUS
<1>2. \A x \in S : (\A y \in S : x >= y) => x = m
  OBVIOUS
<1>3. \A y \in S : m >= y
  OBVIOUS
<1>4. Max(S) = m
  BY <1>2, <1>3 DEF Max
<1> QED
  BY <1>1, <1>4 DEF Innermost

LEMMA InnermostNone == Innermost({}) = 0
BY DEF Innermost

(* Where the parent of a node can be.                                          *)
LEMMA ParentIs ==
  ASSUME NEW ns, Tree(ns), Formed(ns), NEW n \in DOMAIN ns
  PROVE  /\ ns[n].parent \in 0 .. n - 1 /\ ns[n].parent \in 0 .. Len(ns) /\ n \in 0 .. Len(ns) /\ n # 0
         /\ DOMAIN ns = 1 .. Len(ns) /\ Len(ns) \in Nat /\ ns[1].parent = 0 /\ ns[1].function = 0
         /\ ns[n].parent # 0 => /\ ns[n].parent \in DOMAIN ns /\ ns[n].parent \in AboveIn(ns, n)
                                /\ ns[ns[n].parent].kind \notin FunctionKinds
         /\ n # 1 /\ ns[HolderIn(ns, n)].kind \notin FunctionKinds =>
              ns[n].parent = HolderIn(ns, n) /\ ns[n].function = 0
         /\ n # 1 /\ ns[HolderIn(ns, n)].kind \in FunctionKinds =>
              /\ ns[n].function = HolderIn(ns, n) /\ ns[n].kind = "block" /\ HolderIn(ns, n) # 1
              /\ HolderIn(ns, HolderIn(ns, n)) \in DOMAIN ns
              /\ ns[HolderIn(ns, HolderIn(ns, n))].kind = "block"
              /\ ns[n].parent \in {0, HolderIn(ns, HolderIn(ns, n))}
              /\ AboveIn(ns, n) = {HolderIn(ns, n), HolderIn(ns, HolderIn(ns, n))}
                                    \cup AboveIn(ns, HolderIn(ns, HolderIn(ns, n)))
<1> DEFINE h == HolderIn(ns, n)
           q == HolderIn(ns, h)
<1>1. DOMAIN ns = 1 .. Len(ns) /\ Len(ns) \in Nat /\ ns[1].parent = 0 /\ ns[1].function = 0
      /\ ns[1].kind = "block"
  BY DEF Tree, Formed
<1>2. n # 1 => /\ h \in DOMAIN ns /\ h \in 1 .. n - 1 /\ AboveIn(ns, n) = {h} \cup AboveIn(ns, h)
               /\ Link(ns, h, n) /\ \E i \in DOMAIN ns[h].body : ns[h].body[i] = n
  BY HolderHolds, AboveIs, HolderLinks
<1>3. ns[h].kind \in FunctionKinds => h # 1
  BY <1>1 DEF FunctionKinds
<1>4. n # 1 /\ h # 1 => /\ q \in DOMAIN ns /\ q \in 1 .. h - 1 /\ AboveIn(ns, h) = {q} \cup AboveIn(ns, q)
                        /\ \E i \in DOMAIN ns[q].body : ns[q].body[i] = h
  <2> HIDE DEF h
  <2> QED
    BY <1>2, HolderHolds, AboveIs
<1>5. n # 1 /\ ns[h].kind \in FunctionKinds => ns[n].kind = "block" /\ ns[q].kind = "block"
  <2> SUFFICES ASSUME n # 1, ns[h].kind \in FunctionKinds
               PROVE  ns[n].kind = "block" /\ ns[q].kind = "block"
    OBVIOUS
  <2>1. Form(ns, h) /\ Form(ns, q)
    BY <1>2, <1>3, <1>4 DEF Formed
  <2>2. ns[h].kind # "block"
    BY DEF FunctionKinds
  <2>3. ns[n].kind = "block"
    BY <1>2, <2>1, <2>2 DEF Form
  <2>4. ns[q].kind = "block"
    BY <1>3, <1>4, <2>1, <2>2 DEF Form
  <2> QED
    BY <2>3, <2>4
<1>6. n # 1 /\ ns[h].kind \notin FunctionKinds => ns[n].parent = h /\ ns[n].function = 0
  BY <1>2 DEF Link
<1>7. n # 1 /\ ns[h].kind \in FunctionKinds => ns[n].function = h /\ ns[n].parent \in {0, q}
  BY <1>2 DEF Link
<1> HIDE DEF h, q
<1>8. ns[n].parent # 0 => /\ ns[n].parent \in DOMAIN ns /\ ns[n].parent \in AboveIn(ns, n) /\ ns[n].parent \in 0 .. n - 1
                          /\ ns[ns[n].parent].kind \notin FunctionKinds
  <2>1. CASE n # 1 /\ ns[h].kind \notin FunctionKinds
    BY <1>1, <1>2, <1>6, <2>1
  <2>2. CASE n # 1 /\ ns[h].kind \in FunctionKinds
    BY <1>1, <1>2, <1>3, <1>4, <1>5, <1>7, <2>2 DEF FunctionKinds
  <2> QED
    BY <1>1, <2>1, <2>2
<1>9. 0 \in 0 .. n - 1 /\ n - 1 \in 0 .. Len(ns) /\ n \in 0 .. Len(ns) /\ n # 0
  BY <1>1
<1>10. ns[n].parent \in 0 .. n - 1 /\ ns[n].parent \in 0 .. Len(ns)
  BY <1>1, <1>8, <1>9
<1>11. n # 1 /\ ns[h].kind \in FunctionKinds => AboveIn(ns, n) = {h, q} \cup AboveIn(ns, q)
  BY <1>2, <1>3, <1>4
<1> QED
  BY <1>1, <1>3, <1>4, <1>5, <1>6, <1>7, <1>8, <1>9, <1>10, <1>11 DEF h, q

FunctionIn(ns, n) == Innermost({m \in AboveIn(ns, n) : ns[m].kind \in FunctionKinds})

LEMMA FunctionAroundIs ==
  ASSUME Tree(nodes), Formed(nodes)
  PROVE  /\ FunctionAround(0) = 0
         /\ \A n \in DOMAIN nodes : FunctionAround(n) =
              IF nodes[n].function # 0 THEN nodes[n].function ELSE FunctionAround(nodes[n].parent)
<1> DEFINE N == Len(nodes)
           V == Nat
           stop == {0} \cup {n \in 0 .. N : n # 0 /\ nodes[n].function # 0}
           v == [n \in 0 .. N |-> IF n = 0 THEN 0 ELSE nodes[n].function]
           p == [n \in 0 .. N |-> nodes[n].parent]
           G == [n \in 0 .. N |-> [x \in V |-> x]]
           Eqn(g) == g = [n \in 0 .. N |->
                            CASE n = 0 -> 0
                              [] n # 0 /\ nodes[n].function # 0 -> nodes[n].function
                              [] OTHER -> g[nodes[n].parent]]
<1>1. N \in Nat /\ DOMAIN nodes = 1 .. N /\ \A n \in 0 .. N : n # 0 => n \in DOMAIN nodes
  BY DEF Tree
<1>2. \A n \in DOMAIN nodes : nodes[n].parent \in 0 .. n - 1 /\ nodes[n].parent \in 0 .. N
  BY ParentIs
<1>3. \A n \in DOMAIN nodes : nodes[n].function \in Nat
  <2> SUFFICES ASSUME NEW n \in DOMAIN nodes
               PROVE  nodes[n].function \in Nat
    OBVIOUS
  <2>1. nodes[n] \in NodeRecords
    BY DEF Tree
  <2> QED
    BY <2>1 DEF NodeRecords
<1>4. /\ \A n \in 0 .. N : n \notin stop => p[n] \in 0 .. n - 1
      /\ \A n \in 0 .. N : p[n] = nodes[n].parent
      /\ \A n \in 0 .. N : \A x \in V : G[n][x] = x
      /\ \A n \in 0 .. N : n \in stop => v[n] \in V
      /\ \A n \in 0 .. N : v[n] = IF n = 0 THEN 0 ELSE nodes[n].function
      /\ \A n \in 0 .. N : n \in stop <=> (n = 0 \/ nodes[n].function # 0)
  BY <1>1, <1>2, <1>3
<1> HIDE DEF V, v, p, G, stop
<1>5. PICK f : Walks(f, N, V, stop, v, p, G)
  <2>1. IsWalk(N, V, stop, v, p, G)
    BY <1>1, <1>4 DEF IsWalk
  <2> HIDE DEF N
  <2> QED
    BY ONLY <2>1, WalkExists
<1>6. f \in [0 .. N -> V] /\ \A n \in 0 .. N : f[n] = IF n \in stop THEN v[n] ELSE G[n][f[p[n]]]
  BY <1>5 DEF Walks
<1>7. ASSUME NEW n \in 0 .. N
      PROVE  f[n] = CASE n = 0 -> 0
                      [] n # 0 /\ nodes[n].function # 0 -> nodes[n].function
                      [] OTHER -> f[nodes[n].parent]
  <2>1. CASE n \in stop
    BY <1>4, <1>6, <2>1
  <2>2. CASE n \notin stop
    <3>1. nodes[n].parent \in 0 .. N /\ n # 0 /\ ~(nodes[n].function # 0)
      BY <1>1, <1>2, <1>4, <2>2
    <3>2. f[nodes[n].parent] \in V
      BY <1>6, <3>1
    <3>3. f[n] = f[nodes[n].parent]
      BY <1>4, <1>6, <2>2, <3>2
    <3> QED
      BY <3>1, <3>3
  <2> QED
    BY <2>1, <2>2
<1>8. Eqn(f)
  BY <1>6, <1>7
<1> DEFINE e == CHOOSE g : Eqn(g)
<1>9. Eqn(e)
  <2> HIDE DEF Eqn
  <2> QED
    BY <1>8
<1>10. \A n : FunctionAround(n) = e[n]
  BY DEF FunctionAround
<1> HIDE DEF e
<1>11. \A n \in 0 .. N : e[n] = CASE n = 0 -> 0
                                  [] n # 0 /\ nodes[n].function # 0 -> nodes[n].function
                                  [] OTHER -> e[nodes[n].parent]
  BY <1>9
<1>12. e[0] = 0
  BY <1>1, <1>11
<1>13. \A n \in DOMAIN nodes : e[n] = IF nodes[n].function # 0 THEN nodes[n].function ELSE e[nodes[n].parent]
  <2> SUFFICES ASSUME NEW n \in DOMAIN nodes
               PROVE  e[n] = IF nodes[n].function # 0 THEN nodes[n].function ELSE e[nodes[n].parent]
    OBVIOUS
  <2>1. n \in 0 .. N /\ n # 0
    BY <1>1
  <2> QED
    BY <1>11, <2>1
<1> QED
  BY <1>10, <1>12, <1>13

(* get_function_scope finds the innermost function, whatever is between.          *)
LEMMA FunctionAroundFinds ==
  ASSUME Tree(nodes), Formed(nodes), NEW b \in DOMAIN nodes
  PROVE  FunctionAround(b) = FunctionIn(nodes, b)
<1> DEFINE S == {n \in DOMAIN nodes : FunctionAround(n) # FunctionIn(nodes, n)}
<1>1. DOMAIN nodes = 1 .. Len(nodes) /\ Len(nodes) \in Nat
  BY DEF Tree
<1>2. ASSUME NEW n \in S
      PROVE  \E j \in S : j < n
  <2>1. n \in DOMAIN nodes /\ FunctionAround(n) # FunctionIn(nodes, n)
    OBVIOUS
  <2> DEFINE h == HolderIn(nodes, n)
  <2>2. FunctionAround(n) = IF nodes[n].function # 0 THEN nodes[n].function ELSE FunctionAround(nodes[n].parent)
    BY <2>1, FunctionAroundIs
  <2>3. n # 1
    <3>1. SUFFICES ASSUME n = 1
                   PROVE  FALSE
      OBVIOUS
    <3>2. nodes[1].parent = 0 /\ nodes[1].function = 0 /\ AboveIn(nodes, 1) = {}
      BY <2>1, ParentIs, AboveIs
    <3>3. FunctionAround(n) = 0
      BY <2>2, <3>1, <3>2, FunctionAroundIs
    <3>4. {m \in AboveIn(nodes, n) : nodes[m].kind \in FunctionKinds} = {}
      BY <3>1, <3>2
    <3> QED
      BY <2>1, <3>3, <3>4, InnermostNone DEF FunctionIn
  <2>4. h \in DOMAIN nodes /\ h < n /\ h # 0 /\ AboveIn(nodes, n) = {h} \cup AboveIn(nodes, h)
    BY <1>1, <2>1, <2>3, HolderHolds, AboveIs
  <2>5. CASE nodes[h].kind \in FunctionKinds
    <3>1. nodes[n].function = h
      BY <2>1, <2>3, <2>5, ParentIs
    <3>2. FunctionAround(n) = h
      BY <2>2, <2>4, <3>1
    <3> DEFINE A == {m \in AboveIn(nodes, n) : nodes[m].kind \in FunctionKinds}
    <3>3. h \in A /\ \A k \in A : k \in Nat /\ k <= h
      <4>1. h \in A
        BY <2>4, <2>5
      <4>2. \A k \in AboveIn(nodes, h) : k \in Nat /\ k < h /\ h \in Nat
        BY <2>4, AboveLess
      <4> QED
        BY <1>1, <2>4, <4>1, <4>2
    <3>4. Innermost(A) = h
      <4> HIDE DEF A, h
      <4>1. h \in Nat
        BY <3>3
      <4> QED
        BY ONLY <3>3, <4>1, InnermostIs
    <3> QED
      BY <2>1, <3>2, <3>4 DEF FunctionIn
  <2>6. CASE nodes[h].kind \notin FunctionKinds
    <3>1. nodes[n].parent = h /\ nodes[n].function = 0
      BY <2>1, <2>3, <2>6, ParentIs
    <3>2. FunctionAround(n) = FunctionAround(h)
      BY <2>2, <3>1
    <3>3. {m \in AboveIn(nodes, n) : nodes[m].kind \in FunctionKinds} =
            {m \in AboveIn(nodes, h) : nodes[m].kind \in FunctionKinds}
      BY <2>4, <2>6
    <3>4. FunctionIn(nodes, n) = FunctionIn(nodes, h)
      BY <3>3 DEF FunctionIn
    <3> QED
      BY <2>1, <2>4, <3>2, <3>4
  <2> QED
    BY <2>5, <2>6
<1>3. S = {}
  <2>1. S \in SUBSET Nat
    BY <1>1
  <2> HIDE DEF S
  <2> QED
    BY ONLY <1>2, <2>1, NoLeastNoElement
<1> QED
  BY <1>3

(* The loops with a label, around and at n.                                     *)
Labelled(ns, c) == {m \in DOMAIN ns : ns[m].kind \in LoopKinds /\ ns[m].label = ns[c].label}

LEMMA GetLabelIs ==
  ASSUME Tree(nodes), Formed(nodes), NEW c \in DOMAIN nodes
  PROVE  \E f : /\ GetLabel(c) = f[nodes[c].parent] /\ f[0] = 0
                /\ \A n \in DOMAIN nodes : nodes[n].kind \notin FunctionKinds =>
                     f[n] = IF n \in Labelled(nodes, c) THEN n ELSE f[nodes[n].parent]
<1> DEFINE N == Len(nodes)
           V == Nat
           T == Labelled(nodes, c)
           F == {n \in DOMAIN nodes : nodes[n].kind = "function"}
           stop == {0} \cup T \cup F
           v == [n \in 0 .. N |-> IF n \in T THEN n ELSE 0]
           p == [n \in 0 .. N |-> nodes[n].parent]
           G == [n \in 0 .. N |-> [x \in V |-> x]]
           Eqn(g) == g = [n \in 0 .. N |->
                            CASE n = 0 -> 0
                              [] n # 0 /\ nodes[n].kind \in LoopKinds /\ nodes[n].label = nodes[c].label -> n
                              [] n # 0 /\ nodes[n].kind = "function" -> 0
                              [] OTHER -> g[nodes[n].parent]]
<1>1. N \in Nat /\ DOMAIN nodes = 1 .. N /\ \A n \in 0 .. N : n # 0 => n \in DOMAIN nodes
  BY DEF Tree
<1>2. \A n \in DOMAIN nodes : nodes[n].parent \in 0 .. n - 1 /\ nodes[n].parent \in 0 .. N
  BY ParentIs
<1>3. /\ \A n : n \in T <=> n \in DOMAIN nodes /\ nodes[n].kind \in LoopKinds /\ nodes[n].label = nodes[c].label
      /\ \A n \in T : nodes[n].kind # "function"
  BY DEF Labelled, LoopKinds
<1> HIDE DEF T
<1>4. /\ \A n \in 0 .. N : n \notin stop => p[n] \in 0 .. n - 1
      /\ \A n \in 0 .. N : p[n] = nodes[n].parent
      /\ \A n \in 0 .. N : \A x \in V : G[n][x] = x
      /\ \A n \in 0 .. N : n \in stop => v[n] \in V
      /\ \A n \in 0 .. N : v[n] = IF n \in T THEN n ELSE 0
      /\ \A n \in 0 .. N : n \in stop <=> (n = 0 \/ n \in T \/ nodes[n].kind = "function")
  BY <1>1, <1>2
<1> HIDE DEF V, v, p, G, stop
<1>5. PICK f : Walks(f, N, V, stop, v, p, G)
  <2>1. IsWalk(N, V, stop, v, p, G)
    BY <1>1, <1>4 DEF IsWalk
  <2> HIDE DEF N
  <2> QED
    BY ONLY <2>1, WalkExists
<1>6. f \in [0 .. N -> V] /\ \A n \in 0 .. N : f[n] = IF n \in stop THEN v[n] ELSE G[n][f[p[n]]]
  BY <1>5 DEF Walks
<1>7. ASSUME NEW n \in 0 .. N
      PROVE  f[n] = CASE n = 0 -> 0
                      [] n # 0 /\ nodes[n].kind \in LoopKinds /\ nodes[n].label = nodes[c].label -> n
                      [] n # 0 /\ nodes[n].kind = "function" -> 0
                      [] OTHER -> f[nodes[n].parent]
  <2>1. CASE n = 0
    <3>1. n \in stop /\ n \notin T
      BY <1>1, <1>3, <1>4, <2>1
    <3> QED
      BY <1>4, <1>6, <2>1, <3>1
  <2>2. CASE n # 0 /\ n \in T
    <3>1. n \in stop /\ nodes[n].kind \in LoopKinds /\ nodes[n].label = nodes[c].label /\ nodes[n].kind # "function"
      BY <1>3, <1>4, <2>2
    <3>2. f[n] = n
      BY <1>4, <1>6, <2>2, <3>1
    <3> QED
      BY <2>2, <3>1, <3>2
  <2>3. CASE n # 0 /\ n \notin T /\ nodes[n].kind = "function"
    <3>1. n \in stop /\ ~(nodes[n].kind \in LoopKinds /\ nodes[n].label = nodes[c].label)
      BY <1>1, <1>3, <1>4, <2>3
    <3>2. f[n] = 0
      BY <1>4, <1>6, <2>3, <3>1
    <3> QED
      BY <2>3, <3>1, <3>2
  <2>4. CASE n # 0 /\ n \notin T /\ nodes[n].kind # "function"
    <3>1. n \notin stop /\ ~(nodes[n].kind \in LoopKinds /\ nodes[n].label = nodes[c].label) /\ nodes[n].parent \in 0 .. N
      BY <1>1, <1>2, <1>3, <1>4, <2>4
    <3>2. f[nodes[n].parent] \in V
      BY <1>6, <3>1
    <3>3. f[n] = f[nodes[n].parent]
      BY <1>4, <1>6, <3>1, <3>2
    <3> QED
      BY <2>4, <3>1, <3>3
  <2> QED
    BY <2>1, <2>2, <2>3, <2>4
<1>8. Eqn(f)
  BY <1>6, <1>7
<1> DEFINE e == CHOOSE g : Eqn(g)
<1>9. Eqn(e)
  <2> HIDE DEF Eqn
  <2> QED
    BY <1>8
<1>10. GetLabel(c) = e[nodes[c].parent]
  BY DEF GetLabel
<1> HIDE DEF e
<1>11. \A n \in 0 .. N : e[n] = CASE n = 0 -> 0
                                  [] n # 0 /\ nodes[n].kind \in LoopKinds /\ nodes[n].label = nodes[c].label -> n
                                  [] n # 0 /\ nodes[n].kind = "function" -> 0
                                  [] OTHER -> e[nodes[n].parent]
  BY <1>9
<1>12. e[0] = 0
  BY <1>1, <1>11
<1>13. ASSUME NEW n \in DOMAIN nodes, nodes[n].kind \notin FunctionKinds
       PROVE  e[n] = IF n \in T THEN n ELSE e[nodes[n].parent]
  <2>1. n \in 0 .. N /\ n # 0 /\ nodes[n].kind # "function"
    BY <1>1, <1>13 DEF FunctionKinds
  <2>2. n \in T <=> nodes[n].kind \in LoopKinds /\ nodes[n].label = nodes[c].label
    BY <1>3
  <2> QED
    BY <1>11, <2>1, <2>2
<1> QED
  BY <1>10, <1>12, <1>13 DEF T

LEMMA GetLabelFinds ==
  ASSUME Tree(nodes), Formed(nodes), NEW c \in DOMAIN nodes, NEW b \in DOMAIN nodes, nodes[b].kind = "block",
         nodes[c].parent = b, AllLinked(nodes, b)
  PROVE  GetLabel(c) = Innermost({m \in Labelled(nodes, c) : Under(nodes, m, b)})
<1> DEFINE T == Labelled(nodes, c)
           Far(n) == {m \in T : Under(nodes, m, n)}
<1>1. PICK f : /\ GetLabel(c) = f[nodes[c].parent] /\ f[0] = 0
               /\ \A n \in DOMAIN nodes : nodes[n].kind \notin FunctionKinds =>
                    f[n] = IF n \in T THEN n ELSE f[nodes[n].parent]
  BY GetLabelIs
<1>2. T \subseteq DOMAIN nodes /\ \A n \in T : nodes[n].kind \in LoopKinds /\ nodes[n].kind \notin FunctionKinds
  BY DEF Labelled, LoopKinds, FunctionKinds
<1> HIDE DEF T
<1> DEFINE S == {n \in DOMAIN nodes : /\ nodes[n].kind \notin FunctionKinds /\ AllLinked(nodes, n)
                                      /\ f[n] # Innermost(Far(n))}
<1>3. DOMAIN nodes = 1 .. Len(nodes) /\ Len(nodes) \in Nat
  BY DEF Tree
<1>4. ASSUME NEW n \in S
      PROVE  \E j \in S : j < n
  <2>1. n \in DOMAIN nodes /\ nodes[n].kind \notin FunctionKinds /\ AllLinked(nodes, n) /\ f[n] # Innermost(Far(n))
    OBVIOUS
  <2> DEFINE h == HolderIn(nodes, n)
             q == HolderIn(nodes, h)
  <2>2. f[n] = IF n \in T THEN n ELSE f[nodes[n].parent]
    BY <1>1, <2>1
  <2>3. n \notin T
    <3>1. SUFFICES ASSUME n \in T
                   PROVE  FALSE
      OBVIOUS
    <3>2. n \in Far(n)
      BY <3>1 DEF Under
    <3>3. \A k \in Far(n) : k \in Nat /\ k <= n
      <4>1. \A k \in AboveIn(nodes, n) : k \in Nat /\ k < n
        BY <2>1, AboveLess
      <4> QED
        BY <1>3, <2>1, <4>1 DEF Under
    <3>4. Innermost(Far(n)) = n
      <4>1. n \in Nat
        BY <1>3, <2>1
      <4> HIDE DEF Far
      <4> QED
        BY ONLY <3>2, <3>3, <4>1, InnermostIs
    <3> QED
      BY <2>1, <2>2, <3>1, <3>4
  <2>4. n # 1
    <3>1. SUFFICES ASSUME n = 1
                   PROVE  FALSE
      OBVIOUS
    <3>2. nodes[1].parent = 0 /\ AboveIn(nodes, 1) = {}
      BY <2>1, ParentIs, AboveIs
    <3>3. Far(n) = {}
      BY <2>3, <3>1, <3>2 DEF Under
    <3>4. f[n] = 0
      BY <1>1, <2>2, <2>3, <3>1, <3>2
    <3> QED
      BY <2>1, <3>3, <3>4, InnermostNone
  <2>5. h \in DOMAIN nodes /\ h < n /\ AboveIn(nodes, n) = {h} \cup AboveIn(nodes, h)
    BY <1>3, <2>1, <2>4, HolderHolds, AboveIs
  <2>6. CASE nodes[h].kind \notin FunctionKinds
    <3>1. nodes[n].parent = h
      BY <2>1, <2>4, <2>6, ParentIs
    <3>2. \A m : m # n => (Under(nodes, m, n) <=> Under(nodes, m, h))
      BY <2>5 DEF Under
    <3>3. Far(n) = Far(h)
      <4>1. \A m \in T : m # n
        BY <2>3
      <4>2. ~Under(nodes, n, h)
        <5>1. \A k \in AboveIn(nodes, h) : k < h /\ k \in Nat
          BY <2>5, AboveLess
        <5> QED
          BY <1>3, <2>1, <2>5, <5>1 DEF Under
      <4> QED
        BY <3>2, <4>1
    <3>4. AllLinked(nodes, h)
      <4>1. \A m : Under(nodes, m, h) => Under(nodes, m, n)
        BY <2>5 DEF Under
      <4> QED
        BY <2>1, <4>1 DEF AllLinked
    <3>5. f[h] # Innermost(Far(h))
      BY <2>1, <2>2, <2>3, <3>1, <3>3
    <3> QED
      BY <2>5, <2>6, <3>4, <3>5
  <2>7. CASE nodes[h].kind \in FunctionKinds
    <3>1. /\ q \in DOMAIN nodes /\ nodes[q].kind = "block" /\ h # 1
          /\ AboveIn(nodes, n) = {h, q} \cup AboveIn(nodes, q)
      BY <2>1, <2>4, <2>7, ParentIs
    <3>2. q < h
      BY <1>3, <2>5, <3>1, HolderHolds
    <3>3. nodes[n].parent = q
      <4>1. Linked(nodes, n)
        BY <2>1 DEF AllLinked, Under
      <4> QED
        BY <2>4, <2>7, <4>1 DEF Linked
    <3>4. h \notin T /\ n \notin T
      BY <1>2, <2>3, <2>7
    <3>5. Far(n) = Far(q)
      BY <3>1, <3>4 DEF Under
    <3>6. AllLinked(nodes, q)
      <4>1. \A m : Under(nodes, m, q) => Under(nodes, m, n)
        BY <3>1 DEF Under
      <4> QED
        BY <2>1, <4>1 DEF AllLinked
    <3>7. f[q] # Innermost(Far(q))
      BY <2>1, <2>2, <2>3, <3>3, <3>5
    <3>8. q < n /\ nodes[q].kind \notin FunctionKinds
      BY <1>3, <2>1, <2>5, <3>1, <3>2 DEF FunctionKinds
    <3> QED
      BY <3>1, <3>6, <3>7, <3>8
  <2> QED
    BY <2>6, <2>7
<1>5. S = {}
  <2>1. S \in SUBSET Nat
    BY <1>3
  <2> HIDE DEF S
  <2> QED
    BY ONLY <1>4, <2>1, NoLeastNoElement
<1>6. nodes[b].kind \notin FunctionKinds
  BY DEF FunctionKinds
<1> QED
  BY <1>1, <1>5, <1>6 DEF T

(* The block around a node, by its parent.                                      *)
Scope(ns, n) ==
  LET p == ns[n].parent
  IN IF p = 0 THEN 0 ELSE IF ns[p].kind = "block" THEN p ELSE ns[p].parent

LEMMA AroundIs ==
  ASSUME Tree(nodes), Formed(nodes), NEW b \in DOMAIN nodes
  PROVE  Around(b).escape = FALSE /\ ParentScope(b) = Scope(nodes, b)
<1> DEFINE N == Len(nodes)
           V == [block : Nat, escape : BOOLEAN]
           stop == {0} \cup {n \in DOMAIN nodes : nodes[n].kind = "block"}
           v == [n \in 0 .. N |-> [block |-> n, escape |-> FALSE]]
           p == [n \in 0 .. N |-> nodes[n].parent]
           G == [n \in 0 .. N |-> [x \in V |-> [x EXCEPT !.escape = @ \/ nodes[n].kind = "function"]]]
           Eqn(g) == g = [m \in 0 .. N |->
                            CASE m = 0 -> [block |-> 0, escape |-> FALSE]
                              [] m # 0 /\ nodes[m].kind = "block" -> [block |-> m, escape |-> FALSE]
                              [] OTHER -> LET above == g[nodes[m].parent]
                                          IN [above EXCEPT !.escape = @ \/ nodes[m].kind = "function"]]
<1>1. N \in Nat /\ DOMAIN nodes = 1 .. N /\ \A n \in 0 .. N : n # 0 => n \in DOMAIN nodes
  BY DEF Tree
<1>2. \A n \in DOMAIN nodes : nodes[n].parent \in 0 .. n - 1 /\ nodes[n].parent \in 0 .. N
  BY ParentIs
<1>3. \A x \in V : \A n \in 0 .. N : [x EXCEPT !.escape = @ \/ nodes[n].kind = "function"] \in V
  <2> SUFFICES ASSUME NEW x \in V, NEW n \in 0 .. N
               PROVE  [x EXCEPT !.escape = @ \/ nodes[n].kind = "function"] \in V
    OBVIOUS
  <2> DEFINE y == x.escape \/ nodes[n].kind = "function"
  <2>1. y \in BOOLEAN
    OBVIOUS
  <2> HIDE DEF y
  <2>2. [x EXCEPT !.escape = y] \in V
    BY <2>1
  <2> QED
    BY <2>2 DEF y
<1>4. /\ \A n \in 0 .. N : n \notin stop => p[n] \in 0 .. n - 1
      /\ \A n \in 0 .. N : p[n] = nodes[n].parent
      /\ \A n \in 0 .. N : n \in stop => v[n] \in V
      /\ \A n \in 0 .. N : n \in stop <=> (n = 0 \/ nodes[n].kind = "block")
  BY <1>1, <1>2
<1>5. \A n \in 0 .. N : \A x \in V : G[n][x] = [x EXCEPT !.escape = @ \/ nodes[n].kind = "function"]
  OBVIOUS
<1>6. \A n \in 0 .. N : \A x \in V : G[n][x] \in V
  <2> HIDE DEF G, V
  <2> QED
    BY <1>3, <1>5
<1>7. \A n \in 0 .. N : v[n] = [block |-> n, escape |-> FALSE]
  OBVIOUS
<1> HIDE DEF V, v, p, G, stop
<1>8. PICK f : Walks(f, N, V, stop, v, p, G)
  <2>1. IsWalk(N, V, stop, v, p, G)
    BY <1>1, <1>4, <1>6 DEF IsWalk
  <2> HIDE DEF N
  <2> QED
    BY ONLY <2>1, WalkExists
<1>9. f \in [0 .. N -> V] /\ \A n \in 0 .. N : f[n] = IF n \in stop THEN v[n] ELSE G[n][f[p[n]]]
  BY <1>8 DEF Walks
<1>10. ASSUME NEW m \in 0 .. N
       PROVE  f[m] = CASE m = 0 -> [block |-> 0, escape |-> FALSE]
                       [] m # 0 /\ nodes[m].kind = "block" -> [block |-> m, escape |-> FALSE]
                       [] OTHER -> LET above == f[nodes[m].parent]
                                   IN [above EXCEPT !.escape = @ \/ nodes[m].kind = "function"]
  <2>1. CASE m = 0
    BY <1>4, <1>7, <1>9, <2>1
  <2>2. CASE m # 0 /\ nodes[m].kind = "block"
    <3>1. f[m] = [block |-> m, escape |-> FALSE]
      BY <1>4, <1>7, <1>9, <2>2
    <3> QED
      BY <2>2, <3>1
  <2>3. CASE m # 0 /\ nodes[m].kind # "block"
    <3>1. m \notin stop /\ nodes[m].parent \in 0 .. N /\ p[m] = nodes[m].parent
      BY <1>1, <1>2, <1>4, <2>3
    <3>2. f[nodes[m].parent] \in V
      BY <1>9, <3>1
    <3>3. f[m] = G[m][f[nodes[m].parent]]
      BY <1>9, <3>1
    <3>4. f[m] = [f[nodes[m].parent] EXCEPT !.escape = @ \/ nodes[m].kind = "function"]
      BY <1>5, <3>2, <3>3
    <3> QED
      BY <2>3, <3>4
  <2> QED
    BY <2>1, <2>2, <2>3
<1>11. Eqn(f)
  <2> DEFINE E(m) == CASE m = 0 -> [block |-> 0, escape |-> FALSE]
                       [] m # 0 /\ nodes[m].kind = "block" -> [block |-> m, escape |-> FALSE]
                       [] OTHER -> LET above == f[nodes[m].parent]
                                   IN [above EXCEPT !.escape = @ \/ nodes[m].kind = "function"]
  <2>1. \A m \in 0 .. N : f[m] = E(m)
    BY <1>10
  <2> HIDE DEF E
  <2>2. f = [m \in 0 .. N |-> E(m)]
    BY <1>9, <2>1
  <2> QED
    BY <2>2 DEF E
<1> DEFINE e == CHOOSE g : Eqn(g)
<1>12. Eqn(e)
  <2> HIDE DEF Eqn
  <2> QED
    BY <1>11
<1>13. Around(b) = e[nodes[b].parent]
  BY DEF Around
<1> HIDE DEF e
<1>14. /\ e[0] = [block |-> 0, escape |-> FALSE]
       /\ \A m \in DOMAIN nodes : nodes[m].kind = "block" => e[m] = [block |-> m, escape |-> FALSE]
       /\ \A m \in DOMAIN nodes : nodes[m].kind # "block" =>
            e[m] = [e[nodes[m].parent] EXCEPT !.escape = @ \/ nodes[m].kind = "function"]
  <2> DEFINE E(m) == CASE m = 0 -> [block |-> 0, escape |-> FALSE]
                       [] m # 0 /\ nodes[m].kind = "block" -> [block |-> m, escape |-> FALSE]
                       [] OTHER -> LET above == e[nodes[m].parent]
                                   IN [above EXCEPT !.escape = @ \/ nodes[m].kind = "function"]
  <2>1. e = [m \in 0 .. N |-> E(m)]
    BY <1>12
  <2>2. \A m \in 0 .. N : e[m] = E(m)
    <3> HIDE DEF E
    <3> QED
      BY <2>1
  <2>3. 0 \in 0 .. N /\ \A m \in DOMAIN nodes : m \in 0 .. N /\ m # 0
    BY <1>1
  <2>4. /\ E(0) = [block |-> 0, escape |-> FALSE]
        /\ \A m \in DOMAIN nodes : nodes[m].kind = "block" => E(m) = [block |-> m, escape |-> FALSE]
        /\ \A m \in DOMAIN nodes : nodes[m].kind # "block" =>
             E(m) = [e[nodes[m].parent] EXCEPT !.escape = @ \/ nodes[m].kind = "function"]
    BY <2>3
  <2> HIDE DEF E
  <2> QED
    BY <2>2, <2>3, <2>4
<1> DEFINE q == nodes[b].parent
<1>15. CASE q = 0
  BY <1>13, <1>14, <1>15 DEF ParentScope, Scope
<1>16. CASE q # 0 /\ nodes[q].kind = "block"
  <2>1. q \in DOMAIN nodes
    BY <1>16, ParentIs
  <2> HIDE DEF q
  <2>2. e[q] = [block |-> q, escape |-> FALSE]
    BY <1>14, <1>16, <2>1
  <2>3. Around(b) = [block |-> q, escape |-> FALSE]
    BY <1>13, <2>2 DEF q
  <2> QED
    BY <1>16, <2>3 DEF ParentScope, Scope, q
<1>17. CASE q # 0 /\ nodes[q].kind # "block"
  <2>1. q \in DOMAIN nodes /\ nodes[q].kind \notin FunctionKinds
    BY <1>17, ParentIs
  <2> DEFINE r == nodes[q].parent
  <2> HIDE DEF q
  <2>2. q # 1
    BY <1>17 DEF Formed
  <2>3. HolderIn(nodes, q) \in DOMAIN nodes /\ \E i \in DOMAIN nodes[HolderIn(nodes, q)].body : nodes[HolderIn(nodes, q)].body[i] = q
    BY <2>1, <2>2, HolderHolds
  <2>4. nodes[HolderIn(nodes, q)].kind = "block"
    <3>1. Form(nodes, HolderIn(nodes, q))
      BY <2>3 DEF Formed
    <3> QED
      BY <1>17, <2>3, <3>1 DEF Form
  <2>5. r = HolderIn(nodes, q)
    <3>1. nodes[HolderIn(nodes, q)].kind \notin FunctionKinds
      BY <2>4 DEF FunctionKinds
    <3> QED
      BY <2>1, <2>2, <3>1, ParentIs
  <2> HIDE DEF r
  <2>6. e[r] = [block |-> r, escape |-> FALSE]
    BY <1>14, <2>3, <2>4, <2>5
  <2>7. e[q] = [e[r] EXCEPT !.escape = @ \/ nodes[q].kind = "function"]
    BY <1>14, <1>17, <2>1 DEF r
  <2>8. nodes[q].kind # "function"
    BY <2>1 DEF FunctionKinds
  <2>9. e[q].block = r /\ e[q].escape = FALSE
    <3> DEFINE y == nodes[q].kind = "function"
    <3>1. y = FALSE
      BY <2>8
    <3> HIDE DEF y
    <3>2. [[block |-> r, escape |-> FALSE] EXCEPT !.escape = @ \/ y] = [block |-> r, escape |-> FALSE]
      <4> DEFINE z == [block |-> r, escape |-> FALSE].escape \/ y
      <4>1. z = FALSE
        BY <3>1
      <4> HIDE DEF z
      <4>2. \A w : [[block |-> r, escape |-> FALSE] EXCEPT !.escape = w] = [block |-> r, escape |-> w]
        OBVIOUS
      <4>3. [[block |-> r, escape |-> FALSE] EXCEPT !.escape = z] = [block |-> r, escape |-> z]
        BY <4>2
      <4>4. [[block |-> r, escape |-> FALSE] EXCEPT !.escape = z] = [block |-> r, escape |-> FALSE]
        BY <4>1, <4>3, Zenon
      <4> QED
        BY <4>4 DEF z
    <3>3. e[q] = [[block |-> r, escape |-> FALSE] EXCEPT !.escape = @ \/ y]
      BY <2>6, <2>7 DEF y
    <3>4. e[q] = [block |-> r, escape |-> FALSE]
      BY <3>2, <3>3
    <3> QED
      BY <3>4
  <2> QED
    BY <1>13, <1>17, <2>9 DEF ParentScope, Scope, q, r
<1> QED
  BY <1>15, <1>16, <1>17

LEMMA ScopeBefore ==
  ASSUME NEW ns, Tree(ns), Formed(ns), NEW n \in DOMAIN ns
  PROVE  Scope(ns, n) \in 0 .. n - 1
<1> DEFINE p == ns[n].parent
<1>1. p \in 0 .. n - 1 /\ (p # 0 => p \in DOMAIN ns) /\ DOMAIN ns = 1 .. Len(ns) /\ Len(ns) \in Nat
  BY ParentIs
<1> HIDE DEF p
<1>2. p # 0 => ns[p].parent \in 0 .. p - 1
  BY <1>1, ParentIs
<1>3. Scope(ns, n) = IF p = 0 THEN 0 ELSE IF ns[p].kind = "block" THEN p ELSE ns[p].parent
  BY DEF Scope, p
<1>4. n \in Nat /\ n >= 1
  BY <1>1
<1> QED
  BY <1>1, <1>2, <1>3, <1>4

LEMMA NearestLoopIs ==
  ASSUME Tree(nodes), Formed(nodes)
  PROVE  /\ NearestLoop(0) = 0
         /\ \A n \in DOMAIN nodes : NearestLoop(n) =
              IF nodes[n].parent # 0 /\ nodes[nodes[n].parent].kind \in LoopKinds THEN nodes[n].parent
              ELSE NearestLoop(Scope(nodes, n))
<1> DEFINE N == Len(nodes)
           V == Nat
           Q(n) == IF n = 0 THEN 0 ELSE nodes[n].parent
           T == {n \in 0 .. N : Q(n) # 0 /\ nodes[Q(n)].kind \in LoopKinds}
           stop == {0} \cup T
           v == [n \in 0 .. N |-> IF n \in T THEN Q(n) ELSE 0]
           p == [n \in 0 .. N |-> ParentScope(n)]
           G == [n \in 0 .. N |-> [x \in V |-> x]]
           Eqn(g) == g = [n \in 0 .. N |->
                            LET parent == IF n = 0 THEN 0 ELSE nodes[n].parent
                            IN CASE n = 0 -> 0
                                 [] parent # 0 /\ nodes[parent].kind \in LoopKinds -> parent
                                 [] OTHER -> IF Around(n).escape THEN 0 ELSE g[ParentScope(n)]]
<1>1. N \in Nat /\ DOMAIN nodes = 1 .. N /\ \A n \in 0 .. N : n # 0 => n \in DOMAIN nodes
  BY DEF Tree
<1>2. \A n \in DOMAIN nodes : /\ ParentScope(n) = Scope(nodes, n) /\ ParentScope(n) \in 0 .. n - 1
                              /\ ParentScope(n) \in 0 .. N /\ ~Around(n).escape
  <2> SUFFICES ASSUME NEW n \in DOMAIN nodes
               PROVE  /\ ParentScope(n) = Scope(nodes, n) /\ ParentScope(n) \in 0 .. n - 1
                      /\ ParentScope(n) \in 0 .. N /\ ~Around(n).escape
    OBVIOUS
  <2>1. Around(n).escape = FALSE /\ ParentScope(n) = Scope(nodes, n)
    BY AroundIs
  <2>2. Scope(nodes, n) \in 0 .. n - 1
    BY ScopeBefore
  <2> QED
    BY <1>1, <2>1, <2>2
<1>3. \A n \in DOMAIN nodes : nodes[n].parent \in 0 .. n - 1 /\ nodes[n].parent \in Nat
  <2> SUFFICES ASSUME NEW n \in DOMAIN nodes
               PROVE  nodes[n].parent \in 0 .. n - 1 /\ nodes[n].parent \in Nat
    OBVIOUS
  <2>1. nodes[n].parent \in 0 .. n - 1
    BY ParentIs
  <2> QED
    BY <2>1
<1>4. /\ \A n \in 0 .. N : n \notin stop => p[n] \in 0 .. n - 1
      /\ \A n \in 0 .. N : p[n] = ParentScope(n)
      /\ \A n \in 0 .. N : \A x \in V : G[n][x] = x
      /\ \A n \in 0 .. N : n \in stop => v[n] \in V
      /\ \A n \in 0 .. N : v[n] = IF n \in T THEN Q(n) ELSE 0
      /\ \A n \in 0 .. N : n \in stop <=> (n = 0 \/ n \in T)
      /\ \A n \in 0 .. N : n \in T <=> Q(n) # 0 /\ nodes[Q(n)].kind \in LoopKinds
      /\ 0 \notin T
  BY <1>1, <1>2, <1>3
<1>5. \A n \in 0 .. N : n # 0 => Q(n) = nodes[n].parent
  OBVIOUS
<1> HIDE DEF V, v, p, G, stop, T, Q
<1>6. PICK f : Walks(f, N, V, stop, v, p, G)
  <2>1. IsWalk(N, V, stop, v, p, G)
    BY <1>1, <1>4 DEF IsWalk
  <2> HIDE DEF N
  <2> QED
    BY ONLY <2>1, WalkExists
<1>7. f \in [0 .. N -> V] /\ \A n \in 0 .. N : f[n] = IF n \in stop THEN v[n] ELSE G[n][f[p[n]]]
  BY <1>6 DEF Walks
<1>8. ASSUME NEW n \in 0 .. N
      PROVE  f[n] = LET parent == IF n = 0 THEN 0 ELSE nodes[n].parent
                    IN CASE n = 0 -> 0
                         [] parent # 0 /\ nodes[parent].kind \in LoopKinds -> parent
                         [] OTHER -> IF Around(n).escape THEN 0 ELSE f[ParentScope(n)]
  <2>1. CASE n = 0
    <3>1. n \in stop /\ n \notin T
      BY <1>4, <2>1
    <3>2. f[n] = 0
      BY <1>4, <1>7, <3>1
    <3> QED
      BY <2>1, <3>2
  <2>2. CASE n \in T
    <3>1. n # 0 /\ n \in stop /\ nodes[n].parent # 0 /\ nodes[nodes[n].parent].kind \in LoopKinds
      BY <1>4, <1>5, <2>2
    <3>2. f[n] = nodes[n].parent
      BY <1>4, <1>5, <1>7, <2>2, <3>1
    <3> QED
      BY <3>1, <3>2
  <2>3. CASE n # 0 /\ n \notin T
    <3>1. n \notin stop /\ ~(nodes[n].parent # 0 /\ nodes[nodes[n].parent].kind \in LoopKinds)
          /\ n \in DOMAIN nodes
      BY <1>1, <1>4, <1>5, <2>3
    <3>2. ~Around(n).escape /\ ParentScope(n) \in 0 .. N
      BY <1>2, <3>1
    <3>3. f[ParentScope(n)] \in V
      BY <1>7, <3>2
    <3>4. f[n] = f[ParentScope(n)]
      BY <1>4, <1>7, <3>1, <3>3
    <3> QED
      BY <2>3, <3>1, <3>2, <3>4
  <2> QED
    BY <2>1, <2>2, <2>3
<1>9. Eqn(f)
  BY <1>7, <1>8
<1> DEFINE e == CHOOSE g : Eqn(g)
<1>10. Eqn(e)
  <2> HIDE DEF Eqn
  <2> QED
    BY <1>9
<1>11. \A n : NearestLoop(n) = e[n]
  BY DEF NearestLoop
<1> HIDE DEF e
<1>12. \A n \in 0 .. N : e[n] = LET parent == IF n = 0 THEN 0 ELSE nodes[n].parent
                                IN CASE n = 0 -> 0
                                     [] parent # 0 /\ nodes[parent].kind \in LoopKinds -> parent
                                     [] OTHER -> IF Around(n).escape THEN 0 ELSE e[ParentScope(n)]
  BY <1>10
<1>13. e[0] = 0
  <2> DEFINE zero == 0
  <2>1. zero = 0
    OBVIOUS
  <2> HIDE DEF zero
  <2>2. zero \in 0 .. N
    BY <1>1, <2>1
  <2>3. e[zero] = 0
    BY ONLY <1>12, <2>1, <2>2
  <2> QED
    BY <2>1, <2>3
<1>14. ASSUME NEW n \in DOMAIN nodes
       PROVE  e[n] = IF nodes[n].parent # 0 /\ nodes[nodes[n].parent].kind \in LoopKinds THEN nodes[n].parent
                     ELSE e[Scope(nodes, n)]
  <2>1. n \in 0 .. N /\ n # 0 /\ ~Around(n).escape /\ ParentScope(n) = Scope(nodes, n)
    BY <1>1, <1>2
  <2> QED
    BY <1>12, <2>1
<1> QED
  BY <1>11, <1>13, <1>14

LoopsIn(ns, n) == {m \in AboveIn(ns, n) : ns[m].kind \in LoopKinds}

(* The walk over the scopes finds the innermost loop, out of functions too.      *)
LEMMA NearestLoopFinds ==
  ASSUME Tree(nodes), Formed(nodes), NEW b \in DOMAIN nodes, nodes[b].kind = "block", AllLinked(nodes, b)
  PROVE  NearestLoop(b) = Innermost(LoopsIn(nodes, b))
<1> DEFINE S == {n \in DOMAIN nodes : /\ nodes[n].kind = "block" /\ AllLinked(nodes, n)
                                      /\ NearestLoop(n) # Innermost(LoopsIn(nodes, n))}
<1>1. DOMAIN nodes = 1 .. Len(nodes) /\ Len(nodes) \in Nat
  BY DEF Tree
<1>2. ASSUME NEW n \in S
      PROVE  \E j \in S : j < n
  <2>1. n \in DOMAIN nodes /\ nodes[n].kind = "block" /\ AllLinked(nodes, n)
        /\ NearestLoop(n) # Innermost(LoopsIn(nodes, n))
    OBVIOUS
  <2> HIDE DEF S
  <2> DEFINE h == HolderIn(nodes, n)
             q == HolderIn(nodes, h)
  <2>2. NearestLoop(n) = IF nodes[n].parent # 0 /\ nodes[nodes[n].parent].kind \in LoopKinds THEN nodes[n].parent
                         ELSE NearestLoop(Scope(nodes, n))
    BY <2>1, NearestLoopIs
  <2>3. n # 1
    <3>1. SUFFICES ASSUME n = 1
                   PROVE  FALSE
      OBVIOUS
    <3>2. nodes[1].parent = 0 /\ AboveIn(nodes, 1) = {}
      BY <2>1, ParentIs, AboveIs
    <3>3. LoopsIn(nodes, n) = {}
      BY <3>1, <3>2 DEF LoopsIn
    <3>4. NearestLoop(n) = 0
      BY <2>2, <3>1, <3>2, NearestLoopIs DEF Scope
    <3> QED
      BY <2>1, <3>3, <3>4, InnermostNone
  <2>4. /\ h \in DOMAIN nodes /\ h < n /\ h # 0 /\ AboveIn(nodes, n) = {h} \cup AboveIn(nodes, h)
        /\ \E i \in DOMAIN nodes[h].body : nodes[h].body[i] = n
    BY <1>1, <2>1, <2>3, HolderHolds, AboveIs
  <2>5. nodes[h].kind \in {"block", "if"} \cup FunctionKinds \cup LoopKinds
    <3>1. Form(nodes, h)
      BY <2>4 DEF Formed
    <3>2. nodes[h].body # <<>>
      <4> HIDE DEF h
      <4> QED
        BY <2>4
    <3> HIDE DEF h
    <3>3. nodes[h].kind \notin {"block", "if"} \cup FunctionKinds \cup LoopKinds => nodes[h].body = <<>>
      <4>1. FormOf(nodes[h])
        BY <3>1 DEF Form, FormOf
      <4> QED
        BY <4>1 DEF FormOf
    <3> QED
      BY <3>2, <3>3
  (* A block with the same loops around it, above n, is nearer to node 1.         *)
  <2>6. ASSUME NEW x \in DOMAIN nodes, x < n, nodes[x].kind = "block",
               AboveIn(nodes, n) \subseteq {h, x} \cup AboveIn(nodes, x),
               {x} \cup AboveIn(nodes, x) \subseteq AboveIn(nodes, n),
               nodes[h].kind \notin LoopKinds, NearestLoop(n) = NearestLoop(x)
        PROVE  \E j \in S : j < n
    <3>1. nodes[x].kind \notin LoopKinds
      BY <2>6 DEF LoopKinds
    <3>2. LoopsIn(nodes, n) = LoopsIn(nodes, x)
      BY <2>6, <3>1 DEF LoopsIn
    <3>3. AllLinked(nodes, x)
      <4>1. \A m : Under(nodes, m, x) => Under(nodes, m, n)
        BY <2>6 DEF Under
      <4> QED
        BY <2>1, <4>1 DEF AllLinked
    <3> QED
      BY <2>1, <2>6, <3>2, <3>3 DEF S
  <2>7. CASE nodes[h].kind = "block"
    <3>1. nodes[h].kind \notin FunctionKinds /\ nodes[h].kind \notin LoopKinds
      BY <2>7 DEF FunctionKinds, LoopKinds
    <3>2. nodes[n].parent = h
      BY <2>1, <2>3, <3>1, ParentIs
    <3>3. NearestLoop(n) = NearestLoop(h)
      BY <2>2, <2>4, <2>7, <3>1, <3>2 DEF Scope
    <3> QED
      BY <2>4, <2>6, <2>7, <3>1, <3>3
  <2>8. CASE nodes[h].kind \in LoopKinds
    <3>1. nodes[h].kind \notin FunctionKinds
      BY <2>8 DEF FunctionKinds, LoopKinds
    <3>2. nodes[n].parent = h
      BY <2>1, <2>3, <3>1, ParentIs
    <3>3. NearestLoop(n) = h
      BY <2>2, <2>4, <2>8, <3>2
    <3> DEFINE A == LoopsIn(nodes, n)
    <3>4. h \in A /\ \A k \in A : k \in Nat /\ k <= h
      <4>1. \A k \in AboveIn(nodes, h) : k \in Nat /\ k < h /\ h \in Nat
        BY <2>4, AboveLess
      <4> QED
        BY <1>1, <2>4, <2>8, <4>1 DEF LoopsIn
    <3>5. Innermost(A) = h
      <4> HIDE DEF A, h
      <4>1. h \in Nat
        BY <3>4
      <4> QED
        BY ONLY <3>4, <4>1, InnermostIs
    <3> QED
      BY <2>1, <3>3, <3>5
  <2>9. CASE nodes[h].kind = "if"
    <3>1. h # 1 /\ nodes[h].kind \notin LoopKinds /\ nodes[h].kind # "block" /\ nodes[h].kind \notin FunctionKinds
      BY <2>9 DEF Formed, LoopKinds, FunctionKinds
    <3>2. /\ q \in DOMAIN nodes /\ q < h /\ AboveIn(nodes, h) = {q} \cup AboveIn(nodes, q)
          /\ \E i \in DOMAIN nodes[q].body : nodes[q].body[i] = h
      <4> HIDE DEF h
      <4> QED
        BY <1>1, <2>4, <3>1, HolderHolds, AboveIs
    <3>3. nodes[q].kind = "block"
      <4>1. Form(nodes, q)
        BY <3>2 DEF Formed
      <4> QED
        BY <3>1, <3>2, <4>1 DEF Form
    <3>4. nodes[n].parent = h
      BY <2>1, <2>3, <3>1, ParentIs
    <3>5. nodes[h].parent = q
      <4>1. nodes[q].kind \notin FunctionKinds
        BY <3>3 DEF FunctionKinds
      <4> HIDE DEF h
      <4> QED
        BY <2>4, <3>1, <4>1, ParentIs
    <3>6. Scope(nodes, n) = q
      BY <2>4, <3>1, <3>4, <3>5 DEF Scope
    <3>7. NearestLoop(n) = NearestLoop(q)
      BY <2>2, <3>1, <3>4, <3>6
    <3>8. q < n
      BY <1>1, <2>1, <2>4, <3>2
    <3> QED
      BY <2>4, <2>6, <3>1, <3>2, <3>3, <3>7, <3>8
  <2>10. CASE nodes[h].kind \in FunctionKinds
    <3>1. /\ q \in DOMAIN nodes /\ nodes[q].kind = "block" /\ h # 1
          /\ AboveIn(nodes, n) = {h, q} \cup AboveIn(nodes, q)
      BY <2>1, <2>3, <2>10, ParentIs
    <3>2. q < h /\ q # 0
      BY <1>1, <2>4, <3>1, HolderHolds
    <3>3. nodes[n].parent = q
      <4>1. Linked(nodes, n)
        BY <2>1 DEF AllLinked, Under
      <4> QED
        BY <2>3, <2>10, <4>1 DEF Linked
    <3>4. nodes[h].kind \notin LoopKinds /\ nodes[q].kind \notin LoopKinds
      BY <2>10, <3>1 DEF FunctionKinds, LoopKinds
    <3>5. Scope(nodes, n) = q
      BY <3>1, <3>2, <3>3 DEF Scope
    <3>6. NearestLoop(n) = NearestLoop(q)
      BY <2>2, <3>3, <3>4, <3>5
    <3>7. q < n
      BY <1>1, <2>1, <2>4, <3>1, <3>2
    <3> QED
      BY <2>6, <3>1, <3>4, <3>6, <3>7
  <2> QED
    BY <2>5, <2>7, <2>8, <2>9, <2>10
<1>3. S = {}
  <2>1. S \in SUBSET Nat
    BY <1>1
  <2> HIDE DEF S
  <2> QED
    BY ONLY <1>2, <2>1, NoLeastNoElement
<1> QED
  BY <1>3
=============================================================================
