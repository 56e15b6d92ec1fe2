-------------------------- MODULE SaturationProofs --------------------------
(***************************************************************************)
(* Every rewrite rule of the solver preserves meaning, whatever the        *)
(* symbols and the assignments: if the two patterns of a rule are read     *)
(* with the same meanings for their variables, they mean the same.         *)
(*                                                                         *)
(* The saturation keeps its e-graph well formed and, where both sides of   *)
(* the goal are sorted and the rules are sound, keeps every class to one   *)
(* meaning. The two invariants are over the variables of a run; a step of  *)
(* the run preserves each.                                                 *)
(***************************************************************************)
EXTENDS Saturation, Numbers

ChildValues(p, v, i) == [k \in DOMAIN p[i].args |-> v[p[i].args[k]]]

\* v gives a sorted meaning to each of the first n nodes of the pattern p.
Reads(p, v, n) ==
  \A i \in 1..n :
    /\ v[i] \in Meaning
    /\ p[i].op \in PatVar => \A j \in 1..n : p[j].op = p[i].op => v[j] = v[i]
    /\ p[i].op \notin PatVar => /\ Sorted(p[i].op, ChildValues(p, v, i))
                                /\ v[i] = Denote(p[i].op, ChildValues(p, v, i))

\* w gives the first n nodes of q that are variables the meaning v gives to
\* those of p.
Agrees(p, v, q, w, n) ==
  \A i \in DOMAIN p, j \in 1..n : p[i].op \in PatVar /\ q[j].op = p[i].op => w[j] = v[i]

Preserves(p, q) ==
  \A v, w : Reads(p, v, Len(p)) /\ Reads(q, w, Len(q)) /\ Agrees(p, v, q, w, Len(q)) =>
              w[Len(q)] = v[Len(p)]
-----------------------------------------------------------------------------
(* What a node means, by its operator.                                     *)

IsTrue(x) == x.sort = "Bool" /\ \A e \in Env : x.at[e] = 1
IsFalse(x) == x.sort = "Bool" /\ \A e \in Env : x.at[e] = 0
IsZero(x) == x.sort = "Nat" /\ \A e \in Env : x.at[e] = 0
IsSucc(x, y) == x.sort = "Nat" /\ y.sort = "Nat" /\ \A e \in Env : x.at[e] = y.at[e] + 1
IsNot(x, y) == x.sort = "Bool" /\ y.sort = "Bool" /\ \A e \in Env : x.at[e] = Truth(y.at[e] # 1)
Over(sort, y, z) == y.sort = sort /\ z.sort = sort
IsSum(x, y, z) ==
  x.sort = "Nat" /\ Over("Nat", y, z) /\ \A e \in Env : x.at[e] = y.at[e] + z.at[e]
IsProduct(x, y, z) ==
  x.sort = "Nat" /\ Over("Nat", y, z) /\ \A e \in Env : x.at[e] = y.at[e] * z.at[e]
IsLe(x, y, z) ==
  x.sort = "Bool" /\ Over("Nat", y, z) /\ \A e \in Env : x.at[e] = Truth(y.at[e] <= z.at[e])
IsAnd(x, y, z) ==
  x.sort = "Bool" /\ Over("Bool", y, z) /\ \A e \in Env : x.at[e] = Truth(y.at[e] = 1 /\ z.at[e] = 1)
IsOr(x, y, z) ==
  x.sort = "Bool" /\ Over("Bool", y, z) /\ \A e \in Env : x.at[e] = Truth(y.at[e] = 1 \/ z.at[e] = 1)
IsImplies(x, y, z) ==
  x.sort = "Bool" /\ Over("Bool", y, z) /\ \A e \in Env : x.at[e] = Truth(y.at[e] = 1 => z.at[e] = 1)

Nullary == {"zero", "true", "false"}
Unary == {"succ", "not"}
Binary == {"+", "*", "le", "and", "or", "implies"}

\* Two meanings are equal when they have one sort and one value everywhere.
LEMMA MeaningEqual ==
  ASSUME NEW x \in Meaning, NEW y \in Meaning, x.sort = y.sort,
         \A e \in Env : x.at[e] = y.at[e]
  PROVE  x = y
<1>1. x.at = y.at
  BY DEF Meaning
<1>2. QED
  BY <1>1 DEF Meaning

\* What a meaning of each sort takes its values in.
LEMMA MeaningTyped ==
  ASSUME NEW x \in Meaning
  PROVE  /\ x.sort = "Nat" => \A e \in Env : x.at[e] \in Nat
         /\ x.sort = "Bool" => \A e \in Env : x.at[e] \in {0, 1}
BY DEF Meaning

\* The three kinds of operators are apart from symbols and pattern variables.
LEMMA OpKinds ==
  /\ Symbol \cap Op = {} /\ Symbol \cap PatVar = {} /\ Op \cap PatVar = {}
  /\ Nullary \subseteq Op /\ Unary \subseteq Op /\ Binary \subseteq Op
BY SymbolAssumption
   DEF Op, NatConnective, Comparison, BoolConnective, PatVar, Nullary, Unary, Binary

\* The sort of every operator of lang.rs, and of its operands.
LEMMA SortTable ==
  /\ SortOf("zero") = "Nat" /\ SortOf("succ") = "Nat" /\ SortOf("+") = "Nat" /\ SortOf("*") = "Nat"
  /\ SortOf("le") = "Bool" /\ SortOf("true") = "Bool" /\ SortOf("false") = "Bool"
  /\ SortOf("not") = "Bool" /\ SortOf("and") = "Bool" /\ SortOf("or") = "Bool"
  /\ SortOf("implies") = "Bool"
  /\ ChildSort("succ") = "Nat" /\ ChildSort("+") = "Nat" /\ ChildSort("*") = "Nat"
  /\ ChildSort("le") = "Nat" /\ ChildSort("not") = "Bool" /\ ChildSort("and") = "Bool"
  /\ ChildSort("or") = "Bool" /\ ChildSort("implies") = "Bool"
BY DEF SortOf, ChildSort, NatConnective, Comparison, BoolConnective

\* What every operator of lang.rs computes.
LEMMA ComputeTable ==
  /\ Compute("zero", <<>>) = 0 /\ Compute("true", <<>>) = 1 /\ Compute("false", <<>>) = 0
  /\ \A x : Compute("succ", <<x>>) = x + 1 /\ Compute("not", <<x>>) = Truth(x # 1)
  /\ \A x, y : /\ Compute("+", <<x, y>>) = x + y
               /\ Compute("*", <<x, y>>) = x * y
               /\ Compute("le", <<x, y>>) = Truth(x <= y)
               /\ Compute("and", <<x, y>>) = Truth(x = 1 /\ y = 1)
               /\ Compute("or", <<x, y>>) = Truth(x = 1 \/ y = 1)
               /\ Compute("implies", <<x, y>>) = Truth(x = 1 => y = 1)
BY DEF Compute

\* The meaning of a constant.
LEMMA DenoteNullary ==
  ASSUME NEW op \in Nullary, NEW a, NEW x, x = Denote(op, a)
  PROVE  /\ x.sort = SortOf(op)
         /\ \A e \in Env : x.at[e] = Compute(op, <<>>)
BY OpKinds DEF Denote, Compute, Nullary

\* The meaning of an operator of one operand.
LEMMA DenoteUnary ==
  ASSUME NEW op \in Unary, NEW f, NEW i, NEW x,
         x = Denote(op, [k \in DOMAIN <<i>> |-> f[<<i>>[k]]])
  PROVE  /\ x.sort = SortOf(op)
         /\ \A e \in Env : x.at[e] = Compute(op, <<f[i].at[e]>>)
BY OpKinds DEF Denote, Compute, Unary

\* The meaning of an operator of two operands.
LEMMA DenoteBinary ==
  ASSUME NEW op \in Binary, NEW f, NEW i, NEW j, NEW x,
         x = Denote(op, [k \in DOMAIN <<i, j>> |-> f[<<i, j>>[k]]])
  PROVE  /\ x.sort = SortOf(op)
         /\ \A e \in Env : x.at[e] = Compute(op, <<f[i].at[e], f[j].at[e]>>)
BY OpKinds DEF Denote, Compute, Binary

\* What a leaf that is a constant means where it is read.
LEMMA ReadsLeaf ==
  ASSUME NEW p, NEW v, NEW m \in Nat, Reads(p, v, m), NEW n \in 1..m
  PROVE  /\ p[n] = Zero => IsZero(v[n])
         /\ p[n] = True => IsTrue(v[n])
         /\ p[n] = False => IsFalse(v[n])
<1>1. ASSUME NEW op \in Nullary, p[n] = Leaf(op)
      PROVE  v[n].sort = SortOf(op) /\ \A e \in Env : v[n].at[e] = Compute(op, <<>>)
  BY <1>1, OpKinds, DenoteNullary DEF Reads, Leaf, Node
<1>2. ASSUME p[n] = Zero PROVE IsZero(v[n])
  BY <1>1, <1>2, SortTable, ComputeTable DEF Nullary, Zero, IsZero
<1>3. ASSUME p[n] = True PROVE IsTrue(v[n])
  BY <1>1, <1>3, SortTable, ComputeTable DEF Nullary, True, IsTrue
<1>4. ASSUME p[n] = False PROVE IsFalse(v[n])
  BY <1>1, <1>4, SortTable, ComputeTable DEF Nullary, False, IsFalse
<1>5. QED
  BY <1>2, <1>3, <1>4

\* A node of one operand, read in a matched pattern, means what its operator
\* says.
LEMMA ReadsUnary ==
  ASSUME NEW p, NEW v, NEW m \in Nat, Reads(p, v, m), NEW i, NEW n \in 1..m
  PROVE  /\ p[n] = Succ(i) => IsSucc(v[n], v[i])
         /\ p[n] = Not(i) => IsNot(v[n], v[i])
<1>1. ASSUME NEW op \in Unary, p[n] = Node(op, <<i>>)
      PROVE  /\ v[i].sort = ChildSort(op) /\ v[n].sort = SortOf(op)
             /\ \A e \in Env : v[n].at[e] = Compute(op, <<v[i].at[e]>>)
  <2>1. /\ Sorted(op, [k \in DOMAIN <<i>> |-> v[<<i>>[k]]])
        /\ v[n] = Denote(op, [k \in DOMAIN <<i>> |-> v[<<i>>[k]]])
    BY <1>1, OpKinds DEF Reads, ChildValues, Node
  <2>2. v[i].sort = ChildSort(op)
    BY <2>1 DEF Sorted
  <2>3. QED
    BY <2>1, <2>2, DenoteUnary
<1>2. ASSUME p[n] = Succ(i) PROVE IsSucc(v[n], v[i])
  BY <1>1, <1>2, SortTable, ComputeTable DEF Unary, Succ, IsSucc
<1>3. ASSUME p[n] = Not(i) PROVE IsNot(v[n], v[i])
  BY <1>1, <1>3, SortTable, ComputeTable DEF Unary, Not, IsNot
<1>4. QED
  BY <1>2, <1>3

\* The same of two operands; the lemmas below instantiate it for each operator.
LEMMA ReadsBinary ==
  ASSUME NEW p, NEW v, NEW m \in Nat, Reads(p, v, m), NEW i, NEW j, NEW n \in 1..m,
         NEW op \in Binary, p[n] = Bin(op, i, j)
  PROVE  /\ Over(ChildSort(op), v[i], v[j]) /\ v[n].sort = SortOf(op)
         /\ \A e \in Env : v[n].at[e] = Compute(op, <<v[i].at[e], v[j].at[e]>>)
<1>1. /\ Sorted(op, [k \in DOMAIN <<i, j>> |-> v[<<i, j>>[k]]])
      /\ v[n] = Denote(op, [k \in DOMAIN <<i, j>> |-> v[<<i, j>>[k]]])
  BY OpKinds DEF Reads, ChildValues, Bin, Node
<1>2. Over(ChildSort(op), v[i], v[j])
  BY <1>1 DEF Sorted, Over
<1>3. QED
  BY <1>1, <1>2, DenoteBinary

\* A sum in a matched pattern.
LEMMA ReadsSum ==
  ASSUME NEW p, NEW v, NEW m \in Nat, Reads(p, v, m), NEW i, NEW j, NEW n \in 1..m,
         p[n] = Bin("+", i, j)
  PROVE  IsSum(v[n], v[i], v[j])
<1>1. /\ Over("Nat", v[i], v[j]) /\ v[n].sort = "Nat"
      /\ \A e \in Env : v[n].at[e] = Compute("+", <<v[i].at[e], v[j].at[e]>>)
  BY ReadsBinary, SortTable DEF Binary
<1>2. QED
  BY <1>1, ComputeTable DEF IsSum

\* A product in a matched pattern.
LEMMA ReadsProduct ==
  ASSUME NEW p, NEW v, NEW m \in Nat, Reads(p, v, m), NEW i, NEW j, NEW n \in 1..m,
         p[n] = Bin("*", i, j)
  PROVE  IsProduct(v[n], v[i], v[j])
<1>1. /\ Over("Nat", v[i], v[j]) /\ v[n].sort = "Nat"
      /\ \A e \in Env : v[n].at[e] = Compute("*", <<v[i].at[e], v[j].at[e]>>)
  BY ReadsBinary, SortTable DEF Binary
<1>2. QED
  BY <1>1, ComputeTable DEF IsProduct

\* A comparison in a matched pattern.
LEMMA ReadsLe ==
  ASSUME NEW p, NEW v, NEW m \in Nat, Reads(p, v, m), NEW i, NEW j, NEW n \in 1..m,
         p[n] = Bin("le", i, j)
  PROVE  IsLe(v[n], v[i], v[j])
<1>1. /\ Over("Nat", v[i], v[j]) /\ v[n].sort = "Bool"
      /\ \A e \in Env : v[n].at[e] = Compute("le", <<v[i].at[e], v[j].at[e]>>)
  BY ReadsBinary, SortTable DEF Binary
<1>2. QED
  BY <1>1, ComputeTable DEF IsLe

\* A conjunction in a matched pattern.
LEMMA ReadsAnd ==
  ASSUME NEW p, NEW v, NEW m \in Nat, Reads(p, v, m), NEW i, NEW j, NEW n \in 1..m,
         p[n] = Bin("and", i, j)
  PROVE  IsAnd(v[n], v[i], v[j])
<1>1. /\ Over("Bool", v[i], v[j]) /\ v[n].sort = "Bool"
      /\ \A e \in Env : v[n].at[e] = Compute("and", <<v[i].at[e], v[j].at[e]>>)
  BY ReadsBinary, SortTable DEF Binary
<1>2. QED
  BY <1>1 DEF Compute, Truth, IsAnd

\* A disjunction in a matched pattern.
LEMMA ReadsOr ==
  ASSUME NEW p, NEW v, NEW m \in Nat, Reads(p, v, m), NEW i, NEW j, NEW n \in 1..m,
         p[n] = Bin("or", i, j)
  PROVE  IsOr(v[n], v[i], v[j])
<1>1. /\ Over("Bool", v[i], v[j]) /\ v[n].sort = "Bool"
      /\ \A e \in Env : v[n].at[e] = Compute("or", <<v[i].at[e], v[j].at[e]>>)
  <2>1. "or" \in Binary
    BY DEF Binary
  <2>2. /\ Over(ChildSort("or"), v[i], v[j]) /\ v[n].sort = SortOf("or")
        /\ \A e \in Env : v[n].at[e] = Compute("or", <<v[i].at[e], v[j].at[e]>>)
    BY <2>1, ReadsBinary
  <2>3. QED
    BY <2>2, SortTable
<1>2. QED
  BY <1>1 DEF Compute, Truth, IsOr

\* An implication in a matched pattern.
LEMMA ReadsImplies ==
  ASSUME NEW p, NEW v, NEW m \in Nat, Reads(p, v, m), NEW i, NEW j, NEW n \in 1..m,
         p[n] = Bin("implies", i, j)
  PROVE  IsImplies(v[n], v[i], v[j])
<1>1. /\ Over("Bool", v[i], v[j]) /\ v[n].sort = "Bool"
      /\ \A e \in Env : v[n].at[e] = Compute("implies", <<v[i].at[e], v[j].at[e]>>)
  <2>1. "implies" \in Binary
    BY DEF Binary
  <2>2. /\ Over(ChildSort("implies"), v[i], v[j]) /\ v[n].sort = SortOf("implies")
        /\ \A e \in Env : v[n].at[e] = Compute("implies", <<v[i].at[e], v[j].at[e]>>)
    BY <2>1, ReadsBinary
  <2>3. QED
    BY <2>2, SortTable
<1>2. QED
  BY <1>1 DEF Compute, Truth, IsImplies

-----------------------------------------------------------------------------
(* The shape of a rule.                                                    *)

NodeType == [op : Op \cup Symbol \cup PatVar, args : Seq(Nat)]
IsNode(n, i) ==
  /\ n \in NodeType
  /\ Len(n.args) = Arity(n.op)
  /\ \A k \in DOMAIN n.args : n.args[k] \in 1..(i - 1)

\* A node of q whose child is a variable wants it of the sort some node of p
\* wants it of; any other child has the sort that is wanted.
Wanted(p, q, j, k) ==
  IF q[q[j].args[k]].op \in PatVar
  THEN \E i \in DOMAIN p : \E l \in DOMAIN p[i].args :
         /\ p[i].op \notin PatVar /\ p[p[i].args[l]].op = q[q[j].args[k]].op
         /\ ChildSort(p[i].op) = ChildSort(q[j].op)
  ELSE SortOf(q[q[j].args[k]].op) = ChildSort(q[j].op)
KeepsSorts(p, q) == \A j \in DOMAIN q : \A k \in DOMAIN q[j].args : Wanted(p, q, j, k)

WellFormed(p, q) ==
  /\ IsExpr(p) /\ IsExpr(q) /\ p # <<>> /\ q # <<>>
  /\ PatVarsOf(q) \subseteq PatVarsOf(p)
  /\ Len(p) = 1 \/ \E i \in DOMAIN p : p[i].op \notin PatVar

SoundRule(p, q) == WellFormed(p, q) /\ KeepsSorts(p, q) /\ Preserves(p, q)

\* The number of operands of every operator.
LEMMA ArityTable ==
  /\ \A x \in PatVar : Arity(x) = 0
  /\ Arity("zero") = 0 /\ Arity("true") = 0 /\ Arity("false") = 0
  /\ Arity("succ") = 1 /\ Arity("not") = 1
  /\ Arity("+") = 2 /\ Arity("*") = 2 /\ Arity("le") = 2
  /\ Arity("and") = 2 /\ Arity("or") = 2 /\ Arity("implies") = 2
BY DEF Arity, PatVar

\* A leaf may stand anywhere in an expression.
LEMMA NodeLeaf ==
  ASSUME NEW i \in Nat, NEW op \in Nullary \cup PatVar
  PROVE  IsNode(Leaf(op), i)
BY ArityTable, OpKinds DEF IsNode, NodeType, Leaf, Node, Nullary

\* A node of one operand may stand above it.
LEMMA NodeUnary ==
  ASSUME NEW i \in Nat, NEW op \in Unary, NEW c \in 1..(i - 1)
  PROVE  IsNode(Node(op, <<c>>), i)
BY ArityTable, OpKinds DEF IsNode, NodeType, Node, Unary

\* A node of two operands may stand above both.
LEMMA NodeBinary ==
  ASSUME NEW i \in Nat, NEW op \in Binary, NEW c \in 1..(i - 1), NEW d \in 1..(i - 1)
  PROVE  IsNode(Bin(op, c, d), i)
BY ArityTable, OpKinds DEF IsNode, NodeType, Bin, Node, Binary

\* Nodes that each stand above their operands form an expression.
LEMMA ExprOfNodes ==
  ASSUME NEW e \in Seq(NodeType), \A i \in 1..Len(e) : IsNode(e[i], i)
  PROVE  IsExpr(e)
BY DEF IsNode, IsExpr, NodeType

\* Expressions of one to five nodes, the lengths the rules of lang.rs have.
LEMMA Expr1 ==
  ASSUME NEW a, IsNode(a, 1)
  PROVE  IsExpr(<<a>>)
BY DEF IsNode, IsExpr, NodeType

\* Two nodes.
LEMMA Expr2 ==
  ASSUME NEW a, NEW b, IsNode(a, 1), IsNode(b, 2)
  PROVE  IsExpr(<<a, b>>)
BY DEF IsNode, IsExpr, NodeType

\* Three nodes.
LEMMA Expr3 ==
  ASSUME NEW a, NEW b, NEW c, IsNode(a, 1), IsNode(b, 2), IsNode(c, 3)
  PROVE  IsExpr(<<a, b, c>>)
BY DEF IsNode, IsExpr, NodeType

\* Four nodes.
LEMMA Expr4 ==
  ASSUME NEW a, NEW b, NEW c, NEW d, IsNode(a, 1), IsNode(b, 2), IsNode(c, 3), IsNode(d, 4)
  PROVE  IsExpr(<<a, b, c, d>>)
<1> DEFINE s == <<a, b, c, d>>
<1>1. a \in NodeType /\ b \in NodeType /\ c \in NodeType /\ d \in NodeType
  BY DEF IsNode
<1>2. s \in Seq(NodeType) /\ Len(s) = 4 /\ s[1] = a /\ s[2] = b /\ s[3] = c /\ s[4] = d
  BY <1>1
<1> HIDE DEF s
<1>3. \A i \in 1..4 : i = 1 \/ i = 2 \/ i = 3 \/ i = 4
  OBVIOUS
<1>4. QED
  BY <1>2, <1>3, ExprOfNodes

\* Five nodes.
LEMMA Expr5 ==
  ASSUME NEW a, NEW b, NEW c, NEW d, NEW e,
         IsNode(a, 1), IsNode(b, 2), IsNode(c, 3), IsNode(d, 4), IsNode(e, 5)
  PROVE  IsExpr(<<a, b, c, d, e>>)
<1> DEFINE s == <<a, b, c, d, e>>
<1>1. a \in NodeType /\ b \in NodeType /\ c \in NodeType /\ d \in NodeType /\ e \in NodeType
  BY DEF IsNode
<1>2. /\ s \in Seq(NodeType) /\ Len(s) = 5
      /\ s[1] = a /\ s[2] = b /\ s[3] = c /\ s[4] = d /\ s[5] = e
  BY <1>1
<1> HIDE DEF s
<1>3. \A i \in 1..5 : i = 1 \/ i = 2 \/ i = 3 \/ i = 4 \/ i = 5
  OBVIOUS
<1>4. QED
  BY <1>2, <1>3, ExprOfNodes
-----------------------------------------------------------------------------
\* Zero plus anything.
LEMMA AddZeroL ==
  SoundRule(<<Zero, A, Bin("+", 1, 2)>>,
            <<A>>)
<1> DEFINE p == <<Zero, A, Bin("+", 1, 2)>>
           q == <<A>>
<1>1. IsExpr(p) /\ IsExpr(q)
  BY Expr1, Expr3, NodeLeaf, NodeBinary DEF A, Zero, Bin, Nullary, Binary, PatVar
<1>2. PatVarsOf(q) \subseteq PatVarsOf(p) /\ p[3].op \notin PatVar
  BY DEF A, Zero, Bin, Leaf, Node, PatVar, PatVarsOf
<1>3. KeepsSorts(p, q)
  BY SortTable DEF KeepsSorts, Wanted, A, Zero, Bin, Leaf, Node, PatVar
<1>4. ASSUME NEW v, NEW w, Reads(p, v, 3), Reads(q, w, 1), Agrees(p, v, q, w, 1)
      PROVE  w[1] = v[3]
  <2>1. \A i \in 1..3 : v[i] \in Meaning
    BY <1>4 DEF Reads
  <2>2. \A j \in 1..1 : w[j] \in Meaning
    BY <1>4 DEF Reads
  <2>3. IsZero(v[1]) /\ IsSum(v[3], v[1], v[2])
    BY <1>4, ReadsLeaf, ReadsSum
  <2>4. w[1] = v[2]
    BY <1>4 DEF Agrees, A, Leaf, Node, PatVar
  <2> HIDE DEF p, q
  <2>5. QED
    BY <2>1, <2>2, <2>3, <2>4, MeaningTyped, MeaningEqual DEF IsSum, IsZero, Over
<1>5. QED
  BY <1>1, <1>2, <1>3, <1>4 DEF SoundRule, WellFormed, Preserves

\* A successor moves out of a sum.
LEMMA AddSuccL ==
  SoundRule(<<A, Succ(1), B, Bin("+", 2, 3)>>,
            <<A, B, Bin("+", 1, 2), Succ(3)>>)
<1> DEFINE p == <<A, Succ(1), B, Bin("+", 2, 3)>>
           q == <<A, B, Bin("+", 1, 2), Succ(3)>>
<1>1. IsExpr(p) /\ IsExpr(q)
  BY Expr4, NodeLeaf, NodeUnary, NodeBinary DEF A, B, Succ, Bin, Nullary, Unary, Binary, PatVar
<1>2. PatVarsOf(q) \subseteq PatVarsOf(p) /\ p[4].op \notin PatVar
  BY DEF A, B, Succ, Bin, Leaf, Node, PatVar, PatVarsOf
<1>3. KeepsSorts(p, q)
  BY SortTable DEF KeepsSorts, Wanted, A, B, Succ, Bin, Leaf, Node, PatVar
<1>4. ASSUME NEW v, NEW w, Reads(p, v, 4), Reads(q, w, 4), Agrees(p, v, q, w, 4)
      PROVE  w[4] = v[4]
  <2>1. \A i \in 1..4 : v[i] \in Meaning
    BY <1>4 DEF Reads
  <2>2. \A j \in 1..4 : w[j] \in Meaning
    BY <1>4 DEF Reads
  <2>3. IsSucc(v[2], v[1]) /\ IsSum(v[4], v[2], v[3])
    BY <1>4, ReadsUnary, ReadsSum
  <2>4. IsSum(w[3], w[1], w[2]) /\ IsSucc(w[4], w[3])
    BY <1>4, ReadsUnary, ReadsSum
  <2>5. w[1] = v[1] /\ w[2] = v[3]
    BY <1>4 DEF Agrees, A, B, Leaf, Node, PatVar
  <2> HIDE DEF p, q
  <2>6. QED
    BY <2>1, <2>2, <2>3, <2>4, <2>5, MeaningTyped, MeaningEqual DEF IsSucc, IsSum, Over
<1>5. QED
  BY <1>1, <1>2, <1>3, <1>4 DEF SoundRule, WellFormed, Preserves

\* Zero times anything.
LEMMA MulZeroL ==
  SoundRule(<<Zero, A, Bin("*", 1, 2)>>,
            <<Zero>>)
<1> DEFINE p == <<Zero, A, Bin("*", 1, 2)>>
           q == <<Zero>>
<1>1. IsExpr(p) /\ IsExpr(q)
  BY Expr1, Expr3, NodeLeaf, NodeBinary DEF A, Zero, Bin, Nullary, Binary, PatVar
<1>2. PatVarsOf(q) \subseteq PatVarsOf(p) /\ p[3].op \notin PatVar
  BY DEF A, Zero, Bin, Leaf, Node, PatVar, PatVarsOf
<1>3. KeepsSorts(p, q)
  BY SortTable DEF KeepsSorts, Wanted, A, Zero, Bin, Leaf, Node, PatVar
<1>4. ASSUME NEW v, NEW w, Reads(p, v, 3), Reads(q, w, 1), Agrees(p, v, q, w, 1)
      PROVE  w[1] = v[3]
  <2>1. \A i \in 1..3 : v[i] \in Meaning
    BY <1>4 DEF Reads
  <2>2. \A j \in 1..1 : w[j] \in Meaning
    BY <1>4 DEF Reads
  <2>3. IsZero(v[1]) /\ IsProduct(v[3], v[1], v[2])
    BY <1>4, ReadsLeaf, ReadsProduct
  <2>4. IsZero(w[1])
    BY <1>4, ReadsLeaf
  <2> HIDE DEF p, q
  <2>5. QED
    BY <2>1, <2>2, <2>3, <2>4, MeaningTyped, MeaningEqual DEF IsProduct, IsZero, Over
<1>5. QED
  BY <1>1, <1>2, <1>3, <1>4 DEF SoundRule, WellFormed, Preserves

\* A successor times a number.
LEMMA MulSuccL ==
  SoundRule(<<A, Succ(1), B, Bin("*", 2, 3)>>,
            <<B, A, B, Bin("*", 2, 3), Bin("+", 1, 4)>>)
<1> DEFINE p == <<A, Succ(1), B, Bin("*", 2, 3)>>
           q == <<B, A, B, Bin("*", 2, 3), Bin("+", 1, 4)>>
<1>1. IsExpr(p) /\ IsExpr(q)
  BY Expr4, Expr5, NodeLeaf, NodeUnary, NodeBinary DEF A, B, Succ, Bin, Nullary, Unary, Binary, PatVar
<1>2. PatVarsOf(q) \subseteq PatVarsOf(p) /\ p[4].op \notin PatVar
  BY DEF A, B, Succ, Bin, Leaf, Node, PatVar, PatVarsOf
<1>3. KeepsSorts(p, q)
  BY SortTable DEF KeepsSorts, Wanted, A, B, Succ, Bin, Leaf, Node, PatVar
<1>4. ASSUME NEW v, NEW w, Reads(p, v, 4), Reads(q, w, 5), Agrees(p, v, q, w, 5)
      PROVE  w[5] = v[4]
  <2>1. \A i \in 1..4 : v[i] \in Meaning
    BY <1>4 DEF Reads
  <2>2. \A j \in 1..5 : w[j] \in Meaning
    BY <1>4 DEF Reads
  <2>3. IsSucc(v[2], v[1]) /\ IsProduct(v[4], v[2], v[3])
    BY <1>4, ReadsUnary, ReadsProduct
  <2>4. IsProduct(w[4], w[2], w[3]) /\ IsSum(w[5], w[1], w[4])
    BY <1>4, ReadsProduct, ReadsSum
  <2>5. w[1] = v[3] /\ w[2] = v[1] /\ w[3] = v[3]
    BY <1>4 DEF Agrees, A, B, Leaf, Node, PatVar
  <2> HIDE DEF p, q
  <2>6. ASSUME NEW e \in Env PROVE w[5].at[e] = v[4].at[e]
    <3>1. v[1].at[e] \in Nat /\ v[3].at[e] \in Nat
      BY <2>1, <2>3, MeaningTyped DEF IsProduct, IsSucc, Over
    <3>2. v[4].at[e] = (v[1].at[e] + 1) * v[3].at[e]
      BY <2>3 DEF IsProduct, IsSucc
    <3>3. \A a, b \in Nat : (a + 1) * b = b + a * b
      OBVIOUS
    <3>4. w[4].at[e] = w[2].at[e] * w[3].at[e] /\ w[5].at[e] = w[1].at[e] + w[4].at[e]
      BY <2>4 DEF IsProduct, IsSum
    <3>5. w[5].at[e] = v[3].at[e] + v[1].at[e] * v[3].at[e]
      BY <2>5, <3>4
    <3>6. QED
      BY <3>1, <3>2, <3>3, <3>5
  <2>7. QED
    BY <2>1, <2>2, <2>3, <2>4, <2>6, MeaningEqual DEF IsProduct, IsSum
<1>5. QED
  BY <1>1, <1>2, <1>3, <1>4 DEF SoundRule, WellFormed, Preserves

\* True is neutral for conjunction.
LEMMA AndTrueL ==
  SoundRule(<<True, A, Bin("and", 1, 2)>>,
            <<A>>)
<1> DEFINE p == <<True, A, Bin("and", 1, 2)>>
           q == <<A>>
<1>1. IsExpr(p) /\ IsExpr(q)
  BY Expr1, Expr3, NodeLeaf, NodeBinary DEF A, True, Bin, Nullary, Binary, PatVar
<1>2. PatVarsOf(q) \subseteq PatVarsOf(p) /\ p[3].op \notin PatVar
  BY DEF A, True, Bin, Leaf, Node, PatVar, PatVarsOf
<1>3. KeepsSorts(p, q)
  BY SortTable DEF KeepsSorts, Wanted, A, True, Bin, Leaf, Node, PatVar
<1>4. ASSUME NEW v, NEW w, Reads(p, v, 3), Reads(q, w, 1), Agrees(p, v, q, w, 1)
      PROVE  w[1] = v[3]
  <2>1. \A i \in 1..3 : v[i] \in Meaning
    BY <1>4 DEF Reads
  <2>2. \A j \in 1..1 : w[j] \in Meaning
    BY <1>4 DEF Reads
  <2>3. IsTrue(v[1]) /\ IsAnd(v[3], v[1], v[2])
    BY <1>4, ReadsLeaf, ReadsAnd
  <2>4. w[1] = v[2]
    BY <1>4 DEF Agrees, A, Leaf, Node, PatVar
  <2> HIDE DEF p, q
  <2>5. QED
    BY <2>1, <2>2, <2>3, <2>4, MeaningTyped, MeaningEqual DEF IsAnd, IsTrue, Over, Truth
<1>5. QED
  BY <1>1, <1>2, <1>3, <1>4 DEF SoundRule, WellFormed, Preserves

\* False absorbs a conjunction.
LEMMA AndFalseL ==
  SoundRule(<<False, A, Bin("and", 1, 2)>>,
            <<False>>)
<1> DEFINE p == <<False, A, Bin("and", 1, 2)>>
           q == <<False>>
<1>1. IsExpr(p) /\ IsExpr(q)
  BY Expr1, Expr3, NodeLeaf, NodeBinary DEF A, False, Bin, Nullary, Binary, PatVar
<1>2. PatVarsOf(q) \subseteq PatVarsOf(p) /\ p[3].op \notin PatVar
  BY DEF A, False, Bin, Leaf, Node, PatVar, PatVarsOf
<1>3. KeepsSorts(p, q)
  BY SortTable DEF KeepsSorts, Wanted, A, False, Bin, Leaf, Node, PatVar
<1>4. ASSUME NEW v, NEW w, Reads(p, v, 3), Reads(q, w, 1), Agrees(p, v, q, w, 1)
      PROVE  w[1] = v[3]
  <2>1. \A i \in 1..3 : v[i] \in Meaning
    BY <1>4 DEF Reads
  <2>2. \A j \in 1..1 : w[j] \in Meaning
    BY <1>4 DEF Reads
  <2>3. IsFalse(v[1]) /\ IsAnd(v[3], v[1], v[2])
    BY <1>4, ReadsLeaf, ReadsAnd
  <2>4. IsFalse(w[1])
    BY <1>4, ReadsLeaf
  <2> HIDE DEF p, q
  <2>5. QED
    BY <2>1, <2>2, <2>3, <2>4, MeaningTyped, MeaningEqual DEF IsAnd, IsFalse, Over, Truth
<1>5. QED
  BY <1>1, <1>2, <1>3, <1>4 DEF SoundRule, WellFormed, Preserves

\* True absorbs a disjunction.
LEMMA OrTrueL ==
  SoundRule(<<True, A, Bin("or", 1, 2)>>,
            <<True>>)
<1> DEFINE p == <<True, A, Bin("or", 1, 2)>>
           q == <<True>>
<1>1. IsExpr(p) /\ IsExpr(q)
  BY Expr1, Expr3, NodeLeaf, NodeBinary DEF A, True, Bin, Nullary, Binary, PatVar
<1>2. PatVarsOf(q) \subseteq PatVarsOf(p) /\ p[3].op \notin PatVar
  BY DEF A, True, Bin, Leaf, Node, PatVar, PatVarsOf
<1>3. KeepsSorts(p, q)
  BY SortTable DEF KeepsSorts, Wanted, A, True, Bin, Leaf, Node, PatVar
<1>4. ASSUME NEW v, NEW w, Reads(p, v, 3), Reads(q, w, 1), Agrees(p, v, q, w, 1)
      PROVE  w[1] = v[3]
  <2>1. \A i \in 1..3 : v[i] \in Meaning
    BY <1>4 DEF Reads
  <2>2. \A j \in 1..1 : w[j] \in Meaning
    BY <1>4 DEF Reads
  <2>3. IsTrue(v[1]) /\ IsOr(v[3], v[1], v[2])
    BY <1>4, ReadsLeaf, ReadsOr
  <2>4. IsTrue(w[1])
    BY <1>4, ReadsLeaf
  <2> HIDE DEF p, q
  <2>5. QED
    BY <2>1, <2>2, <2>3, <2>4, MeaningTyped, MeaningEqual DEF IsOr, IsTrue, Over, Truth
<1>5. QED
  BY <1>1, <1>2, <1>3, <1>4 DEF SoundRule, WellFormed, Preserves

\* False is neutral for disjunction.
LEMMA OrFalseL ==
  SoundRule(<<False, A, Bin("or", 1, 2)>>,
            <<A>>)
<1> DEFINE p == <<False, A, Bin("or", 1, 2)>>
           q == <<A>>
<1>1. IsExpr(p) /\ IsExpr(q)
  BY Expr1, Expr3, NodeLeaf, NodeBinary DEF A, False, Bin, Nullary, Binary, PatVar
<1>2. PatVarsOf(q) \subseteq PatVarsOf(p) /\ p[3].op \notin PatVar
  BY DEF A, False, Bin, Leaf, Node, PatVar, PatVarsOf
<1>3. KeepsSorts(p, q)
  BY SortTable DEF KeepsSorts, Wanted, A, False, Bin, Leaf, Node, PatVar
<1>4. ASSUME NEW v, NEW w, Reads(p, v, 3), Reads(q, w, 1), Agrees(p, v, q, w, 1)
      PROVE  w[1] = v[3]
  <2>1. \A i \in 1..3 : v[i] \in Meaning
    BY <1>4 DEF Reads
  <2>2. \A j \in 1..1 : w[j] \in Meaning
    BY <1>4 DEF Reads
  <2>3. IsFalse(v[1]) /\ IsOr(v[3], v[1], v[2])
    BY <1>4, ReadsLeaf, ReadsOr
  <2>4. w[1] = v[2]
    BY <1>4 DEF Agrees, A, Leaf, Node, PatVar
  <2> HIDE DEF p, q
  <2>5. QED
    BY <2>1, <2>2, <2>3, <2>4, MeaningTyped, MeaningEqual DEF IsFalse, IsOr, Over, Truth
<1>5. QED
  BY <1>1, <1>2, <1>3, <1>4 DEF SoundRule, WellFormed, Preserves

\* The negation of true.
LEMMA NotTrue ==
  SoundRule(<<True, Not(1)>>,
            <<False>>)
<1> DEFINE p == <<True, Not(1)>>
           q == <<False>>
<1>1. IsExpr(p) /\ IsExpr(q)
  BY Expr1, Expr2, NodeLeaf, NodeUnary DEF True, False, Not, Nullary, Unary, PatVar
<1>2. PatVarsOf(q) \subseteq PatVarsOf(p) /\ p[2].op \notin PatVar
  BY DEF True, False, Not, Leaf, Node, PatVar, PatVarsOf
<1>3. KeepsSorts(p, q)
  BY SortTable DEF KeepsSorts, Wanted, True, False, Not, Leaf, Node, PatVar
<1>4. ASSUME NEW v, NEW w, Reads(p, v, 2), Reads(q, w, 1), Agrees(p, v, q, w, 1)
      PROVE  w[1] = v[2]
  <2>1. \A i \in 1..2 : v[i] \in Meaning
    BY <1>4 DEF Reads
  <2>2. \A j \in 1..1 : w[j] \in Meaning
    BY <1>4 DEF Reads
  <2>3. IsTrue(v[1]) /\ IsNot(v[2], v[1])
    BY <1>4, ReadsLeaf, ReadsUnary
  <2>4. IsFalse(w[1])
    BY <1>4, ReadsLeaf
  <2> HIDE DEF p, q
  <2>5. QED
    BY <2>1, <2>2, <2>3, <2>4, MeaningTyped, MeaningEqual DEF IsFalse, IsNot, IsTrue, Truth
<1>5. QED
  BY <1>1, <1>2, <1>3, <1>4 DEF SoundRule, WellFormed, Preserves

\* The negation of false.
LEMMA NotFalse ==
  SoundRule(<<False, Not(1)>>,
            <<True>>)
<1> DEFINE p == <<False, Not(1)>>
           q == <<True>>
<1>1. IsExpr(p) /\ IsExpr(q)
  BY Expr1, Expr2, NodeLeaf, NodeUnary DEF True, False, Not, Nullary, Unary, PatVar
<1>2. PatVarsOf(q) \subseteq PatVarsOf(p) /\ p[2].op \notin PatVar
  BY DEF True, False, Not, Leaf, Node, PatVar, PatVarsOf
<1>3. KeepsSorts(p, q)
  BY SortTable DEF KeepsSorts, Wanted, True, False, Not, Leaf, Node, PatVar
<1>4. ASSUME NEW v, NEW w, Reads(p, v, 2), Reads(q, w, 1), Agrees(p, v, q, w, 1)
      PROVE  w[1] = v[2]
  <2>1. \A i \in 1..2 : v[i] \in Meaning
    BY <1>4 DEF Reads
  <2>2. \A j \in 1..1 : w[j] \in Meaning
    BY <1>4 DEF Reads
  <2>3. IsFalse(v[1]) /\ IsNot(v[2], v[1])
    BY <1>4, ReadsLeaf, ReadsUnary
  <2>4. IsTrue(w[1])
    BY <1>4, ReadsLeaf
  <2> HIDE DEF p, q
  <2>5. QED
    BY <2>1, <2>2, <2>3, <2>4, MeaningTyped, MeaningEqual DEF IsFalse, IsNot, IsTrue, Truth
<1>5. QED
  BY <1>1, <1>2, <1>3, <1>4 DEF SoundRule, WellFormed, Preserves

\* A double negation: the variable is a truth value, or nothing is sorted.
LEMMA NotNot ==
  SoundRule(<<A, Not(1), Not(2)>>,
            <<A>>)
<1> DEFINE p == <<A, Not(1), Not(2)>>
           q == <<A>>
<1>1. IsExpr(p) /\ IsExpr(q)
  BY Expr1, Expr3, NodeLeaf, NodeUnary DEF A, Not, Nullary, Unary, PatVar
<1>2. PatVarsOf(q) \subseteq PatVarsOf(p) /\ p[3].op \notin PatVar
  BY DEF A, Not, Leaf, Node, PatVar, PatVarsOf
<1>3. KeepsSorts(p, q)
  BY SortTable DEF KeepsSorts, Wanted, A, Not, Leaf, Node, PatVar
<1>4. ASSUME NEW v, NEW w, Reads(p, v, 3), Reads(q, w, 1), Agrees(p, v, q, w, 1)
      PROVE  w[1] = v[3]
  <2>1. \A i \in 1..3 : v[i] \in Meaning
    BY <1>4 DEF Reads
  <2>2. \A j \in 1..1 : w[j] \in Meaning
    BY <1>4 DEF Reads
  <2>3. IsNot(v[2], v[1]) /\ IsNot(v[3], v[2])
    BY <1>4, ReadsUnary
  <2>4. w[1] = v[1]
    BY <1>4 DEF Agrees, A, Leaf, Node, PatVar
  <2> HIDE DEF p, q
  <2>5. QED
    BY <2>1, <2>2, <2>3, <2>4, MeaningTyped, MeaningEqual DEF IsNot, Truth
<1>5. QED
  BY <1>1, <1>2, <1>3, <1>4 DEF SoundRule, WellFormed, Preserves

\* Implication by negation and disjunction.
LEMMA ImpliesElim ==
  SoundRule(<<A, B, Bin("implies", 1, 2)>>,
            <<A, Not(1), B, Bin("or", 2, 3)>>)
<1> DEFINE p == <<A, B, Bin("implies", 1, 2)>>
           q == <<A, Not(1), B, Bin("or", 2, 3)>>
<1>1. IsExpr(p) /\ IsExpr(q)
  BY Expr3, Expr4, NodeLeaf, NodeUnary, NodeBinary DEF A, B, Not, Bin, Nullary, Unary, Binary, PatVar
<1>2. PatVarsOf(q) \subseteq PatVarsOf(p) /\ p[3].op \notin PatVar
  BY DEF A, B, Not, Bin, Leaf, Node, PatVar, PatVarsOf
<1>3. KeepsSorts(p, q)
  BY SortTable DEF KeepsSorts, Wanted, A, B, Not, Bin, Leaf, Node, PatVar
<1>4. ASSUME NEW v, NEW w, Reads(p, v, 3), Reads(q, w, 4), Agrees(p, v, q, w, 4)
      PROVE  w[4] = v[3]
  <2>1. \A i \in 1..3 : v[i] \in Meaning
    BY <1>4 DEF Reads
  <2>2. \A j \in 1..4 : w[j] \in Meaning
    BY <1>4 DEF Reads
  <2>3. IsImplies(v[3], v[1], v[2])
    BY <1>4, ReadsImplies
  <2>4. IsNot(w[2], w[1]) /\ IsOr(w[4], w[2], w[3])
    BY <1>4, ReadsUnary, ReadsOr
  <2>5. w[1] = v[1] /\ w[3] = v[2]
    BY <1>4 DEF Agrees, A, B, Leaf, Node, PatVar
  <2> HIDE DEF p, q
  <2>6. QED
    BY <2>1, <2>2, <2>3, <2>4, <2>5, MeaningTyped, MeaningEqual DEF IsImplies, IsNot, IsOr, Over, Truth
<1>5. QED
  BY <1>1, <1>2, <1>3, <1>4 DEF SoundRule, WellFormed, Preserves

\* Zero is the least number.
LEMMA LeZeroL ==
  SoundRule(<<Zero, A, Bin("le", 1, 2)>>,
            <<True>>)
<1> DEFINE p == <<Zero, A, Bin("le", 1, 2)>>
           q == <<True>>
<1>1. IsExpr(p) /\ IsExpr(q)
  BY Expr1, Expr3, NodeLeaf, NodeBinary DEF A, Zero, True, Bin, Nullary, Binary, PatVar
<1>2. PatVarsOf(q) \subseteq PatVarsOf(p) /\ p[3].op \notin PatVar
  BY DEF A, Zero, True, Bin, Leaf, Node, PatVar, PatVarsOf
<1>3. KeepsSorts(p, q)
  BY SortTable DEF KeepsSorts, Wanted, A, Zero, True, Bin, Leaf, Node, PatVar
<1>4. ASSUME NEW v, NEW w, Reads(p, v, 3), Reads(q, w, 1), Agrees(p, v, q, w, 1)
      PROVE  w[1] = v[3]
  <2>1. \A i \in 1..3 : v[i] \in Meaning
    BY <1>4 DEF Reads
  <2>2. \A j \in 1..1 : w[j] \in Meaning
    BY <1>4 DEF Reads
  <2>3. IsZero(v[1]) /\ IsLe(v[3], v[1], v[2])
    BY <1>4, ReadsLeaf, ReadsLe
  <2>4. IsTrue(w[1])
    BY <1>4, ReadsLeaf
  <2> HIDE DEF p, q
  <2>5. QED
    BY <2>1, <2>2, <2>3, <2>4, MeaningTyped, MeaningEqual DEF IsLe, IsTrue, IsZero, Over, Truth
<1>5. QED
  BY <1>1, <1>2, <1>3, <1>4 DEF SoundRule, WellFormed, Preserves

\* No successor is at most zero.
LEMMA LeSuccZero ==
  SoundRule(<<A, Succ(1), Zero, Bin("le", 2, 3)>>,
            <<False>>)
<1> DEFINE p == <<A, Succ(1), Zero, Bin("le", 2, 3)>>
           q == <<False>>
<1>1. IsExpr(p) /\ IsExpr(q)
  BY Expr1, Expr4, NodeLeaf, NodeUnary, NodeBinary DEF A, Zero, False, Succ, Bin, Nullary, Unary, Binary, PatVar
<1>2. PatVarsOf(q) \subseteq PatVarsOf(p) /\ p[4].op \notin PatVar
  BY DEF A, Zero, False, Succ, Bin, Leaf, Node, PatVar, PatVarsOf
<1>3. KeepsSorts(p, q)
  BY SortTable DEF KeepsSorts, Wanted, A, Zero, False, Succ, Bin, Leaf, Node, PatVar
<1>4. ASSUME NEW v, NEW w, Reads(p, v, 4), Reads(q, w, 1), Agrees(p, v, q, w, 1)
      PROVE  w[1] = v[4]
  <2>1. \A i \in 1..4 : v[i] \in Meaning
    BY <1>4 DEF Reads
  <2>2. \A j \in 1..1 : w[j] \in Meaning
    BY <1>4 DEF Reads
  <2>3. IsSucc(v[2], v[1]) /\ IsZero(v[3]) /\ IsLe(v[4], v[2], v[3])
    BY <1>4, ReadsLeaf, ReadsUnary, ReadsLe
  <2>4. IsFalse(w[1])
    BY <1>4, ReadsLeaf
  <2> HIDE DEF p, q
  <2>5. QED
    BY <2>1, <2>2, <2>3, <2>4, MeaningTyped, MeaningEqual DEF IsFalse, IsLe, IsSucc, IsZero, Over, Truth
<1>5. QED
  BY <1>1, <1>2, <1>3, <1>4 DEF SoundRule, WellFormed, Preserves

\* Comparison of two successors.
LEMMA LeSuccSucc ==
  SoundRule(<<A, Succ(1), B, Succ(3), Bin("le", 2, 4)>>,
            <<A, B, Bin("le", 1, 2)>>)
<1> DEFINE p == <<A, Succ(1), B, Succ(3), Bin("le", 2, 4)>>
           q == <<A, B, Bin("le", 1, 2)>>
<1>1. IsExpr(p) /\ IsExpr(q)
  BY Expr3, Expr5, NodeLeaf, NodeUnary, NodeBinary DEF A, B, Succ, Bin, Nullary, Unary, Binary, PatVar
<1>2. PatVarsOf(q) \subseteq PatVarsOf(p) /\ p[5].op \notin PatVar
  BY DEF A, B, Succ, Bin, Leaf, Node, PatVar, PatVarsOf
<1>3. KeepsSorts(p, q)
  <2>1. Wanted(p, q, 3, 1)
    BY SortTable DEF Wanted, A, B, Succ, Bin, Leaf, Node, PatVar
  <2>2. Wanted(p, q, 3, 2)
    BY SortTable DEF Wanted, A, B, Succ, Bin, Leaf, Node, PatVar
  <2>3. /\ DOMAIN q = 1..3 /\ DOMAIN q[1].args = {} /\ DOMAIN q[2].args = {}
        /\ DOMAIN q[3].args = {1, 2}
    BY DEF A, B, Bin, Leaf, Node
  <2> HIDE DEF p, q
  <2>4. QED
    BY <2>1, <2>2, <2>3 DEF KeepsSorts
<1>4. ASSUME NEW v, NEW w, Reads(p, v, 5), Reads(q, w, 3), Agrees(p, v, q, w, 3)
      PROVE  w[3] = v[5]
  <2>1. \A i \in 1..5 : v[i] \in Meaning
    BY <1>4 DEF Reads
  <2>2. \A j \in 1..3 : w[j] \in Meaning
    BY <1>4 DEF Reads
  <2>3. IsSucc(v[2], v[1]) /\ IsSucc(v[4], v[3]) /\ IsLe(v[5], v[2], v[4])
    BY <1>4, ReadsUnary, ReadsLe
  <2>4. IsLe(w[3], w[1], w[2])
    BY <1>4, ReadsLe
  <2>5. w[1] = v[1] /\ w[2] = v[3]
    BY <1>4 DEF Agrees, A, B, Leaf, Node, PatVar
  <2> HIDE DEF p, q
  <2>6. QED
    BY <2>1, <2>2, <2>3, <2>4, <2>5, MeaningTyped, MeaningEqual DEF IsLe, IsSucc, Over, Truth
<1>5. QED
  BY <1>1, <1>2, <1>3, <1>4 DEF SoundRule, WellFormed, Preserves

\* The negation of a conjunction.
LEMMA DeMorganAnd ==
  SoundRule(<<A, B, Bin("and", 1, 2), Not(3)>>,
            <<A, Not(1), B, Not(3), Bin("or", 2, 4)>>)
<1> DEFINE p == <<A, B, Bin("and", 1, 2), Not(3)>>
           q == <<A, Not(1), B, Not(3), Bin("or", 2, 4)>>
<1>1. IsExpr(p) /\ IsExpr(q)
  BY Expr4, Expr5, NodeLeaf, NodeUnary, NodeBinary DEF A, B, Not, Bin, Nullary, Unary, Binary, PatVar
<1>2. PatVarsOf(q) \subseteq PatVarsOf(p) /\ p[4].op \notin PatVar
  BY DEF A, B, Not, Bin, Leaf, Node, PatVar, PatVarsOf
<1>3. KeepsSorts(p, q)
  BY SortTable DEF KeepsSorts, Wanted, A, B, Not, Bin, Leaf, Node, PatVar
<1>4. ASSUME NEW v, NEW w, Reads(p, v, 4), Reads(q, w, 5), Agrees(p, v, q, w, 5)
      PROVE  w[5] = v[4]
  <2>1. \A i \in 1..4 : v[i] \in Meaning
    BY <1>4 DEF Reads
  <2>2. \A j \in 1..5 : w[j] \in Meaning
    BY <1>4 DEF Reads
  <2>3. IsAnd(v[3], v[1], v[2]) /\ IsNot(v[4], v[3])
    BY <1>4, ReadsUnary, ReadsAnd
  <2>4. IsNot(w[2], w[1]) /\ IsNot(w[4], w[3]) /\ IsOr(w[5], w[2], w[4])
    BY <1>4, ReadsUnary, ReadsOr
  <2>5. w[1] = v[1] /\ w[3] = v[2]
    BY <1>4 DEF Agrees, A, B, Leaf, Node, PatVar
  <2> HIDE DEF p, q
  <2>6. QED
    BY <2>1, <2>2, <2>3, <2>4, <2>5, MeaningTyped, MeaningEqual DEF IsAnd, IsNot, IsOr, Over, Truth
<1>5. QED
  BY <1>1, <1>2, <1>3, <1>4 DEF SoundRule, WellFormed, Preserves

\* The negation of a disjunction.
LEMMA DeMorganOr ==
  SoundRule(<<A, B, Bin("or", 1, 2), Not(3)>>,
            <<A, Not(1), B, Not(3), Bin("and", 2, 4)>>)
<1> DEFINE p == <<A, B, Bin("or", 1, 2), Not(3)>>
           q == <<A, Not(1), B, Not(3), Bin("and", 2, 4)>>
<1>1. IsExpr(p) /\ IsExpr(q)
  BY Expr4, Expr5, NodeLeaf, NodeUnary, NodeBinary DEF A, B, Not, Bin, Nullary, Unary, Binary, PatVar
<1>2. PatVarsOf(q) \subseteq PatVarsOf(p) /\ p[4].op \notin PatVar
  BY DEF A, B, Not, Bin, Leaf, Node, PatVar, PatVarsOf
<1>3. KeepsSorts(p, q)
  BY SortTable DEF KeepsSorts, Wanted, A, B, Not, Bin, Leaf, Node, PatVar
<1>4. ASSUME NEW v, NEW w, Reads(p, v, 4), Reads(q, w, 5), Agrees(p, v, q, w, 5)
      PROVE  w[5] = v[4]
  <2>1. \A i \in 1..4 : v[i] \in Meaning
    BY <1>4 DEF Reads
  <2>2. \A j \in 1..5 : w[j] \in Meaning
    BY <1>4 DEF Reads
  <2>3. IsOr(v[3], v[1], v[2]) /\ IsNot(v[4], v[3])
    BY <1>4, ReadsUnary, ReadsOr
  <2>4. IsNot(w[2], w[1]) /\ IsNot(w[4], w[3]) /\ IsAnd(w[5], w[2], w[4])
    <3>1. q[5] = Bin("and", 2, 4) /\ q[2] = Not(1) /\ q[4] = Not(3)
      OBVIOUS
    <3> HIDE DEF p, q
    <3>2. IsAnd(w[5], w[2], w[4])
      BY <1>4, <3>1, ReadsAnd
    <3>3. IsNot(w[2], w[1]) /\ IsNot(w[4], w[3])
      BY <1>4, <3>1, ReadsUnary
    <3>4. QED
      BY <3>2, <3>3
  <2>5. w[1] = v[1] /\ w[3] = v[2]
    BY <1>4 DEF Agrees, A, B, Leaf, Node, PatVar
  <2> HIDE DEF p, q
  <2>6. QED
    BY <2>1, <2>2, <2>3, <2>4, <2>5, MeaningTyped, MeaningEqual DEF IsAnd, IsNot, IsOr, Over, Truth
<1>5. QED
  BY <1>1, <1>2, <1>3, <1>4 DEF SoundRule, WellFormed, Preserves

\* Excluded middle, either way round.
LEMMA ExcludedMiddleL ==
  SoundRule(<<A, Not(1), A, Bin("or", 2, 3)>>,
            <<True>>)
<1> DEFINE p == <<A, Not(1), A, Bin("or", 2, 3)>>
           q == <<True>>
<1>1. IsExpr(p) /\ IsExpr(q)
  BY Expr1, Expr4, NodeLeaf, NodeUnary, NodeBinary DEF A, True, Not, Bin, Nullary, Unary, Binary, PatVar
<1>2. PatVarsOf(q) \subseteq PatVarsOf(p) /\ p[4].op \notin PatVar
  BY DEF A, True, Not, Bin, Leaf, Node, PatVar, PatVarsOf
<1>3. KeepsSorts(p, q)
  BY SortTable DEF KeepsSorts, Wanted, A, True, Not, Bin, Leaf, Node, PatVar
<1>4. ASSUME NEW v, NEW w, Reads(p, v, 4), Reads(q, w, 1), Agrees(p, v, q, w, 1)
      PROVE  w[1] = v[4]
  <2>1. \A i \in 1..4 : v[i] \in Meaning
    BY <1>4 DEF Reads
  <2>2. \A j \in 1..1 : w[j] \in Meaning
    BY <1>4 DEF Reads
  <2>3. IsNot(v[2], v[1]) /\ IsOr(v[4], v[2], v[3])
    BY <1>4, ReadsUnary, ReadsOr
  <2>4. IsTrue(w[1])
    BY <1>4, ReadsLeaf
  <2>5. v[3] = v[1]
    BY <1>4 DEF Reads, Agrees, A, Leaf, Node, PatVar
  <2> HIDE DEF p, q
  <2>6. QED
    BY <2>1, <2>2, <2>3, <2>4, <2>5, MeaningTyped, MeaningEqual DEF IsNot, IsOr, IsTrue, Over, Truth
<1>5. QED
  BY <1>1, <1>2, <1>3, <1>4 DEF SoundRule, WellFormed, Preserves

\* Excluded middle, the other way round.
LEMMA ExcludedMiddleR ==
  SoundRule(<<A, A, Not(2), Bin("or", 1, 3)>>,
            <<True>>)
<1> DEFINE p == <<A, A, Not(2), Bin("or", 1, 3)>>
           q == <<True>>
<1>1. IsExpr(p) /\ IsExpr(q)
  BY Expr1, Expr4, NodeLeaf, NodeUnary, NodeBinary DEF A, True, Not, Bin, Nullary, Unary, Binary, PatVar
<1>2. PatVarsOf(q) \subseteq PatVarsOf(p) /\ p[4].op \notin PatVar
  BY DEF A, True, Not, Bin, Leaf, Node, PatVar, PatVarsOf
<1>3. KeepsSorts(p, q)
  BY SortTable DEF KeepsSorts, Wanted, A, True, Not, Bin, Leaf, Node, PatVar
<1>4. ASSUME NEW v, NEW w, Reads(p, v, 4), Reads(q, w, 1), Agrees(p, v, q, w, 1)
      PROVE  w[1] = v[4]
  <2>1. \A i \in 1..4 : v[i] \in Meaning
    BY <1>4 DEF Reads
  <2>2. \A j \in 1..1 : w[j] \in Meaning
    BY <1>4 DEF Reads
  <2>3. IsNot(v[3], v[2]) /\ IsOr(v[4], v[1], v[3])
    BY <1>4, ReadsUnary, ReadsOr
  <2>4. IsTrue(w[1])
    BY <1>4, ReadsLeaf
  <2>5. v[2] = v[1]
    BY <1>4 DEF Reads, Agrees, A, Leaf, Node, PatVar
  <2> HIDE DEF p, q
  <2>6. QED
    BY <2>1, <2>2, <2>3, <2>4, <2>5, MeaningTyped, MeaningEqual DEF IsNot, IsOr, IsTrue, Over, Truth
<1>5. QED
  BY <1>1, <1>2, <1>3, <1>4 DEF SoundRule, WellFormed, Preserves

\* Comparison of a number with itself.
LEMMA LeRefl ==
  SoundRule(<<A, A, Bin("le", 1, 2)>>,
            <<True>>)
<1> DEFINE p == <<A, A, Bin("le", 1, 2)>>
           q == <<True>>
<1>1. IsExpr(p) /\ IsExpr(q)
  BY Expr1, Expr3, NodeLeaf, NodeBinary DEF A, True, Bin, Nullary, Binary, PatVar
<1>2. PatVarsOf(q) \subseteq PatVarsOf(p) /\ p[3].op \notin PatVar
  BY DEF A, True, Bin, Leaf, Node, PatVar, PatVarsOf
<1>3. KeepsSorts(p, q)
  BY SortTable DEF KeepsSorts, Wanted, A, True, Bin, Leaf, Node, PatVar
<1>4. ASSUME NEW v, NEW w, Reads(p, v, 3), Reads(q, w, 1), Agrees(p, v, q, w, 1)
      PROVE  w[1] = v[3]
  <2>1. \A i \in 1..3 : v[i] \in Meaning
    BY <1>4 DEF Reads
  <2>2. \A j \in 1..1 : w[j] \in Meaning
    BY <1>4 DEF Reads
  <2>3. IsLe(v[3], v[1], v[2])
    BY <1>4, ReadsLe
  <2>4. IsTrue(w[1])
    BY <1>4, ReadsLeaf
  <2>5. v[2] = v[1]
    BY <1>4 DEF Reads, Agrees, A, Leaf, Node, PatVar
  <2> HIDE DEF p, q
  <2>6. QED
    BY <2>1, <2>2, <2>3, <2>4, <2>5, MeaningTyped, MeaningEqual DEF IsLe, IsTrue, Over, Truth
<1>5. QED
  BY <1>1, <1>2, <1>3, <1>4 DEF SoundRule, WellFormed, Preserves

\* The operands of `+` change places.
LEMMA AddComm ==
  SoundRule(<<A, B, Bin("+", 1, 2)>>,
            <<B, A, Bin("+", 1, 2)>>)
<1> DEFINE p == <<A, B, Bin("+", 1, 2)>>
           q == <<B, A, Bin("+", 1, 2)>>
<1>1. IsExpr(p) /\ IsExpr(q)
  BY Expr3, NodeLeaf, NodeBinary DEF A, B, Bin, Nullary, Binary, PatVar
<1>2. PatVarsOf(q) \subseteq PatVarsOf(p) /\ p[3].op \notin PatVar
  BY DEF A, B, Bin, Leaf, Node, PatVar, PatVarsOf
<1>3. KeepsSorts(p, q)
  BY SortTable DEF KeepsSorts, Wanted, A, B, Bin, Leaf, Node, PatVar
<1>4. ASSUME NEW v, NEW w, Reads(p, v, 3), Reads(q, w, 3), Agrees(p, v, q, w, 3)
      PROVE  w[3] = v[3]
  <2>1. \A i \in 1..3 : v[i] \in Meaning
    BY <1>4 DEF Reads
  <2>2. \A j \in 1..3 : w[j] \in Meaning
    BY <1>4 DEF Reads
  <2>3. IsSum(v[3], v[1], v[2])
    BY <1>4, ReadsSum
  <2>4. IsSum(w[3], w[1], w[2])
    BY <1>4, ReadsSum
  <2>5. w[1] = v[2] /\ w[2] = v[1]
    BY <1>4 DEF Agrees, A, B, Leaf, Node, PatVar
  <2> HIDE DEF p, q
  <2>6. QED
    BY <2>1, <2>2, <2>3, <2>4, <2>5, MeaningTyped, MeaningEqual DEF IsSum, Over
<1>5. QED
  BY <1>1, <1>2, <1>3, <1>4 DEF SoundRule, WellFormed, Preserves

\* The parentheses of `+` move to the right.
LEMMA AddAssocLR ==
  SoundRule(<<A, B, Bin("+", 1, 2), C, Bin("+", 3, 4)>>,
            <<A, B, C, Bin("+", 2, 3), Bin("+", 1, 4)>>)
<1> DEFINE p == <<A, B, Bin("+", 1, 2), C, Bin("+", 3, 4)>>
           q == <<A, B, C, Bin("+", 2, 3), Bin("+", 1, 4)>>
<1>1. IsExpr(p) /\ IsExpr(q)
  BY Expr5, NodeLeaf, NodeBinary DEF A, B, C, Bin, Nullary, Binary, PatVar
<1>2. PatVarsOf(q) \subseteq PatVarsOf(p) /\ p[5].op \notin PatVar
  BY DEF A, B, C, Bin, Leaf, Node, PatVar, PatVarsOf
<1>3. KeepsSorts(p, q)
  BY SortTable DEF KeepsSorts, Wanted, A, B, C, Bin, Leaf, Node, PatVar
<1>4. ASSUME NEW v, NEW w, Reads(p, v, 5), Reads(q, w, 5), Agrees(p, v, q, w, 5)
      PROVE  w[5] = v[5]
  <2>1. \A i \in 1..5 : v[i] \in Meaning
    BY <1>4 DEF Reads
  <2>2. \A j \in 1..5 : w[j] \in Meaning
    BY <1>4 DEF Reads
  <2>3. IsSum(v[3], v[1], v[2]) /\ IsSum(v[5], v[3], v[4])
    BY <1>4, ReadsSum
  <2>4. IsSum(w[4], w[2], w[3]) /\ IsSum(w[5], w[1], w[4])
    BY <1>4, ReadsSum
  <2>5. w[1] = v[1] /\ w[2] = v[2] /\ w[3] = v[4]
    BY <1>4 DEF Agrees, A, B, C, Leaf, Node, PatVar
  <2> HIDE DEF p, q
  <2>6. QED
    BY <2>1, <2>2, <2>3, <2>4, <2>5, MeaningTyped, MeaningEqual DEF IsSum, Over
<1>5. QED
  BY <1>1, <1>2, <1>3, <1>4 DEF SoundRule, WellFormed, Preserves

\* The parentheses of `+` move to the left.
LEMMA AddAssocRL ==
  SoundRule(<<A, B, C, Bin("+", 2, 3), Bin("+", 1, 4)>>,
            <<A, B, Bin("+", 1, 2), C, Bin("+", 3, 4)>>)
<1> DEFINE p == <<A, B, C, Bin("+", 2, 3), Bin("+", 1, 4)>>
           q == <<A, B, Bin("+", 1, 2), C, Bin("+", 3, 4)>>
<1>1. IsExpr(p) /\ IsExpr(q)
  BY Expr5, NodeLeaf, NodeBinary DEF A, B, C, Bin, Nullary, Binary, PatVar
<1>2. PatVarsOf(q) \subseteq PatVarsOf(p) /\ p[5].op \notin PatVar
  BY DEF A, B, C, Bin, Leaf, Node, PatVar, PatVarsOf
<1>3. KeepsSorts(p, q)
  BY SortTable DEF KeepsSorts, Wanted, A, B, C, Bin, Leaf, Node, PatVar
<1>4. ASSUME NEW v, NEW w, Reads(p, v, 5), Reads(q, w, 5), Agrees(p, v, q, w, 5)
      PROVE  w[5] = v[5]
  <2>1. \A i \in 1..5 : v[i] \in Meaning
    BY <1>4 DEF Reads
  <2>2. \A j \in 1..5 : w[j] \in Meaning
    BY <1>4 DEF Reads
  <2>3. IsSum(v[4], v[2], v[3]) /\ IsSum(v[5], v[1], v[4])
    BY <1>4, ReadsSum
  <2>4. IsSum(w[3], w[1], w[2]) /\ IsSum(w[5], w[3], w[4])
    BY <1>4, ReadsSum
  <2>5. w[1] = v[1] /\ w[2] = v[2] /\ w[4] = v[3]
    BY <1>4 DEF Agrees, A, B, C, Leaf, Node, PatVar
  <2> HIDE DEF p, q
  <2>6. QED
    BY <2>1, <2>2, <2>3, <2>4, <2>5, MeaningTyped, MeaningEqual DEF IsSum, Over
<1>5. QED
  BY <1>1, <1>2, <1>3, <1>4 DEF SoundRule, WellFormed, Preserves

\* The operands of `*` change places.
LEMMA MulComm ==
  SoundRule(<<A, B, Bin("*", 1, 2)>>,
            <<B, A, Bin("*", 1, 2)>>)
<1> DEFINE p == <<A, B, Bin("*", 1, 2)>>
           q == <<B, A, Bin("*", 1, 2)>>
<1>1. IsExpr(p) /\ IsExpr(q)
  BY Expr3, NodeLeaf, NodeBinary DEF A, B, Bin, Nullary, Binary, PatVar
<1>2. PatVarsOf(q) \subseteq PatVarsOf(p) /\ p[3].op \notin PatVar
  BY DEF A, B, Bin, Leaf, Node, PatVar, PatVarsOf
<1>3. KeepsSorts(p, q)
  BY SortTable DEF KeepsSorts, Wanted, A, B, Bin, Leaf, Node, PatVar
<1>4. ASSUME NEW v, NEW w, Reads(p, v, 3), Reads(q, w, 3), Agrees(p, v, q, w, 3)
      PROVE  w[3] = v[3]
  <2>1. \A i \in 1..3 : v[i] \in Meaning
    BY <1>4 DEF Reads
  <2>2. \A j \in 1..3 : w[j] \in Meaning
    BY <1>4 DEF Reads
  <2>3. IsProduct(v[3], v[1], v[2])
    BY <1>4, ReadsProduct
  <2>4. IsProduct(w[3], w[1], w[2])
    BY <1>4, ReadsProduct
  <2>5. w[1] = v[2] /\ w[2] = v[1]
    BY <1>4 DEF Agrees, A, B, Leaf, Node, PatVar
  <2> HIDE DEF p, q
  <2>6. QED
    BY <2>1, <2>2, <2>3, <2>4, <2>5, MeaningTyped, MeaningEqual DEF IsProduct, Over
<1>5. QED
  BY <1>1, <1>2, <1>3, <1>4 DEF SoundRule, WellFormed, Preserves

\* The parentheses of `*` move to the right.
LEMMA MulAssocLR ==
  SoundRule(<<A, B, Bin("*", 1, 2), C, Bin("*", 3, 4)>>,
            <<A, B, C, Bin("*", 2, 3), Bin("*", 1, 4)>>)
<1> DEFINE p == <<A, B, Bin("*", 1, 2), C, Bin("*", 3, 4)>>
           q == <<A, B, C, Bin("*", 2, 3), Bin("*", 1, 4)>>
<1>1. IsExpr(p) /\ IsExpr(q)
  BY Expr5, NodeLeaf, NodeBinary DEF A, B, C, Bin, Nullary, Binary, PatVar
<1>2. PatVarsOf(q) \subseteq PatVarsOf(p) /\ p[5].op \notin PatVar
  BY DEF A, B, C, Bin, Leaf, Node, PatVar, PatVarsOf
<1>3. KeepsSorts(p, q)
  BY SortTable DEF KeepsSorts, Wanted, A, B, C, Bin, Leaf, Node, PatVar
<1>4. ASSUME NEW v, NEW w, Reads(p, v, 5), Reads(q, w, 5), Agrees(p, v, q, w, 5)
      PROVE  w[5] = v[5]
  <2>1. \A i \in 1..5 : v[i] \in Meaning
    BY <1>4 DEF Reads
  <2>2. \A j \in 1..5 : w[j] \in Meaning
    BY <1>4 DEF Reads
  <2>3. IsProduct(v[3], v[1], v[2]) /\ IsProduct(v[5], v[3], v[4])
    BY <1>4, ReadsProduct
  <2>4. IsProduct(w[4], w[2], w[3]) /\ IsProduct(w[5], w[1], w[4])
    BY <1>4, ReadsProduct
  <2>5. w[1] = v[1] /\ w[2] = v[2] /\ w[3] = v[4]
    BY <1>4 DEF Agrees, A, B, C, Leaf, Node, PatVar
  <2> HIDE DEF p, q
  <2>6. QED
    BY <2>1, <2>2, <2>3, <2>4, <2>5, MeaningTyped, MeaningEqual DEF IsProduct, Over
<1>5. QED
  BY <1>1, <1>2, <1>3, <1>4 DEF SoundRule, WellFormed, Preserves

\* The parentheses of `*` move to the left.
LEMMA MulAssocRL ==
  SoundRule(<<A, B, C, Bin("*", 2, 3), Bin("*", 1, 4)>>,
            <<A, B, Bin("*", 1, 2), C, Bin("*", 3, 4)>>)
<1> DEFINE p == <<A, B, C, Bin("*", 2, 3), Bin("*", 1, 4)>>
           q == <<A, B, Bin("*", 1, 2), C, Bin("*", 3, 4)>>
<1>1. IsExpr(p) /\ IsExpr(q)
  BY Expr5, NodeLeaf, NodeBinary DEF A, B, C, Bin, Nullary, Binary, PatVar
<1>2. PatVarsOf(q) \subseteq PatVarsOf(p) /\ p[5].op \notin PatVar
  BY DEF A, B, C, Bin, Leaf, Node, PatVar, PatVarsOf
<1>3. KeepsSorts(p, q)
  BY SortTable DEF KeepsSorts, Wanted, A, B, C, Bin, Leaf, Node, PatVar
<1>4. ASSUME NEW v, NEW w, Reads(p, v, 5), Reads(q, w, 5), Agrees(p, v, q, w, 5)
      PROVE  w[5] = v[5]
  <2>1. \A i \in 1..5 : v[i] \in Meaning
    BY <1>4 DEF Reads
  <2>2. \A j \in 1..5 : w[j] \in Meaning
    BY <1>4 DEF Reads
  <2>3. IsProduct(v[4], v[2], v[3]) /\ IsProduct(v[5], v[1], v[4])
    BY <1>4, ReadsProduct
  <2>4. IsProduct(w[3], w[1], w[2]) /\ IsProduct(w[5], w[3], w[4])
    BY <1>4, ReadsProduct
  <2>5. w[1] = v[1] /\ w[2] = v[2] /\ w[4] = v[3]
    BY <1>4 DEF Agrees, A, B, C, Leaf, Node, PatVar
  <2> HIDE DEF p, q
  <2>6. QED
    BY <2>1, <2>2, <2>3, <2>4, <2>5, MeaningTyped, MeaningEqual DEF IsProduct, Over
<1>5. QED
  BY <1>1, <1>2, <1>3, <1>4 DEF SoundRule, WellFormed, Preserves

\* The operands of `and` change places.
LEMMA AndComm ==
  SoundRule(<<A, B, Bin("and", 1, 2)>>,
            <<B, A, Bin("and", 1, 2)>>)
<1> DEFINE p == <<A, B, Bin("and", 1, 2)>>
           q == <<B, A, Bin("and", 1, 2)>>
<1>1. IsExpr(p) /\ IsExpr(q)
  BY Expr3, NodeLeaf, NodeBinary DEF A, B, Bin, Nullary, Binary, PatVar
<1>2. PatVarsOf(q) \subseteq PatVarsOf(p) /\ p[3].op \notin PatVar
  BY DEF A, B, Bin, Leaf, Node, PatVar, PatVarsOf
<1>3. KeepsSorts(p, q)
  BY SortTable DEF KeepsSorts, Wanted, A, B, Bin, Leaf, Node, PatVar
<1>4. ASSUME NEW v, NEW w, Reads(p, v, 3), Reads(q, w, 3), Agrees(p, v, q, w, 3)
      PROVE  w[3] = v[3]
  <2>1. \A i \in 1..3 : v[i] \in Meaning
    BY <1>4 DEF Reads
  <2>2. \A j \in 1..3 : w[j] \in Meaning
    BY <1>4 DEF Reads
  <2>3. IsAnd(v[3], v[1], v[2])
    BY <1>4, ReadsAnd
  <2>4. IsAnd(w[3], w[1], w[2])
    BY <1>4, ReadsAnd
  <2>5. w[1] = v[2] /\ w[2] = v[1]
    BY <1>4 DEF Agrees, A, B, Leaf, Node, PatVar
  <2> HIDE DEF p, q
  <2>6. QED
    BY <2>1, <2>2, <2>3, <2>4, <2>5, MeaningTyped, MeaningEqual DEF IsAnd, Over, Truth
<1>5. QED
  BY <1>1, <1>2, <1>3, <1>4 DEF SoundRule, WellFormed, Preserves

\* The parentheses of `and` move to the right.
LEMMA AndAssocLR ==
  SoundRule(<<A, B, Bin("and", 1, 2), C, Bin("and", 3, 4)>>,
            <<A, B, C, Bin("and", 2, 3), Bin("and", 1, 4)>>)
<1> DEFINE p == <<A, B, Bin("and", 1, 2), C, Bin("and", 3, 4)>>
           q == <<A, B, C, Bin("and", 2, 3), Bin("and", 1, 4)>>
<1>1. IsExpr(p) /\ IsExpr(q)
  BY Expr5, NodeLeaf, NodeBinary DEF A, B, C, Bin, Nullary, Binary, PatVar
<1>2. PatVarsOf(q) \subseteq PatVarsOf(p) /\ p[5].op \notin PatVar
  BY DEF A, B, C, Bin, Leaf, Node, PatVar, PatVarsOf
<1>3. KeepsSorts(p, q)
  BY SortTable DEF KeepsSorts, Wanted, A, B, C, Bin, Leaf, Node, PatVar
<1>4. ASSUME NEW v, NEW w, Reads(p, v, 5), Reads(q, w, 5), Agrees(p, v, q, w, 5)
      PROVE  w[5] = v[5]
  <2>1. \A i \in 1..5 : v[i] \in Meaning
    BY <1>4 DEF Reads
  <2>2. \A j \in 1..5 : w[j] \in Meaning
    BY <1>4 DEF Reads
  <2>3. IsAnd(v[3], v[1], v[2]) /\ IsAnd(v[5], v[3], v[4])
    BY <1>4, ReadsAnd
  <2>4. IsAnd(w[4], w[2], w[3]) /\ IsAnd(w[5], w[1], w[4])
    BY <1>4, ReadsAnd
  <2>5. w[1] = v[1] /\ w[2] = v[2] /\ w[3] = v[4]
    BY <1>4 DEF Agrees, A, B, C, Leaf, Node, PatVar
  <2> HIDE DEF p, q
  <2>6. QED
    BY <2>1, <2>2, <2>3, <2>4, <2>5, MeaningTyped, MeaningEqual DEF IsAnd, Over, Truth
<1>5. QED
  BY <1>1, <1>2, <1>3, <1>4 DEF SoundRule, WellFormed, Preserves

\* The parentheses of `and` move to the left.
LEMMA AndAssocRL ==
  SoundRule(<<A, B, C, Bin("and", 2, 3), Bin("and", 1, 4)>>,
            <<A, B, Bin("and", 1, 2), C, Bin("and", 3, 4)>>)
<1> DEFINE p == <<A, B, C, Bin("and", 2, 3), Bin("and", 1, 4)>>
           q == <<A, B, Bin("and", 1, 2), C, Bin("and", 3, 4)>>
<1>1. IsExpr(p) /\ IsExpr(q)
  BY Expr5, NodeLeaf, NodeBinary DEF A, B, C, Bin, Nullary, Binary, PatVar
<1>2. PatVarsOf(q) \subseteq PatVarsOf(p) /\ p[5].op \notin PatVar
  BY DEF A, B, C, Bin, Leaf, Node, PatVar, PatVarsOf
<1>3. KeepsSorts(p, q)
  BY SortTable DEF KeepsSorts, Wanted, A, B, C, Bin, Leaf, Node, PatVar
<1>4. ASSUME NEW v, NEW w, Reads(p, v, 5), Reads(q, w, 5), Agrees(p, v, q, w, 5)
      PROVE  w[5] = v[5]
  <2>1. \A i \in 1..5 : v[i] \in Meaning
    BY <1>4 DEF Reads
  <2>2. \A j \in 1..5 : w[j] \in Meaning
    BY <1>4 DEF Reads
  <2>3. IsAnd(v[4], v[2], v[3]) /\ IsAnd(v[5], v[1], v[4])
    BY <1>4, ReadsAnd
  <2>4. IsAnd(w[3], w[1], w[2]) /\ IsAnd(w[5], w[3], w[4])
    BY <1>4, ReadsAnd
  <2>5. w[1] = v[1] /\ w[2] = v[2] /\ w[4] = v[3]
    BY <1>4 DEF Agrees, A, B, C, Leaf, Node, PatVar
  <2> HIDE DEF p, q
  <2>6. QED
    BY <2>1, <2>2, <2>3, <2>4, <2>5, MeaningTyped, MeaningEqual DEF IsAnd, Over, Truth
<1>5. QED
  BY <1>1, <1>2, <1>3, <1>4 DEF SoundRule, WellFormed, Preserves

\* The operands of `or` change places.
LEMMA OrComm ==
  SoundRule(<<A, B, Bin("or", 1, 2)>>,
            <<B, A, Bin("or", 1, 2)>>)
<1> DEFINE p == <<A, B, Bin("or", 1, 2)>>
           q == <<B, A, Bin("or", 1, 2)>>
<1>1. IsExpr(p) /\ IsExpr(q)
  BY Expr3, NodeLeaf, NodeBinary DEF A, B, Bin, Nullary, Binary, PatVar
<1>2. PatVarsOf(q) \subseteq PatVarsOf(p) /\ p[3].op \notin PatVar
  BY DEF A, B, Bin, Leaf, Node, PatVar, PatVarsOf
<1>3. KeepsSorts(p, q)
  BY SortTable DEF KeepsSorts, Wanted, A, B, Bin, Leaf, Node, PatVar
<1>4. ASSUME NEW v, NEW w, Reads(p, v, 3), Reads(q, w, 3), Agrees(p, v, q, w, 3)
      PROVE  w[3] = v[3]
  <2>1. \A i \in 1..3 : v[i] \in Meaning
    BY <1>4 DEF Reads
  <2>2. \A j \in 1..3 : w[j] \in Meaning
    BY <1>4 DEF Reads
  <2>3. IsOr(v[3], v[1], v[2])
    BY <1>4, ReadsOr
  <2>4. IsOr(w[3], w[1], w[2])
    BY <1>4, ReadsOr
  <2>5. w[1] = v[2] /\ w[2] = v[1]
    BY <1>4 DEF Agrees, A, B, Leaf, Node, PatVar
  <2> HIDE DEF p, q
  <2>6. QED
    BY <2>1, <2>2, <2>3, <2>4, <2>5, MeaningTyped, MeaningEqual DEF IsOr, Over, Truth
<1>5. QED
  BY <1>1, <1>2, <1>3, <1>4 DEF SoundRule, WellFormed, Preserves

\* The parentheses of `or` move to the right.
LEMMA OrAssocLR ==
  SoundRule(<<A, B, Bin("or", 1, 2), C, Bin("or", 3, 4)>>,
            <<A, B, C, Bin("or", 2, 3), Bin("or", 1, 4)>>)
<1> DEFINE p == <<A, B, Bin("or", 1, 2), C, Bin("or", 3, 4)>>
           q == <<A, B, C, Bin("or", 2, 3), Bin("or", 1, 4)>>
<1>1. IsExpr(p) /\ IsExpr(q)
  BY Expr5, NodeLeaf, NodeBinary DEF A, B, C, Bin, Nullary, Binary, PatVar
<1>2. PatVarsOf(q) \subseteq PatVarsOf(p) /\ p[5].op \notin PatVar
  BY DEF A, B, C, Bin, Leaf, Node, PatVar, PatVarsOf
<1>3. KeepsSorts(p, q)
  BY SortTable DEF KeepsSorts, Wanted, A, B, C, Bin, Leaf, Node, PatVar
<1>4. ASSUME NEW v, NEW w, Reads(p, v, 5), Reads(q, w, 5), Agrees(p, v, q, w, 5)
      PROVE  w[5] = v[5]
  <2>1. \A i \in 1..5 : v[i] \in Meaning
    BY <1>4 DEF Reads
  <2>2. \A j \in 1..5 : w[j] \in Meaning
    BY <1>4 DEF Reads
  <2>3. IsOr(v[3], v[1], v[2]) /\ IsOr(v[5], v[3], v[4])
    BY <1>4, ReadsOr
  <2>4. IsOr(w[4], w[2], w[3]) /\ IsOr(w[5], w[1], w[4])
    BY <1>4, ReadsOr
  <2>5. w[1] = v[1] /\ w[2] = v[2] /\ w[3] = v[4]
    BY <1>4 DEF Agrees, A, B, C, Leaf, Node, PatVar
  <2> HIDE DEF p, q
  <2>6. QED
    BY <2>1, <2>2, <2>3, <2>4, <2>5, MeaningTyped, MeaningEqual DEF IsOr, Over, Truth
<1>5. QED
  BY <1>1, <1>2, <1>3, <1>4 DEF SoundRule, WellFormed, Preserves

\* The parentheses of `or` move to the left.
LEMMA OrAssocRL ==
  SoundRule(<<A, B, C, Bin("or", 2, 3), Bin("or", 1, 4)>>,
            <<A, B, Bin("or", 1, 2), C, Bin("or", 3, 4)>>)
<1> DEFINE p == <<A, B, C, Bin("or", 2, 3), Bin("or", 1, 4)>>
           q == <<A, B, Bin("or", 1, 2), C, Bin("or", 3, 4)>>
<1>1. IsExpr(p) /\ IsExpr(q)
  BY Expr5, NodeLeaf, NodeBinary DEF A, B, C, Bin, Nullary, Binary, PatVar
<1>2. PatVarsOf(q) \subseteq PatVarsOf(p) /\ p[5].op \notin PatVar
  BY DEF A, B, C, Bin, Leaf, Node, PatVar, PatVarsOf
<1>3. KeepsSorts(p, q)
  BY SortTable DEF KeepsSorts, Wanted, A, B, C, Bin, Leaf, Node, PatVar
<1>4. ASSUME NEW v, NEW w, Reads(p, v, 5), Reads(q, w, 5), Agrees(p, v, q, w, 5)
      PROVE  w[5] = v[5]
  <2>1. \A i \in 1..5 : v[i] \in Meaning
    BY <1>4 DEF Reads
  <2>2. \A j \in 1..5 : w[j] \in Meaning
    BY <1>4 DEF Reads
  <2>3. IsOr(v[4], v[2], v[3]) /\ IsOr(v[5], v[1], v[4])
    BY <1>4, ReadsOr
  <2>4. IsOr(w[3], w[1], w[2]) /\ IsOr(w[5], w[3], w[4])
    BY <1>4, ReadsOr
  <2>5. w[1] = v[1] /\ w[2] = v[2] /\ w[4] = v[3]
    BY <1>4 DEF Agrees, A, B, C, Leaf, Node, PatVar
  <2> HIDE DEF p, q
  <2>6. QED
    BY <2>1, <2>2, <2>3, <2>4, <2>5, MeaningTyped, MeaningEqual DEF IsOr, Over, Truth
<1>5. QED
  BY <1>1, <1>2, <1>3, <1>4 DEF SoundRule, WellFormed, Preserves

-----------------------------------------------------------------------------
(* The two sets of rules the solver uses.                                  *)

SoundRules(rs) == \A r \in DOMAIN rs : SoundRule(rs[r].lhs, rs[r].rhs)

\* Every definitional rule (lang.rs:30-55) preserves meaning.
LEMMA DefinitionalSound ==
  SoundRules(DefinitionalRules)
<1>1. SoundRule(DefinitionalRules[1].lhs, DefinitionalRules[1].rhs)
  BY AddZeroL DEF DefinitionalRules, Rule
<1>2. SoundRule(DefinitionalRules[2].lhs, DefinitionalRules[2].rhs)
  BY AddSuccL DEF DefinitionalRules, Rule
<1>3. SoundRule(DefinitionalRules[3].lhs, DefinitionalRules[3].rhs)
  BY MulZeroL DEF DefinitionalRules, Rule
<1>4. SoundRule(DefinitionalRules[4].lhs, DefinitionalRules[4].rhs)
  BY MulSuccL DEF DefinitionalRules, Rule
<1>5. SoundRule(DefinitionalRules[5].lhs, DefinitionalRules[5].rhs)
  BY AndTrueL DEF DefinitionalRules, Rule
<1>6. SoundRule(DefinitionalRules[6].lhs, DefinitionalRules[6].rhs)
  BY AndFalseL DEF DefinitionalRules, Rule
<1>7. SoundRule(DefinitionalRules[7].lhs, DefinitionalRules[7].rhs)
  BY OrTrueL DEF DefinitionalRules, Rule
<1>8. SoundRule(DefinitionalRules[8].lhs, DefinitionalRules[8].rhs)
  BY OrFalseL DEF DefinitionalRules, Rule
<1>9. SoundRule(DefinitionalRules[9].lhs, DefinitionalRules[9].rhs)
  BY NotTrue DEF DefinitionalRules, Rule
<1>10. SoundRule(DefinitionalRules[10].lhs, DefinitionalRules[10].rhs)
  BY NotFalse DEF DefinitionalRules, Rule
<1>11. SoundRule(DefinitionalRules[11].lhs, DefinitionalRules[11].rhs)
  BY NotNot DEF DefinitionalRules, Rule
<1>12. SoundRule(DefinitionalRules[12].lhs, DefinitionalRules[12].rhs)
  BY ImpliesElim DEF DefinitionalRules, Rule
<1>13. SoundRule(DefinitionalRules[13].lhs, DefinitionalRules[13].rhs)
  BY LeZeroL DEF DefinitionalRules, Rule
<1>14. SoundRule(DefinitionalRules[14].lhs, DefinitionalRules[14].rhs)
  BY LeSuccZero DEF DefinitionalRules, Rule
<1>15. SoundRule(DefinitionalRules[15].lhs, DefinitionalRules[15].rhs)
  BY LeSuccSucc DEF DefinitionalRules, Rule
<1>16. DOMAIN DefinitionalRules = 1..15
  BY DEF DefinitionalRules
<1>17. QED
  BY <1>1, <1>2, <1>3, <1>4, <1>5, <1>6, <1>7, <1>8, <1>9, <1>10, <1>11, <1>12, <1>13, <1>14, <1>15, <1>16 DEF SoundRules

\* Every rule algebraic_rules adds (lang.rs:62-82) preserves meaning.
LEMMA ExtraSound ==
  SoundRules(ExtraRules)
<1>1. SoundRule(ExtraRules[1].lhs, ExtraRules[1].rhs)
  BY AddComm DEF ExtraRules, Rule, Comm
<1>2. SoundRule(ExtraRules[2].lhs, ExtraRules[2].rhs)
  BY AddAssocLR DEF ExtraRules, Rule, AssocLR, ToLeft, ToRight
<1>3. SoundRule(ExtraRules[3].lhs, ExtraRules[3].rhs)
  BY AddAssocRL DEF ExtraRules, Rule, AssocRL, ToLeft, ToRight
<1>4. SoundRule(ExtraRules[4].lhs, ExtraRules[4].rhs)
  BY MulComm DEF ExtraRules, Rule, Comm
<1>5. SoundRule(ExtraRules[5].lhs, ExtraRules[5].rhs)
  BY MulAssocLR DEF ExtraRules, Rule, AssocLR, ToLeft, ToRight
<1>6. SoundRule(ExtraRules[6].lhs, ExtraRules[6].rhs)
  BY MulAssocRL DEF ExtraRules, Rule, AssocRL, ToLeft, ToRight
<1>7. SoundRule(ExtraRules[7].lhs, ExtraRules[7].rhs)
  BY AndComm DEF ExtraRules, Rule, Comm
<1>8. SoundRule(ExtraRules[8].lhs, ExtraRules[8].rhs)
  BY OrComm DEF ExtraRules, Rule, Comm
<1>9. SoundRule(ExtraRules[9].lhs, ExtraRules[9].rhs)
  BY AndAssocLR DEF ExtraRules, Rule, AssocLR, ToLeft, ToRight
<1>10. SoundRule(ExtraRules[10].lhs, ExtraRules[10].rhs)
  BY AndAssocRL DEF ExtraRules, Rule, AssocRL, ToLeft, ToRight
<1>11. SoundRule(ExtraRules[11].lhs, ExtraRules[11].rhs)
  BY OrAssocLR DEF ExtraRules, Rule, AssocLR, ToLeft, ToRight
<1>12. SoundRule(ExtraRules[12].lhs, ExtraRules[12].rhs)
  BY OrAssocRL DEF ExtraRules, Rule, AssocRL, ToLeft, ToRight
<1>13. SoundRule(ExtraRules[13].lhs, ExtraRules[13].rhs)
  BY DeMorganAnd DEF ExtraRules, Rule, DeMorgan
<1>14. SoundRule(ExtraRules[14].lhs, ExtraRules[14].rhs)
  BY DeMorganOr DEF ExtraRules, Rule, DeMorgan
<1>15. SoundRule(ExtraRules[15].lhs, ExtraRules[15].rhs)
  BY ExcludedMiddleL DEF ExtraRules, Rule
<1>16. SoundRule(ExtraRules[16].lhs, ExtraRules[16].rhs)
  BY ExcludedMiddleR DEF ExtraRules, Rule
<1>17. SoundRule(ExtraRules[17].lhs, ExtraRules[17].rhs)
  BY LeRefl DEF ExtraRules, Rule
<1>18. DOMAIN ExtraRules = 1..17
  BY DEF ExtraRules
<1>19. QED
  BY <1>1, <1>2, <1>3, <1>4, <1>5, <1>6, <1>7, <1>8, <1>9, <1>10, <1>11, <1>12, <1>13, <1>14, <1>15, <1>16, <1>17, <1>18 DEF SoundRules

\* Two lists of sound rules, one after the other, are sound.
LEMMA SoundConcat ==
  ASSUME NEW S, NEW s \in Seq(S), NEW t \in Seq(S), SoundRules(s), SoundRules(t)
  PROVE  SoundRules(s \o t)
<1>1. SUFFICES ASSUME NEW r \in DOMAIN (s \o t)
               PROVE  SoundRule((s \o t)[r].lhs, (s \o t)[r].rhs)
  BY DEF SoundRules
<1>2. CASE r \in DOMAIN s
  <2>1. (s \o t)[r] = s[r]
    BY <1>2
  <2>2. QED
    BY <1>2, <2>1 DEF SoundRules
<1>3. CASE r \notin DOMAIN s
  <2>1. r - Len(s) \in DOMAIN t /\ (s \o t)[r] = t[r - Len(s)]
    BY <1>3
  <2>2. QED
    BY <2>1 DEF SoundRules
<1>4. QED
  BY <1>2, <1>3

\* Both lists of rules are sequences.
LEMMA RulesTyped ==
  \E S : DefinitionalRules \in Seq(S) /\ ExtraRules \in Seq(S)
<1> DEFINE S == {DefinitionalRules[i] : i \in 1..15} \cup {ExtraRules[i] : i \in 1..17}
<1>1. (\A i \in 1..15 : DefinitionalRules[i] \in S) /\ \A i \in 1..17 : ExtraRules[i] \in S
  OBVIOUS
<1> HIDE DEF S
<1>2. DefinitionalRules \in Seq(S)
  BY <1>1 DEF DefinitionalRules
<1>3. ExtraRules \in Seq(S)
  BY <1>1 DEF ExtraRules
<1>4. QED
  BY <1>2, <1>3

\* Every rule of lang.rs, of definitional_rules and of algebraic_rules, is
\* closed under its own variables, keeps sorts and preserves meaning: for any
\* symbols, any assignments and any meanings given to the variables.
THEOREM RulesSound ==
  SoundRules(DefinitionalRules) /\ SoundRules(AlgebraicRules)
BY RulesTyped, DefinitionalSound, ExtraSound, SoundConcat DEF AlgebraicRules
-----------------------------------------------------------------------------
(* The invariants of a saturation.                                         *)

Phases == {"idle", "load", "search", "apply", "instantiate", "rebuild", "stopped"}
TermNode == [op : Op \cup Symbol, args : Seq(Nat)]
\* A value at each assignment, whatever the sort: a truth value is a number.
Loose == [sort : {"Nat", "Bool"}, at : [Env -> Nat]]

NodeOK(i) ==
  /\ Len(nodes[i].args) = Arity(nodes[i].op)
  /\ \A k \in DOMAIN nodes[i].args : nodes[i].args[k] \in DOMAIN nodes
RepOK(i) == rep[i] \in DOMAIN nodes /\ rep[rep[i]] = rep[i]
GraphOK ==
  /\ nodes \in Seq(TermNode) /\ rep \in Seq(Nat) /\ meaning \in Seq(Loose)
  /\ Len(rep) = Len(nodes) /\ Len(meaning) = Len(nodes)
  /\ \A i \in DOMAIN nodes : NodeOK(i)
  /\ \A i \in DOMAIN nodes : RepOK(i)

RuleOK(r) == WellFormed(rules[r].lhs, rules[r].rhs)
MatchOK(t) ==
  /\ t[1] \in DOMAIN rules
  /\ t[2] \in [DOMAIN rules[t[1]].lhs -> DOMAIN nodes]
RulesOK == DOMAIN rules \subseteq Nat /\ \A r \in DOMAIN rules : RuleOK(r)
MatchesOK == (\A t \in todo : MatchOK(t)) /\ (phase = "instantiate" => MatchOK(match))
RegsOK ==
  phase \in {"load", "instantiate"} => regs \in Seq(DOMAIN nodes) /\ Len(regs) <= Len(Code)
SidesOK ==
  /\ phase \in Phases
  /\ phase = "idle" => sides = <<>> /\ nodes = <<>> /\ rules = <<>> /\ roots = <<>>
  /\ phase # "idle" =>
       /\ Len(sides) = 2 /\ roots \in Seq(DOMAIN nodes)
       /\ \A k \in 1..2 : IsTerm(sides[k]) /\ sides[k] # <<>>
       /\ IF phase = "load" THEN Len(roots) \in {0, 1} ELSE Len(roots) = 2
IterOK ==
  /\ iter \in 0..MaxIter
  /\ phase = "load" => iter = 0
  /\ phase = "search" => iter < MaxIter
RunOK == RulesOK /\ MatchesOK /\ RegsOK /\ SidesOK /\ IterOK

SatOK == GraphOK /\ RunOK
-----------------------------------------------------------------------------
(* The matches to apply.                                                   *)

\* There is always a next match: the rules are numbered.
LEMMA NextMatchExists ==
  ASSUME RunOK, todo # {}
  PROVE  NextMatch \in todo
<1> DEFINE T == {t[1] : t \in todo}
<1>1. T \subseteq Nat /\ T # {}
  BY DEF RunOK, RulesOK, MatchesOK, MatchOK
<1>2. PICK x \in T : \A y \in T : x <= y
  BY <1>1, LeastNat
<1>3. \E t \in todo : \A u \in todo : t[1] <= u[1]
  BY <1>2
<1>4. QED
  BY <1>3 DEF NextMatch
-----------------------------------------------------------------------------
(* Nodes and their meanings.                                               *)

\* An operator of a term is a symbol or has none, one or two operands.
LEMMA OpCases ==
  ASSUME NEW op \in Op \cup Symbol
  PROVE  op \in Symbol \/ op \in Nullary \/ op \in Unary \/ op \in Binary
BY DEF Op, NatConnective, Comparison, BoolConnective, Nullary, Unary, Binary

\* Every operator of a term has a sort.
LEMMA SortOfOp ==
  ASSUME NEW op \in Op \cup Symbol
  PROVE  SortOf(op) \in {"Nat", "Bool"} /\ (op \in Symbol => SortOf(op) = SymbolSort[op])
BY SymbolAssumption DEF SortOf, Op

\* A node is a number or a truth value, whatever its children are.
LEMMA DenoteLoose ==
  ASSUME NEW op \in Op \cup Symbol, NEW a \in Seq(Loose), Len(a) = Arity(op)
  PROVE  Denote(op, a) \in Loose
<1>1. CASE op \in Symbol
  BY <1>1, SortOfOp, SymbolAssumption DEF Denote, Loose
<1>2. ASSUME op \in Op, \A e \in Env : Compute(op, [k \in DOMAIN a |-> a[k].at[e]]) \in Nat
      PROVE  Denote(op, a) \in Loose
  BY <1>2, SortOfOp, OpKinds DEF Denote, Loose
<1>3. \A k \in 1..Len(a) : \A e \in Env : a[k].at[e] \in Nat
  <2>1. \A k \in 1..Len(a) : a[k] \in Loose
    OBVIOUS
  <2>2. QED
    BY <2>1 DEF Loose
<1>4. CASE op \in Nullary
  BY <1>2, <1>4, OpKinds DEF Nullary, Compute
<1>5. CASE op \in Unary
  <2>1. Len(a) = 1 /\ op \in Op
    BY <1>5, ArityTable, OpKinds DEF Unary
  <2>2. QED
    BY <1>2, <1>3, <1>5, <2>1 DEF Unary, Compute, Truth
<1>6. CASE op \in Binary
  <2>1. Len(a) = 2 /\ op \in Op
    BY <1>6, ArityTable, OpKinds DEF Binary
  <2>2. QED
    BY <1>2, <1>3, <1>6, <2>1 DEF Binary, Compute, Truth
<1>7. QED
  BY <1>1, <1>4, <1>5, <1>6, OpCases

\* A sorted node is of its sort.
LEMMA DenoteTyped ==
  ASSUME NEW op \in Op \cup Symbol, NEW a \in Seq(Loose), Len(a) = Arity(op)
  PROVE  Denote(op, a) \in Meaning
<1>1. Denote(op, a) \in Loose /\ Denote(op, a).sort = SortOf(op)
  BY DenoteLoose DEF Denote
<1>2. CASE SortOf(op) = "Nat"
  BY <1>1, <1>2 DEF Loose, Meaning
<1>3. CASE SortOf(op) = "Bool"
  <2>1. CASE op \in Symbol
    BY <1>3, <2>1, SortOfOp, SymbolAssumption DEF Denote, Meaning
  <2>2. CASE op \notin Symbol
    <3>1. op \in Comparison \cup BoolConnective
      BY <1>3, <2>2 DEF SortOf, Op
    <3>2. \A x : Compute(op, x) \in {0, 1}
      BY <3>1 DEF Compute, Truth, Comparison, BoolConnective
    <3>3. QED
      BY <1>3, <2>2, <3>2 DEF Denote, Meaning
  <2>3. QED
    BY <2>1, <2>2
<1>4. QED
  BY <1>2, <1>3, SortOfOp
-----------------------------------------------------------------------------
(* The e-graph stays well formed.                                          *)

\* Merging two classes keeps the graph well formed.
LEMMA MergeOK ==
  ASSUME GraphOK, NEW i \in DOMAIN nodes, NEW j \in DOMAIN nodes, Merge(i, j),
         UNCHANGED <<nodes, meaning>>
  PROVE  GraphOK' /\ \A n \in DOMAIN nodes : rep'[n] = IF rep[n] = rep[j] THEN rep[i] ELSE rep[n]
<1>1. DOMAIN rep = DOMAIN nodes /\ DOMAIN rep = 1..Len(rep)
  BY DEF GraphOK
<1>2. \A n \in DOMAIN nodes : rep'[n] = IF rep[n] = rep[j] THEN rep[i] ELSE rep[n]
  BY <1>1 DEF Merge
<1>3. \A n \in DOMAIN nodes : RepOK(n)
  BY DEF GraphOK
<1>4. \A n \in DOMAIN nodes : RepOK(n)'
  BY <1>2, <1>3 DEF RepOK
<1>5. rep' \in Seq(Nat) /\ Len(rep') = Len(rep)
  <2>1. \A n \in DOMAIN nodes : rep'[n] \in Nat
    BY <1>2 DEF GraphOK
  <2>2. rep' \in [1..Len(rep) -> Nat]
    BY <1>1, <2>1 DEF Merge
  <2>3. Len(rep) \in Nat
    BY DEF GraphOK
  <2>4. QED
    BY <2>2, <2>3
<1>6. \A n \in DOMAIN nodes : NodeOK(n)'
  BY DEF GraphOK, NodeOK
<1>7. QED
  BY <1>2, <1>4, <1>5, <1>6 DEF GraphOK

\* Appending a node whose operands are in the graph keeps it well formed.
LEMMA GrowOK ==
  ASSUME GraphOK, NEW n \in TermNode, Len(n.args) = Arity(n.op),
         \A k \in DOMAIN n.args : n.args[k] \in DOMAIN nodes,
         NEW m \in Loose,
         nodes' = Append(nodes, n), rep' = Append(rep, Len(nodes) + 1), meaning' = Append(meaning, m)
  PROVE  /\ GraphOK'
         /\ \A i \in DOMAIN nodes : nodes'[i] = nodes[i] /\ rep'[i] = rep[i] /\ meaning'[i] = meaning[i]
         /\ DOMAIN nodes' = DOMAIN nodes \cup {Len(nodes) + 1} /\ Len(nodes) + 1 \notin DOMAIN nodes
         /\ nodes'[Len(nodes) + 1] = n /\ meaning'[Len(nodes) + 1] = m
         /\ rep'[Len(nodes) + 1] = Len(nodes) + 1
<1>1. /\ nodes \in Seq(TermNode) /\ rep \in Seq(Nat) /\ meaning \in Seq(Loose)
      /\ Len(rep) = Len(nodes) /\ Len(meaning) = Len(nodes)
  BY DEF GraphOK
<1>2. /\ nodes' \in Seq(TermNode) /\ rep' \in Seq(Nat) /\ meaning' \in Seq(Loose)
      /\ Len(nodes') = Len(nodes) + 1 /\ Len(rep') = Len(nodes) + 1 /\ Len(meaning') = Len(nodes) + 1
  BY <1>1
<1>3. \A i \in DOMAIN nodes : nodes'[i] = nodes[i] /\ rep'[i] = rep[i] /\ meaning'[i] = meaning[i]
  BY <1>1
<1>4. /\ DOMAIN nodes' = DOMAIN nodes \cup {Len(nodes) + 1} /\ Len(nodes) + 1 \notin DOMAIN nodes
      /\ nodes'[Len(nodes) + 1] = n /\ meaning'[Len(nodes) + 1] = m
      /\ rep'[Len(nodes) + 1] = Len(nodes) + 1
  BY <1>1, <1>2
<1>5. ASSUME NEW i \in DOMAIN nodes' PROVE NodeOK(i)' /\ RepOK(i)'
  <2>1. CASE i \in DOMAIN nodes
    <3>1. NodeOK(i) /\ RepOK(i)
      BY <2>1 DEF GraphOK
    <3>2. NodeOK(i)'
      BY <2>1, <3>1, <1>3, <1>4 DEF NodeOK
    <3>3. RepOK(i)'
      BY <2>1, <3>1, <1>3, <1>4 DEF RepOK
    <3>4. QED
      BY <3>2, <3>3
  <2>2. CASE i = Len(nodes) + 1
    BY <2>2, <1>4 DEF NodeOK, RepOK
  <2>3. QED
    BY <2>1, <2>2, <1>4
<1>6. GraphOK'
  BY <1>2, <1>5 DEF GraphOK
<1>7. QED
  BY <1>3, <1>4, <1>6

\* What is being inserted.
LEMMA CodeOK ==
  ASSUME RunOK, phase \in {"load", "instantiate"}
  PROVE  /\ IsExpr(Code) /\ Code # <<>>
         /\ phase = "load" => PatVarsOf(Code) = {}
         /\ phase = "instantiate" => PatVarsOf(Code) \subseteq PatVarsOf(rules[match[1]].lhs)
<1>1. CASE phase = "load"
  <2>1. Len(roots) + 1 \in 1..2
    <3>1. Len(roots) = 0 \/ Len(roots) = 1
      BY <1>1 DEF RunOK, SidesOK
    <3>2. QED
      BY <3>1, \A n : n = 0 \/ n = 1 => n + 1 \in 1..2
  <2>2. IsTerm(Code) /\ Code # <<>>
    BY <1>1, <2>1 DEF RunOK, SidesOK, Code
  <2>3. QED
    BY <1>1, <2>2 DEF IsTerm
<1>2. CASE phase = "instantiate"
  BY <1>2 DEF RunOK, RulesOK, MatchesOK, Code, MatchOK, RuleOK, WellFormed
<1>3. QED
  BY <1>1, <1>2

\* The node that comes next.
LEMMA CurrentOK ==
  ASSUME RunOK, Inserting, ~Inserted
  PROVE  /\ Len(regs) + 1 \in DOMAIN Code /\ Code \in Seq(NodeType)
         /\ Len(Current.args) = Arity(Current.op) /\ Current.args \in Seq(1..Len(regs))
         /\ Current.op \in Op \cup Symbol \cup PatVar
         /\ phase = "load" => Current.op \notin PatVar
<1>1. phase \in {"load", "instantiate"} /\ Len(regs) # Len(Code) /\ IsExpr(Code)
  BY CodeOK DEF Inserting, Inserted
<1>2. Len(regs) \in Nat /\ Len(regs) <= Len(Code) /\ Len(Code) \in Nat
  BY <1>1 DEF RunOK, RegsOK, IsExpr
<1>3. Len(regs) + 1 \in DOMAIN Code
  BY <1>1, <1>2 DEF IsExpr
<1>4. /\ Current \in NodeType
      /\ Len(Current.args) = Arity(Current.op)
      /\ \A k \in DOMAIN Current.args : Current.args[k] \in 1..Len(regs)
  <2>1. Current = Code[Len(regs) + 1] /\ Code \in Seq(NodeType)
    BY <1>1 DEF Current, IsExpr, NodeType
  <2>2. /\ Len(Current.args) = Arity(Current.op)
        /\ \A k \in DOMAIN Current.args : Current.args[k] \in 1..(Len(regs) + 1 - 1)
    BY <1>1, <1>3, <2>1 DEF IsExpr
  <2>3. Current \in NodeType
    BY <1>3, <2>1
  <2>4. QED
    BY <1>2, <2>2, <2>3
<1>5. phase = "load" => Current.op \notin PatVar
  BY <1>1, <1>3, CodeOK DEF PatVarsOf, Current
<1>6. Current.args \in Seq(1..Len(regs)) /\ Current.op \in Op \cup Symbol \cup PatVar
  BY <1>4 DEF NodeType
<1>7. QED
  BY <1>1, <1>3, <1>4, <1>5, <1>6 DEF IsExpr, NodeType

\* The classes of the children of the next node.
LEMMA ChildrenOK ==
  ASSUME SatOK, Inserting, ~Inserted, Current.op \notin PatVar
  PROVE  /\ Current.op \in Op \cup Symbol
         /\ Children(Current) \in Seq(DOMAIN nodes)
         /\ Len(Children(Current)) = Arity(Current.op)
         /\ DOMAIN Children(Current) = DOMAIN Current.args
         /\ \A k \in DOMAIN Current.args : /\ Current.args[k] \in DOMAIN regs
                                           /\ regs[Current.args[k]] \in DOMAIN nodes
                                           /\ Children(Current)[k] = rep[regs[Current.args[k]]]
<1>1. regs \in Seq(DOMAIN nodes)
  BY DEF SatOK, RunOK, RegsOK, Inserting
<1>2. /\ Current.args \in Seq(1..Len(regs)) /\ Len(Current.args) = Arity(Current.op)
      /\ Current.op \in Op \cup Symbol
  BY CurrentOK DEF SatOK
<1>3. \A k \in DOMAIN Current.args : /\ Current.args[k] \in DOMAIN regs
                                     /\ regs[Current.args[k]] \in DOMAIN nodes
                                     /\ rep[regs[Current.args[k]]] \in DOMAIN nodes
  <2>1. \A n \in DOMAIN nodes : rep[n] \in DOMAIN nodes
    BY DEF SatOK, GraphOK, RepOK
  <2>2. \A k \in DOMAIN Current.args : Current.args[k] \in 1..Len(regs)
    BY <1>2
  <2>3. \A l \in 1..Len(regs) : l \in DOMAIN regs /\ regs[l] \in DOMAIN nodes
    BY <1>1
  <2>4. QED
    BY <2>1, <2>2, <2>3
<1>4. Children(Current) \in [1..Len(Current.args) -> DOMAIN nodes]
  BY <1>2, <1>3 DEF Children
<1>5. /\ Children(Current) \in Seq(DOMAIN nodes) /\ Len(Children(Current)) = Len(Current.args)
      /\ DOMAIN Children(Current) = DOMAIN Current.args
  BY <1>2, <1>4
<1>6. QED
  BY <1>2, <1>3, <1>5 DEF Children
-----------------------------------------------------------------------------
(* Each step of the run keeps the structure.                               *)

\* What held of matches still holds of a larger e-graph.
LEMMA MatchesGrow ==
  ASSUME DOMAIN nodes \subseteq DOMAIN nodes', UNCHANGED rules, NEW t, MatchOK(t)
  PROVE  MatchOK(t)'
BY DEF MatchOK

\* The class of a variable in the match.
LEMMA BoundOK ==
  ASSUME RunOK, phase = "instantiate", ~Inserted, Current.op \in PatVar
  PROVE  \E i \in DOMAIN rules[match[1]].lhs :
           /\ rules[match[1]].lhs[i].op = Current.op
           /\ Bound(Current.op) = match[2][i] /\ match[2][i] \in DOMAIN nodes
<1>1. Current.op \in PatVarsOf(Code)
  BY CurrentOK DEF PatVarsOf, Current, Inserting
<1>2. Current.op \in PatVarsOf(rules[match[1]].lhs)
  BY <1>1, CodeOK
<1>3. \E i \in DOMAIN rules[match[1]].lhs : rules[match[1]].lhs[i].op = Current.op
  BY <1>2 DEF PatVarsOf
<1>4. match[2] \in [DOMAIN rules[match[1]].lhs -> DOMAIN nodes]
  BY DEF RunOK, MatchesOK, MatchOK
<1>5. QED
  BY <1>3, <1>4 DEF Bound

\* Reading a variable of a match.
LEMMA TakeVariableOK ==
  ASSUME SatOK, TakeVariable
  PROVE  SatOK'
<1>1. Inserting /\ RunOK /\ GraphOK /\ phase = "instantiate" /\ ~Inserted
  BY DEF TakeVariable, SatOK, Inserting
<1>2. rep[Bound(Current.op)] \in DOMAIN nodes
  <2>1. Bound(Current.op) \in DOMAIN nodes
    BY <1>1, BoundOK DEF TakeVariable
  <2>2. QED
    BY <1>1, <2>1 DEF GraphOK, RepOK
<1>3. Len(regs) + 1 \in DOMAIN Code /\ Code \in Seq(NodeType) /\ regs \in Seq(DOMAIN nodes)
  BY <1>1, CurrentOK DEF RunOK, RegsOK
<1>4. Code' = Code
  BY DEF TakeVariable, Code
<1>5. regs' \in Seq(DOMAIN nodes) /\ Len(regs') = Len(regs) + 1
  BY <1>2, <1>3 DEF TakeVariable
<1>6. RegsOK'
  BY <1>3, <1>4, <1>5 DEF TakeVariable, graphVars, RegsOK
<1>7. GraphOK'
  BY <1>1 DEF TakeVariable, graphVars, GraphOK, NodeOK, RepOK
<1>8. RulesOK' /\ MatchesOK' /\ SidesOK' /\ IterOK'
  BY <1>1 DEF TakeVariable, graphVars, RunOK, RulesOK, RuleOK, MatchesOK, MatchOK, SidesOK, IterOK
<1>9. QED
  BY <1>6, <1>7, <1>8 DEF SatOK, RunOK

\* Adding one node, or finding it: the register it is put in holds a node of
\* the graph.
LEMMA InsertNodeOK ==
  ASSUME SatOK, InsertNode
  PROVE  /\ SatOK' /\ DOMAIN nodes \subseteq DOMAIN nodes'
         /\ \E r \in DOMAIN nodes' : regs' = Append(regs, r)
<1> DEFINE new == Children(Current)
           old == Known(Current.op, new)
<1>1. Inserting /\ ~Inserted /\ Current.op \notin PatVar /\ phase \in {"load", "instantiate"}
  BY DEF InsertNode, Inserting
<1>2. GraphOK /\ RunOK
  BY DEF SatOK
<1>3. /\ new \in Seq(DOMAIN nodes) /\ Len(new) = Arity(Current.op)
      /\ Current.op \in Op \cup Symbol
  BY <1>1, ChildrenOK
<1>4. GraphOK' /\ DOMAIN nodes \subseteq DOMAIN nodes' /\ \E r \in DOMAIN nodes' : regs' = Append(regs, r)
  <2>1. CASE old # {}
    <3>1. (CHOOSE i \in old : TRUE) \in DOMAIN nodes
      BY <2>1 DEF Known
    <3>2. regs' = Append(regs, rep[CHOOSE i \in old : TRUE]) /\ UNCHANGED graphVars
      BY <2>1 DEF InsertNode
    <3>3. rep[CHOOSE i \in old : TRUE] \in DOMAIN nodes
      BY <1>2, <3>1 DEF GraphOK, RepOK
    <3>4. GraphOK'
      BY <1>2, <3>2 DEF graphVars, GraphOK, NodeOK, RepOK
    <3>5. QED
      BY <3>2, <3>3, <3>4 DEF graphVars
  <2>2. CASE old = {}
    <3>1. /\ nodes' = Append(nodes, Node(Current.op, new))
          /\ rep' = Append(rep, Len(nodes) + 1)
          /\ meaning' = Append(meaning, Denote(Current.op, [k \in DOMAIN new |-> meaning[new[k]]]))
          /\ regs' = Append(regs, Len(nodes) + 1)
      BY <2>2 DEF InsertNode
    <3>2. /\ [k \in DOMAIN new |-> meaning[new[k]]] \in Seq(Loose)
          /\ Len([k \in DOMAIN new |-> meaning[new[k]]]) = Arity(Current.op)
      <4>1. \A k \in 1..Len(new) : meaning[new[k]] \in Loose
        BY <1>2, <1>3 DEF GraphOK
      <4>2. QED
        BY <1>3, <4>1
    <3>3. Denote(Current.op, [k \in DOMAIN new |-> meaning[new[k]]]) \in Loose
      BY <1>3, <3>2, DenoteLoose
    <3>4. /\ Node(Current.op, new) \in TermNode
          /\ Len(Node(Current.op, new).args) = Arity(Node(Current.op, new).op)
          /\ \A k \in DOMAIN Node(Current.op, new).args : Node(Current.op, new).args[k] \in DOMAIN nodes
      <4>1. DOMAIN nodes \subseteq Nat
        BY <1>2 DEF GraphOK
      <4>2. new \in Seq(Nat) /\ \A k \in DOMAIN new : new[k] \in DOMAIN nodes
        BY <1>3, <4>1
      <4>3. QED
        BY <1>3, <4>2 DEF Node, TermNode
    <3> HIDE DEF new, old
    <3>5. QED
      BY <1>2, <3>1, <3>3, <3>4, GrowOK
  <2>3. QED
    BY <2>1, <2>2
<1>5. Code' = Code /\ UNCHANGED <<sides, rules, phase, roots, todo, match, iter>>
  BY DEF InsertNode, Code
<1>6. RegsOK'
  <2>1. PICK r \in DOMAIN nodes' : regs' = Append(regs, r)
    BY <1>4
  <2>2. regs \in Seq(DOMAIN nodes')
    <3>1. regs \in Seq(DOMAIN nodes)
      BY <1>1, <1>2 DEF RunOK, RegsOK
    <3>2. QED
      BY <1>4, <3>1
  <2>3. regs' \in Seq(DOMAIN nodes') /\ Len(regs') = Len(regs) + 1
    BY <2>1, <2>2
  <2>4. Len(regs) + 1 \in DOMAIN Code /\ Code \in Seq(NodeType)
    BY <1>1, <1>2, CurrentOK
  <2>5. QED
    BY <1>5, <2>3, <2>4 DEF RegsOK
<1>7. RulesOK' /\ IterOK'
  BY <1>2, <1>5 DEF RunOK, RulesOK, RuleOK, IterOK
<1>8. MatchesOK'
  BY <1>2, <1>4, <1>5, MatchesGrow DEF RunOK, MatchesOK
<1>9. SidesOK'
  <2>1. phase # "idle" /\ phase' # "idle" /\ phase' \in Phases
    BY <1>1, <1>5 DEF Phases
  <2>2. roots' \in Seq(DOMAIN nodes')
    BY <1>2, <1>4, <1>5, <2>1 DEF RunOK, SidesOK
  <2>3. QED
    BY <1>2, <1>5, <2>1, <2>2 DEF RunOK, SidesOK
<1>10. QED
  BY <1>4, <1>6, <1>7, <1>8, <1>9 DEF SatOK, RunOK

\* The end of the insertion of one side.
LEMMA LoadedOK ==
  ASSUME SatOK, Loaded
  PROVE  SatOK'
<1>1. RunOK /\ GraphOK /\ phase = "load" /\ Len(regs) = Len(Code) /\ UNCHANGED <<graphVars, sides, rules, todo, match, iter>>
  BY DEF SatOK, Loaded, Inserted
<1>2. Last(regs) \in DOMAIN nodes
  <2>1. IsExpr(Code) /\ Code # <<>>
    BY <1>1, CodeOK
  <2>2. Len(Code) \in Nat \ {0}
    BY <2>1 DEF IsExpr
  <2>3. regs \in Seq(DOMAIN nodes)
    BY <1>1 DEF RunOK, RegsOK
  <2>4. QED
    BY <1>1, <2>2, <2>3 DEF Last
<1>3. roots \in Seq(DOMAIN nodes) /\ (Len(roots) = 0 \/ Len(roots) = 1)
  BY <1>1 DEF RunOK, SidesOK
<1>4. /\ roots' \in Seq(DOMAIN nodes') /\ Len(roots') = Len(roots) + 1 /\ regs' = <<>>
      /\ phase' = IF Len(roots) = 1 THEN "search" ELSE "load"
  BY <1>1, <1>2, <1>3 DEF Loaded, graphVars
<1>5. SidesOK'
  <2>1. phase' \in Phases \ {"idle"} /\ sides' = sides /\ phase # "idle"
    BY <1>1, <1>4 DEF Phases
  <2>2. IF phase' = "load" THEN Len(roots') \in {0, 1} ELSE Len(roots') = 2
    <3>1. CASE Len(roots) = 0
      BY <1>4, <3>1
    <3>2. CASE Len(roots) = 1
      BY <1>4, <3>2
    <3>3. QED
      BY <1>3, <3>1, <3>2
  <2>3. QED
    BY <1>1, <1>4, <2>1, <2>2 DEF RunOK, SidesOK
<1>6. RegsOK'
  <2>1. ASSUME phase' \in {"load", "instantiate"} PROVE Code' = sides[2] /\ IsTerm(sides[2])
    BY <1>1, <1>3, <1>4, <2>1 DEF Code, RunOK, SidesOK
  <2>2. ASSUME phase' \in {"load", "instantiate"} PROVE Len(Code') \in Nat
    BY <2>1, <2>2 DEF IsTerm, IsExpr
  <2>3. QED
    BY <1>4, <2>2 DEF RegsOK
<1>7. GraphOK'
  BY <1>1 DEF graphVars, GraphOK, NodeOK, RepOK
<1>8. RulesOK' /\ MatchesOK'
  BY <1>1, <1>4 DEF graphVars, RunOK, RulesOK, RuleOK, MatchesOK, MatchOK
<1>9. IterOK'
  BY <1>1, <1>4, BoundAssumption DEF RunOK, IterOK
<1>10. QED
  BY <1>5, <1>6, <1>7, <1>8, <1>9 DEF SatOK, RunOK

\* A match names a class for each node of the pattern.
LEMMA MatchesTyped ==
  ASSUME GraphOK, NEW p, NEW q, WellFormed(p, q), NEW m \in Matches(p)
  PROVE  m \in [DOMAIN p -> DOMAIN nodes]
<1>1. IsMatch(p, m) /\ m \in Candidates(p)
  BY DEF Matches
<1>2. \A i \in DOMAIN nodes : rep[i] \in DOMAIN nodes
  BY DEF GraphOK, RepOK
<1>3. \A i \in DOMAIN p : m[i] \in DOMAIN nodes
  BY <1>1, <1>2 DEF IsMatch, Classes, Known
<1>4. m = [i \in DOMAIN p |-> m[i]]
  <2>1. CASE Fixed(p) = {}
    <3>1. PICK c \in Classes : m = <<c>>
      BY <1>1, <2>1 DEF Candidates
    <3>2. Len(p) = 1 /\ p \in Seq(NodeType)
      BY <2>1 DEF WellFormed, Fixed, IsExpr, NodeType
    <3>3. DOMAIN p = DOMAIN m
      BY <3>1, <3>2
    <3>4. QED
      BY <3>1, <3>3
  <2>2. CASE Fixed(p) # {}
    <3>1. PICK f \in Picks(p) : m = Read(p, f)
      BY <1>1, <2>2 DEF Candidates
    <3> DEFINE g(i) ==
                 IF i \in Fixed(p) THEN rep[f[i]]
                 ELSE LET j == Parent(p, i)
                      IN  rep[nodes[f[j]].args[CHOOSE k \in DOMAIN p[j].args : p[j].args[k] = i]]
    <3>2. m = [i \in DOMAIN p |-> g(i)]
      BY <3>1 DEF Read
    <3> HIDE DEF g
    <3>3. QED
      BY <3>2
  <2>3. QED
    BY <2>1, <2>2
<1>5. QED
  BY <1>3, <1>4

\* The start of an iteration.
LEMMA SearchOK ==
  ASSUME SatOK, Search
  PROVE  SatOK'
<1>1. /\ RunOK /\ GraphOK /\ phase = "search" /\ phase' = "apply"
      /\ UNCHANGED <<graphVars, sides, rules, roots, regs, limit>>
  BY DEF SatOK, Search
<1>2. \A t \in todo' : MatchOK(t)
  <2>1. SUFFICES ASSUME NEW r \in DOMAIN rules, NEW m \in Matches(rules[r].lhs)
                 PROVE  MatchOK(<<r, m>>)
    BY DEF Search
  <2>2. WellFormed(rules[r].lhs, rules[r].rhs)
    BY <1>1 DEF RunOK, RulesOK, RuleOK
  <2>3. QED
    BY <1>1, <2>2, MatchesTyped DEF MatchOK
<1>3. MatchesOK'
  BY <1>1, <1>2 DEF MatchesOK, MatchOK, graphVars
<1>4. GraphOK'
  BY <1>1 DEF graphVars, GraphOK, NodeOK, RepOK
<1>5. RulesOK' /\ RegsOK' /\ SidesOK'
  BY <1>1 DEF graphVars, RunOK, RulesOK, RuleOK, RegsOK, SidesOK, Phases
<1>6. IterOK'
  BY <1>1, BoundAssumption DEF Search, RunOK, IterOK
<1>7. QED
  BY <1>3, <1>4, <1>5, <1>6 DEF SatOK, RunOK

\* Taking a match that was found.
LEMMA TakeMatchOK ==
  ASSUME SatOK, TakeMatch
  PROVE  SatOK'
<1>1. /\ RunOK /\ GraphOK /\ phase = "apply" /\ phase' = "instantiate" /\ regs' = <<>>
      /\ match' = NextMatch /\ todo' \subseteq todo
      /\ UNCHANGED <<graphVars, sides, rules, roots, iter>>
  BY DEF SatOK, TakeMatch
<1>2. MatchOK(match')
  BY <1>1, NextMatchExists DEF TakeMatch, RunOK, MatchesOK
<1>3. MatchesOK'
  BY <1>1, <1>2 DEF RunOK, MatchesOK, MatchOK, graphVars
<1>4. RulesOK' /\ SidesOK' /\ IterOK'
  BY <1>1 DEF graphVars, RunOK, RulesOK, RuleOK, SidesOK, IterOK, Phases
<1>5. RegsOK'
  <2>1. Code' = rules[match'[1]].rhs
    BY <1>1 DEF Code
  <2>2. IsExpr(rules[match'[1]].rhs)
    BY <1>1, <1>2 DEF RunOK, RulesOK, MatchOK, RuleOK, WellFormed
  <2>3. Len(Code') \in Nat
    BY <2>1, <2>2 DEF IsExpr
  <2>4. QED
    BY <1>1, <2>3 DEF RegsOK
<1>6. GraphOK'
  BY <1>1 DEF graphVars, GraphOK, NodeOK, RepOK
<1>7. QED
  BY <1>3, <1>4, <1>5, <1>6 DEF SatOK, RunOK

\* A limit that ends the saturation.
LEMMA CutShortOK ==
  ASSUME SatOK, CutShort
  PROVE  SatOK'
<1>1. GraphOK'
  BY DEF SatOK, CutShort, graphVars, GraphOK, NodeOK, RepOK
<1>2. RunOK'
  BY DEF SatOK, CutShort, graphVars, RunOK, RulesOK, RuleOK, MatchesOK, MatchOK, RegsOK, SidesOK, IterOK
<1>3. QED
  BY <1>1, <1>2 DEF SatOK

\* The two classes that an applied match makes one.
LEMMA UnionSides ==
  ASSUME SatOK, phase = "instantiate", Inserted
  PROVE  /\ Last(match[2]) = match[2][Len(rules[match[1]].lhs)] /\ Last(match[2]) \in DOMAIN nodes
         /\ Len(rules[match[1]].lhs) \in DOMAIN rules[match[1]].lhs
         /\ Last(regs) = regs[Len(rules[match[1]].rhs)] /\ Last(regs) \in DOMAIN nodes
         /\ Len(rules[match[1]].rhs) \in DOMAIN regs /\ Len(regs) = Len(rules[match[1]].rhs)
<1>1. match[2] \in [DOMAIN rules[match[1]].lhs -> DOMAIN nodes] /\ RuleOK(match[1])
  BY DEF SatOK, RunOK, RulesOK, MatchesOK, MatchOK
<1>2. /\ rules[match[1]].lhs \in Seq(NodeType) /\ rules[match[1]].lhs # <<>>
      /\ rules[match[1]].rhs \in Seq(NodeType) /\ rules[match[1]].rhs # <<>>
  BY <1>1 DEF RuleOK, WellFormed, IsExpr, NodeType
<1>3. match[2] \in Seq(DOMAIN nodes) /\ Len(match[2]) = Len(rules[match[1]].lhs)
  BY <1>1, <1>2
<1>4. regs \in Seq(DOMAIN nodes) /\ Len(regs) = Len(rules[match[1]].rhs)
  BY DEF SatOK, RunOK, RegsOK, Inserted, Code
<1>5. QED
  BY <1>2, <1>3, <1>4 DEF Last

\* Merging the two sides of a match.
LEMMA UnionOK ==
  ASSUME SatOK, Union
  PROVE  SatOK'
<1>1. /\ RunOK /\ GraphOK /\ phase = "instantiate" /\ Inserted /\ phase' = "apply"
      /\ Merge(Last(match[2]), Last(regs))
      /\ UNCHANGED <<nodes, meaning, sides, rules, roots, todo, match, regs, iter>>
  BY DEF SatOK, Union
<1>2. GraphOK'
  BY <1>1, UnionSides, MergeOK
<1>3. RunOK'
  BY <1>1 DEF RunOK, RulesOK, RuleOK, MatchesOK, MatchOK, RegsOK, SidesOK, IterOK, Phases
<1>4. QED
  BY <1>2, <1>3 DEF SatOK

\* The end of the matches of an iteration.
LEMMA EndApplyOK ==
  ASSUME SatOK, EndApply
  PROVE  SatOK'
<1>1. GraphOK'
  BY DEF SatOK, EndApply, graphVars, GraphOK, NodeOK, RepOK
<1>2. RunOK'
  BY DEF SatOK, EndApply, graphVars, RunOK, RulesOK, RuleOK, MatchesOK, MatchOK, RegsOK, SidesOK, IterOK, Phases
<1>3. QED
  BY <1>1, <1>2 DEF SatOK

\* Restoring congruence merges the classes of two equal nodes.
LEMMA RebuildOK ==
  ASSUME SatOK, Rebuild
  PROVE  /\ SatOK'
         /\ \E p \in Apart : Merge(p[1], p[2])
<1>1. PICK p \in Apart : Merge(p[1], p[2])
  BY DEF Rebuild
<1>2. p[1] \in DOMAIN nodes /\ p[2] \in DOMAIN nodes
  BY DEF Apart
<1>3. GraphOK'
  BY <1>1, <1>2, MergeOK DEF SatOK, Rebuild
<1>4. RunOK'
  BY DEF SatOK, Rebuild, runVars, RunOK, RulesOK, RuleOK, MatchesOK, MatchOK, RegsOK, Code, SidesOK, IterOK
<1>5. QED
  BY <1>1, <1>3, <1>4 DEF SatOK

\* The end of an iteration.
LEMMA EndIterationOK ==
  ASSUME SatOK, EndIteration
  PROVE  SatOK'
<1>1. /\ RunOK /\ GraphOK /\ phase = "rebuild" /\ phase' \in {"stopped", "search"}
      /\ UNCHANGED <<graphVars, sides, rules, roots, todo, match, regs, iter>>
  BY DEF SatOK, EndIteration
<1>2. phase' = "search" => iter # MaxIter
  BY DEF EndIteration
<1>3. IterOK'
  BY <1>1, <1>2, BoundAssumption DEF RunOK, IterOK
<1>4. GraphOK'
  BY <1>1 DEF graphVars, GraphOK, NodeOK, RepOK
<1>5. RulesOK' /\ MatchesOK' /\ RegsOK' /\ SidesOK'
  BY <1>1 DEF graphVars, RunOK, RulesOK, RuleOK, MatchesOK, MatchOK, RegsOK, SidesOK, Phases
<1>6. QED
  BY <1>3, <1>4, <1>5 DEF SatOK, RunOK

\* A step of the run keeps the structure.
LEMMA SatStepOK ==
  ASSUME SatOK, SatStep
  PROVE  SatOK'
BY TakeVariableOK, InsertNodeOK, LoadedOK, SearchOK, TakeMatchOK, CutShortOK, UnionOK, EndApplyOK,
   RebuildOK, EndIterationOK DEF SatStep

\* Starting a run on two terms with well formed rules, and dropping it.
LEMMA CompareOK ==
  ASSUME NEW l, NEW r, NEW rs, Compare(l, r, rs), IsTerm(l), IsTerm(r), l # <<>>, r # <<>>,
         DOMAIN rs \subseteq Nat, \A i \in DOMAIN rs : WellFormed(rs[i].lhs, rs[i].rhs)
  PROVE  SatOK'
<1>1. GraphOK'
  BY DEF Compare, GraphOK, NodeOK, RepOK
<1>2. Code' = l /\ Len(l) \in Nat
  BY DEF Compare, Code, IsTerm, IsExpr
<1>3. RegsOK'
  BY <1>2 DEF Compare, RegsOK
<1>4. RulesOK' /\ MatchesOK' /\ IterOK'
  BY BoundAssumption DEF Compare, RulesOK, RuleOK, MatchesOK, IterOK
<1>5. SidesOK'
  BY DEF Compare, SidesOK, Phases
<1>6. QED
  BY <1>1, <1>3, <1>4, <1>5 DEF SatOK, RunOK

\* A dropped runner leaves nothing behind.
LEMMA DropOK ==
  ASSUME Drop
  PROVE  SatOK'
<1>1. GraphOK'
  BY DEF Drop, GraphOK, NodeOK, RepOK
<1>2. RunOK'
  BY BoundAssumption DEF Drop, RunOK, RulesOK, MatchesOK, RegsOK, SidesOK, IterOK, Phases
<1>3. QED
  BY <1>1, <1>2 DEF SatOK

\* No runner exists at the start.
LEMMA SatIdleOK ==
  ASSUME SatIdle
  PROVE  SatOK
<1>1. GraphOK
  BY DEF SatIdle, GraphOK, NodeOK, RepOK
<1>2. RunOK
  BY BoundAssumption DEF SatIdle, RunOK, RulesOK, MatchesOK, RegsOK, SidesOK, IterOK, Phases
<1>3. QED
  BY <1>1, <1>2 DEF SatOK
-----------------------------------------------------------------------------
(* The meaning of an expression, node by node.                             *)

EvaluateNode(e, m, i) == Denote(e[i].op, [k \in DOMAIN e[i].args |-> m[e[i].args[k]]])
EvaluatedTo(e, m, n) == m = [i \in 1..n |-> EvaluateNode(e, m, i)]

\* The first n nodes of an expression can be evaluated, for every n: the least
\* n for which they cannot does not exist.
LEMMA EvaluateUpTo ==
  ASSUME NEW e, IsExpr(e)
  PROVE  \A n \in 0..Len(e) : \E m : EvaluatedTo(e, m, n)
<1> DEFINE T == {n \in 0..Len(e) : ~ \E m : EvaluatedTo(e, m, n)}
<1>1. SUFFICES ASSUME T # {} PROVE FALSE
  OBVIOUS
<1>2. Len(e) \in Nat
  BY DEF IsExpr
<1>3. PICK n \in T : \A y \in T : n <= y
  <2>1. T \in SUBSET Nat
    BY <1>2
  <2> HIDE DEF T
  <2>2. QED
    BY <1>1, <2>1, LeastNat
<1>4. n # 0
  <2>1. EvaluatedTo(e, <<>>, 0)
    BY DEF EvaluatedTo
  <2>2. QED
    BY <2>1, <1>3
<1>5. n \in 1..Len(e) /\ n - 1 \in 0..Len(e) /\ n - 1 \notin T
  BY <1>2, <1>3, <1>4
<1>6. PICK m : EvaluatedTo(e, m, n - 1)
  BY <1>5
<1> DEFINE f == [i \in 1..n |-> IF i = n THEN EvaluateNode(e, m, n) ELSE m[i]]
<1>7. ASSUME NEW i \in 1..n PROVE EvaluateNode(e, f, i) = EvaluateNode(e, m, i)
  <2>1. \A k \in DOMAIN e[i].args : e[i].args[k] \in 1..(i - 1)
    BY <1>5 DEF IsExpr
  <2>2. \A k \in DOMAIN e[i].args : f[e[i].args[k]] = m[e[i].args[k]]
    BY <1>5, <2>1
  <2> HIDE DEF f
  <2>3. QED
    BY <2>2 DEF EvaluateNode
<1>8. \A i \in 1..n : f[i] = EvaluateNode(e, m, i)
  BY <1>5, <1>6 DEF EvaluatedTo
<1>9. EvaluatedTo(e, f, n)
  <2>1. \A i \in 1..n : f[i] = EvaluateNode(e, f, i)
    BY <1>7, <1>8
  <2>2. f = [i \in 1..n |-> f[i]]
    OBVIOUS
  <2> HIDE DEF f
  <2>3. QED
    BY <2>1, <2>2 DEF EvaluatedTo
<1>10. QED
  BY <1>3, <1>9

\* Evaluate is defined for every expression: a child comes before its parent.
LEMMA EvaluateIs ==
  ASSUME NEW e, IsExpr(e)
  PROVE  Evaluate(e) = [i \in DOMAIN e |-> EvaluateNode(e, Evaluate(e), i)]
<1>1. DOMAIN e = 1..Len(e) /\ Len(e) \in 0..Len(e)
  BY DEF IsExpr
<1>2. PICK m : m = [i \in DOMAIN e |-> EvaluateNode(e, m, i)]
  BY <1>1, EvaluateUpTo DEF EvaluatedTo
<1>3. QED
  BY <1>2 DEF Evaluate, EvaluateNode

\* A node evaluates to what its operator makes of its operands.
LEMMA EvaluateAt ==
  ASSUME NEW e, IsExpr(e)
  PROVE  /\ \A i \in DOMAIN e : Evaluate(e)[i] = EvaluateNode(e, Evaluate(e), i)
         /\ Last(Evaluate(e)) = Evaluate(e)[Len(e)]
<1>1. \A i \in DOMAIN e : Evaluate(e)[i] = EvaluateNode(e, Evaluate(e), i)
  BY EvaluateIs
<1>2. DOMAIN e = 1..Len(e) /\ Len(e) \in Nat
  BY DEF IsExpr
<1>3. Evaluate(e) \in [1..Len(e) -> {Evaluate(e)[i] : i \in 1..Len(e)}]
  BY <1>2, EvaluateIs
<1>4. Len(Evaluate(e)) = Len(e)
  BY <1>2, <1>3
<1>5. QED
  BY <1>1, <1>4 DEF Last

\* In a sound rule, the children of the next node of the right side are of the
\* sort it wants.
LEMMA NextSorted ==
  ASSUME NEW p, NEW q, SoundRule(p, q), NEW v, NEW w, NEW n \in Nat, n + 1 \in DOMAIN q,
         Reads(p, v, Len(p)), Reads(q, w, n), Agrees(p, v, q, w, n), q[n + 1].op \notin PatVar
  PROVE  Sorted(q[n + 1].op, ChildValues(q, w, n + 1))
<1>1. IsExpr(p) /\ IsExpr(q) /\ KeepsSorts(p, q)
  BY DEF SoundRule, WellFormed
<1>2. ASSUME NEW k \in DOMAIN q[n + 1].args
      PROVE  w[q[n + 1].args[k]].sort = ChildSort(q[n + 1].op)
  <2> DEFINE c == q[n + 1].args[k]
  <2>1. c \in 1..n
    BY <1>1 DEF IsExpr
  <2>2. Wanted(p, q, n + 1, k)
    BY <1>1 DEF KeepsSorts
  <2>3. CASE q[c].op \in PatVar
    <3>1. PICK i \in DOMAIN p : \E l \in DOMAIN p[i].args :
            /\ p[i].op \notin PatVar /\ p[p[i].args[l]].op = q[c].op
            /\ ChildSort(p[i].op) = ChildSort(q[n + 1].op)
      BY <2>2, <2>3 DEF Wanted
    <3>2. PICK l \in DOMAIN p[i].args :
            /\ p[i].op \notin PatVar /\ p[p[i].args[l]].op = q[c].op
            /\ ChildSort(p[i].op) = ChildSort(q[n + 1].op)
      BY <3>1
    <3>3. DOMAIN p = 1..Len(p) /\ p[i].args[l] \in DOMAIN p
      BY <1>1 DEF IsExpr
    <3>4. Sorted(p[i].op, ChildValues(p, v, i))
      BY <3>2, <3>3 DEF Reads
    <3>5. v[p[i].args[l]].sort = ChildSort(q[n + 1].op)
      BY <3>2, <3>4 DEF Sorted, ChildValues
    <3>6. w[c] = v[p[i].args[l]]
      BY <2>1, <2>3, <3>2, <3>3 DEF Agrees
    <3>7. QED
      BY <3>5, <3>6
  <2>4. CASE q[c].op \notin PatVar
    <3>1. w[c] = Denote(q[c].op, ChildValues(q, w, c))
      BY <2>1, <2>4 DEF Reads
    <3>2. SortOf(q[c].op) = ChildSort(q[n + 1].op)
      BY <2>2, <2>4 DEF Wanted
    <3>3. QED
      BY <3>1, <3>2 DEF Denote
  <2>5. QED
    BY <2>3, <2>4
<1>3. QED
  BY <1>2 DEF Sorted, ChildValues
-----------------------------------------------------------------------------
(* Every class has one meaning.                                            *)

\* Both sides of the goal are sorted, and so is the goal; the rules are sound.
Believed == Len(sides) = 2 /\ GoalSorted(sides[1], sides[2]) /\ SoundRules(rules)

Meanings(s) == [k \in DOMAIN s |-> meaning[s[k]]]
NodeMeans(i) ==
  /\ meaning[i] = Denote(nodes[i].op, Meanings(nodes[i].args))
  /\ Sorted(nodes[i].op, Meanings(nodes[i].args))
MatchRead(t) == Reads(rules[t[1]].lhs, Meanings(t[2]), Len(rules[t[1]].lhs))

NodesMean == \A i \in DOMAIN nodes : NodeMeans(i)
ClassesMean == \A i \in DOMAIN nodes : meaning[rep[i]] = meaning[i]
TodoMeans == \A t \in todo : MatchRead(t)
MatchMeans ==
  phase = "instantiate" =>
    /\ MatchRead(match)
    /\ Reads(rules[match[1]].rhs, Meanings(regs), Len(regs))
    /\ Agrees(rules[match[1]].lhs, Meanings(match[2]), rules[match[1]].rhs, Meanings(regs), Len(regs))
LoadMeans == phase = "load" => \A j \in DOMAIN regs : meaning[regs[j]] = Evaluate(Code)[j]
RootsMean == \A k \in DOMAIN roots : meaning[roots[k]] = Last(Evaluate(sides[k]))

MeaningOK ==
  /\ NodesMean /\ ClassesMean /\ TodoMeans /\ MatchMeans
  /\ LoadMeans /\ RootsMean

\* Every node has a meaning of a sort.
LEMMA MeaningsTyped ==
  ASSUME GraphOK, NodesMean
  PROVE  \A i \in DOMAIN nodes : meaning[i] \in Meaning
<1>1. SUFFICES ASSUME NEW i \in DOMAIN nodes PROVE meaning[i] \in Meaning
  OBVIOUS
<1>2. nodes[i] \in TermNode /\ NodeOK(i) /\ NodeMeans(i)
  BY DEF GraphOK, NodesMean
<1>3. \A k \in 1..Len(nodes[i].args) : meaning[nodes[i].args[k]] \in Loose
  BY <1>2 DEF GraphOK, NodeOK, TermNode
<1>4. Meanings(nodes[i].args) \in Seq(Loose) /\ Len(Meanings(nodes[i].args)) = Arity(nodes[i].op)
  BY <1>2, <1>3 DEF Meanings, NodeOK, TermNode
<1>5. QED
  BY <1>2, <1>4, DenoteTyped DEF NodeMeans, TermNode

\* Merging two classes of one meaning.
LEMMA MergeMeans ==
  ASSUME GraphOK, ClassesMean, NEW i \in DOMAIN nodes, NEW j \in DOMAIN nodes,
         meaning[i] = meaning[j], Merge(i, j), UNCHANGED <<nodes, meaning>>
  PROVE  ClassesMean'
<1>1. \A n \in DOMAIN nodes : rep'[n] = IF rep[n] = rep[j] THEN rep[i] ELSE rep[n]
  BY MergeOK
<1>2. QED
  BY <1>1 DEF ClassesMean

\* What the next node means, whether it is known or new.
LEMMA InsertMeans ==
  ASSUME SatOK, NodesMean, ClassesMean, InsertNode,
         Sorted(Current.op, [k \in DOMAIN Current.args |-> meaning[regs[Current.args[k]]]])
  PROVE  /\ NodesMean' /\ ClassesMean'
         /\ \A i \in DOMAIN nodes : meaning'[i] = meaning[i]
         /\ \E r \in DOMAIN nodes' :
              /\ regs' = Append(regs, r)
              /\ meaning'[r] = Denote(Current.op, [k \in DOMAIN Current.args |-> meaning[regs[Current.args[k]]]])
<1> DEFINE new == Children(Current)
           old == Known(Current.op, new)
           values == [k \in DOMAIN Current.args |-> meaning[regs[Current.args[k]]]]
<1>1. Inserting /\ ~Inserted /\ Current.op \notin PatVar /\ GraphOK
  BY DEF InsertNode, SatOK
<1>2. /\ Current.op \in Op \cup Symbol /\ new \in Seq(DOMAIN nodes) /\ Len(new) = Arity(Current.op)
      /\ DOMAIN new = DOMAIN Current.args
      /\ \A k \in DOMAIN Current.args : /\ regs[Current.args[k]] \in DOMAIN nodes
                                        /\ new[k] = rep[regs[Current.args[k]]]
  BY <1>1, ChildrenOK
<1>3. Meanings(new) = values
  BY <1>2 DEF ClassesMean, Meanings
<1> HIDE DEF values
<1>4. CASE old # {}
  <2> DEFINE x == CHOOSE i \in old : TRUE
  <2>1. x \in old /\ regs' = Append(regs, rep[x]) /\ UNCHANGED graphVars
    BY <1>4 DEF InsertNode
  <2> HIDE DEF x, old
  <2>2. /\ x \in DOMAIN nodes /\ nodes[x].op = Current.op
        /\ [k \in DOMAIN nodes[x].args |-> rep[nodes[x].args[k]]] = new
    BY <2>1 DEF old, Known, Congruent
  <2>3. Meanings(nodes[x].args) = Meanings(new)
    <3>1. \A k \in DOMAIN nodes[x].args : nodes[x].args[k] \in DOMAIN nodes
      BY <1>1, <2>2 DEF GraphOK, NodeOK
    <3>2. DOMAIN new = DOMAIN nodes[x].args /\ \A k \in DOMAIN new : new[k] = rep[nodes[x].args[k]]
      BY <2>2
    <3> HIDE DEF new
    <3>3. QED
      BY <3>1, <3>2 DEF Meanings, ClassesMean
  <2>4. meaning[rep[x]] = Denote(Current.op, values) /\ rep[x] \in DOMAIN nodes
    BY <1>1, <1>3, <2>2, <2>3 DEF NodesMean, NodeMeans, ClassesMean, GraphOK, RepOK
  <2>5. NodesMean' /\ ClassesMean'
    BY <2>1 DEF graphVars, NodesMean, NodeMeans, Meanings, ClassesMean
  <2>6. QED
    BY <2>1, <2>4, <2>5 DEF graphVars, values
<1>5. CASE old = {}
  <2> DEFINE n == Len(nodes) + 1
  <2>1. /\ nodes' = Append(nodes, Node(Current.op, new))
        /\ rep' = Append(rep, n)
        /\ meaning' = Append(meaning, Denote(Current.op, [k \in DOMAIN new |-> meaning[new[k]]]))
        /\ regs' = Append(regs, n)
    BY <1>5 DEF InsertNode
  <2>2. Denote(Current.op, [k \in DOMAIN new |-> meaning[new[k]]]) = Denote(Current.op, values)
    BY <1>3 DEF Meanings
  <2>3. \A k \in DOMAIN new : new[k] \in DOMAIN nodes
    BY <1>2
  <2> HIDE DEF new, old
  <2>4. /\ Meanings(new) \in Seq(Loose) /\ Len(Meanings(new)) = Arity(Current.op)
    <3>1. \A k \in 1..Len(new) : meaning[new[k]] \in Loose
      BY <1>1, <1>2 DEF GraphOK
    <3>2. QED
      BY <1>2, <3>1 DEF Meanings
  <2>5. Denote(Current.op, values) \in Loose
    BY <1>2, <1>3, <2>4, DenoteLoose
  <2>6. /\ Node(Current.op, new) \in TermNode /\ Node(Current.op, new).args = new
        /\ Node(Current.op, new).op = Current.op
    <3>1. DOMAIN nodes \subseteq Nat
      BY <1>1 DEF GraphOK
    <3>2. new \in Seq(Nat)
      BY <1>2, <3>1
    <3>3. QED
      BY <1>2, <3>2 DEF Node, TermNode
  <2>7. /\ \A i \in DOMAIN nodes : nodes'[i] = nodes[i] /\ rep'[i] = rep[i] /\ meaning'[i] = meaning[i]
        /\ DOMAIN nodes' = DOMAIN nodes \cup {n} /\ n \notin DOMAIN nodes
        /\ nodes'[n] = Node(Current.op, new) /\ meaning'[n] = Denote(Current.op, values)
        /\ rep'[n] = n
    BY <1>1, <1>2, <2>1, <2>2, <2>3, <2>5, <2>6, GrowOK
  <2> HIDE DEF n
  <2>8. ASSUME NEW s, \A k \in DOMAIN s : s[k] \in DOMAIN nodes
        PROVE  Meanings(s)' = Meanings(s)
    BY <2>7, <2>8 DEF Meanings
  <2>9. NodesMean'
    <3>1. SUFFICES ASSUME NEW i \in DOMAIN nodes' PROVE NodeMeans(i)'
      BY DEF NodesMean
    <3>2. CASE i \in DOMAIN nodes
      <4>1. NodeMeans(i) /\ \A k \in DOMAIN nodes[i].args : nodes[i].args[k] \in DOMAIN nodes
        BY <1>1, <3>2 DEF NodesMean, GraphOK, NodeOK
      <4>2. Meanings(nodes[i].args)' = Meanings(nodes[i].args)
        BY <4>1, <2>7, <3>2 DEF Meanings
      <4>3. QED
        BY <4>1, <4>2, <2>7, <3>2 DEF NodeMeans
    <3>3. CASE i = n
      <4>1. nodes'[i].op = Current.op /\ nodes'[i].args = new
        BY <2>6, <2>7, <3>3
      <4>2. Meanings(nodes[i].args)' = values
        BY <4>1, <1>3, <2>3, <2>7 DEF Meanings
      <4>3. QED
        BY <4>1, <4>2, <2>7, <3>3 DEF NodeMeans, values
    <3>4. QED
      BY <2>7, <3>2, <3>3
  <2>10. ClassesMean'
    <3>1. \A i \in DOMAIN nodes : rep[i] \in DOMAIN nodes
      BY <1>1 DEF GraphOK, RepOK
    <3>2. QED
      BY <3>1, <2>7 DEF ClassesMean
  <2>11. QED
    BY <2>1, <2>7, <2>9, <2>10 DEF n, values
<1>6. QED
  BY <1>4, <1>5

\* A pattern read in a smaller e-graph is read in the larger one.
LEMMA MatchGrows ==
  ASSUME NEW t, MatchOK(t), UNCHANGED rules, \A i \in DOMAIN nodes : meaning'[i] = meaning[i]
  PROVE  Meanings(t[2])' = Meanings(t[2]) /\ (MatchRead(t) => MatchRead(t)')
<1>1. \A k \in DOMAIN t[2] : t[2][k] \in DOMAIN nodes
  BY DEF MatchOK
<1>2. Meanings(t[2])' = Meanings(t[2])
  BY <1>1 DEF Meanings
<1>3. QED
  BY <1>2 DEF MatchRead

\* The classes inserted so far, and one more.
LEMMA MeaningsAppend ==
  ASSUME regs \in Seq(DOMAIN nodes), \A i \in DOMAIN nodes : meaning'[i] = meaning[i],
         NEW r, regs' = Append(regs, r)
  PROVE  /\ Len(regs') = Len(regs) + 1 /\ Len(regs) \in Nat
         /\ \A k \in 1..Len(regs) : Meanings(regs)'[k] = Meanings(regs)[k]
         /\ Meanings(regs)'[Len(regs) + 1] = meaning'[r]
<1>1. /\ Len(regs') = Len(regs) + 1 /\ Len(regs) \in Nat
      /\ DOMAIN regs' = 1..(Len(regs) + 1) /\ DOMAIN regs = 1..Len(regs)
      /\ \A k \in 1..Len(regs) : regs'[k] = regs[k] /\ regs[k] \in DOMAIN nodes
      /\ regs'[Len(regs) + 1] = r
  BY DEF Meanings
<1>2. QED
  BY <1>1 DEF Meanings

\* Reading one more node: what came before is read as it was.
LEMMA ReadsNext ==
  ASSUME NEW q, IsExpr(q), NEW n \in Nat, n + 1 \in DOMAIN q, NEW v, NEW w,
         Reads(q, v, n), \A k \in 1..n : w[k] = v[k], w[n + 1] \in Meaning,
         q[n + 1].op \in PatVar => \A j \in 1..n : q[j].op = q[n + 1].op => v[j] = w[n + 1],
         q[n + 1].op \notin PatVar => /\ Sorted(q[n + 1].op, ChildValues(q, v, n + 1))
                                      /\ w[n + 1] = Denote(q[n + 1].op, ChildValues(q, v, n + 1))
  PROVE  Reads(q, w, n + 1)
<1>1. ASSUME NEW i \in 1..(n + 1) PROVE ChildValues(q, w, i) = ChildValues(q, v, i)
  <2>1. i \in DOMAIN q
    BY DEF IsExpr
  <2>2. \A k \in DOMAIN q[i].args : q[i].args[k] \in 1..n
    BY <2>1 DEF IsExpr
  <2>3. QED
    BY <2>2 DEF ChildValues
<1>2. ASSUME NEW i \in 1..n
      PROVE  /\ w[i] \in Meaning
             /\ q[i].op \in PatVar => \A j \in 1..(n + 1) : q[j].op = q[i].op => w[j] = w[i]
             /\ q[i].op \notin PatVar => /\ Sorted(q[i].op, ChildValues(q, w, i))
                                         /\ w[i] = Denote(q[i].op, ChildValues(q, w, i))
  <2>1. ChildValues(q, w, i) = ChildValues(q, v, i) /\ w[i] = v[i]
    BY <1>1
  <2>2. \A j \in 1..(n + 1) : j \in 1..n \/ j = n + 1
    OBVIOUS
  <2>3. QED
    BY <2>1, <2>2 DEF Reads
<1>3. /\ q[n + 1].op \in PatVar => \A j \in 1..(n + 1) : q[j].op = q[n + 1].op => w[j] = w[n + 1]
      /\ q[n + 1].op \notin PatVar => /\ Sorted(q[n + 1].op, ChildValues(q, w, n + 1))
                                      /\ w[n + 1] = Denote(q[n + 1].op, ChildValues(q, w, n + 1))
  BY <1>1
<1>4. \A i \in 1..(n + 1) : i \in 1..n \/ i = n + 1
  OBVIOUS
<1>5. QED
  BY <1>2, <1>3, <1>4 DEF Reads

\* Reading a variable keeps what the built part of the right side means.
LEMMA TakeVariableMeans ==
  ASSUME SatOK, MeaningOK, Believed, TakeVariable
  PROVE  MeaningOK'
<1> DEFINE p == rules[match[1]].lhs
           q == rules[match[1]].rhs
           v == Meanings(match[2])
           r == rep[Bound(Current.op)]
           n == Len(regs)
<1>1. /\ phase = "instantiate" /\ ~Inserted /\ Current.op \in PatVar /\ regs' = Append(regs, r)
      /\ UNCHANGED <<nodes, rep, meaning, sides, rules, phase, roots, todo, match>>
  BY DEF TakeVariable, graphVars
<1>2. RunOK /\ GraphOK /\ MatchOK(match)
  BY <1>1 DEF SatOK, RunOK, MatchesOK
<1>3. Code = q /\ Current = q[n + 1] /\ n + 1 \in DOMAIN q /\ IsExpr(q) /\ regs \in Seq(DOMAIN nodes)
  BY <1>1, <1>2, CurrentOK, CodeOK DEF Code, Current, Inserting, RunOK, RegsOK
<1>4. PICK i \in DOMAIN p : p[i].op = Current.op /\ Bound(Current.op) = match[2][i] /\ match[2][i] \in DOMAIN nodes
  BY <1>1, <1>2, BoundOK
<1>5. meaning[r] = v[i] /\ r \in DOMAIN nodes
  <2>1. i \in DOMAIN match[2]
    BY <1>2 DEF MatchOK
  <2>2. QED
    BY <1>2, <1>4, <2>1 DEF MeaningOK, ClassesMean, Meanings, GraphOK, RepOK
<1>6. /\ Reads(p, v, Len(p)) /\ Reads(q, Meanings(regs), n) /\ Agrees(p, v, q, Meanings(regs), n)
      /\ Len(p) \in Nat /\ DOMAIN p = 1..Len(p)
  BY <1>1, <1>2 DEF MeaningOK, MatchMeans, MatchRead, MatchOK, RunOK, RulesOK, RuleOK, WellFormed, IsExpr
<1>7. /\ Len(regs') = n + 1 /\ n \in Nat
      /\ \A k \in 1..n : Meanings(regs)'[k] = Meanings(regs)[k]
      /\ Meanings(regs)'[n + 1] = v[i]
  BY <1>1, <1>3, <1>5, MeaningsAppend
<1>8. v[i] \in Meaning /\ \A j \in DOMAIN p : p[j].op = p[i].op => v[j] = v[i]
  BY <1>1, <1>4, <1>6 DEF Reads
<1>9. Meanings(match[2])' = v
  BY <1>1 DEF Meanings
<1> HIDE DEF p, q, v, r, n
<1>10. Reads(q, Meanings(regs)', n + 1)
  <2>1. \A j \in 1..n : q[j].op = q[n + 1].op => Meanings(regs)[j] = v[i]
    BY <1>1, <1>3, <1>4, <1>6 DEF Agrees
  <2> DEFINE w == Meanings(regs)'
             u == Meanings(regs)
  <2>2. Reads(q, u, n) /\ (\A k \in 1..n : w[k] = u[k]) /\ w[n + 1] = v[i] /\ q[n + 1].op \in PatVar
    BY <1>1, <1>3, <1>6, <1>7
  <2>3. \A j \in 1..n : q[j].op = q[n + 1].op => u[j] = w[n + 1]
    BY <2>1, <2>2
  <2> HIDE DEF w, u
  <2>4. Reads(q, w, n + 1)
    BY <1>3, <1>7, <1>8, <2>2, <2>3, ReadsNext
  <2>5. QED
    BY <2>4 DEF w
<1>11. Agrees(p, v, q, Meanings(regs)', n + 1)
  <2>1. SUFFICES ASSUME NEW j \in DOMAIN p, NEW k \in 1..(n + 1), p[j].op \in PatVar, q[k].op = p[j].op
                 PROVE  Meanings(regs)'[k] = v[j]
    BY DEF Agrees
  <2>2. CASE k \in 1..n
    BY <1>6, <1>7, <2>1, <2>2 DEF Agrees
  <2>3. CASE k = n + 1
    BY <1>3, <1>4, <1>7, <1>8, <2>1, <2>3
  <2>4. QED
    BY <1>7, <2>2, <2>3
<1>12. MatchMeans'
  <2>1. MatchRead(match)'
    BY <1>1, <1>6, <1>9 DEF MatchRead, p
  <2>2. Reads(rules'[match'[1]].rhs, Meanings(regs)', Len(regs'))
    BY <1>1, <1>7, <1>10 DEF q
  <2>3. Agrees(rules'[match'[1]].lhs, Meanings(match[2])', rules'[match'[1]].rhs, Meanings(regs)', Len(regs'))
    BY <1>1, <1>7, <1>9, <1>11 DEF p, q
  <2>4. QED
    BY <2>1, <2>2, <2>3 DEF MatchMeans
<1>13. NodesMean' /\ ClassesMean' /\ TodoMeans' /\ LoadMeans' /\ RootsMean'
  BY <1>1 DEF MeaningOK, NodesMean, NodeMeans, ClassesMean, TodoMeans, MatchRead, Meanings, LoadMeans, RootsMean
<1>14. QED
  BY <1>12, <1>13 DEF MeaningOK

\* What the matches and the roots say does not depend on what was added.
LEMMA OthersGrow ==
  ASSUME SatOK, MeaningOK, \A i \in DOMAIN nodes : meaning'[i] = meaning[i],
         UNCHANGED <<rules, todo, roots, sides>>, phase # "idle"
  PROVE  TodoMeans' /\ RootsMean'
<1>1. TodoMeans'
  BY MatchGrows DEF SatOK, RunOK, MatchesOK, MeaningOK, TodoMeans
<1>2. roots \in Seq(DOMAIN nodes)
  BY DEF SatOK, RunOK, SidesOK
<1>3. \A k \in DOMAIN roots : roots[k] \in DOMAIN nodes
  BY <1>2
<1>4. QED
  BY <1>1, <1>3 DEF MeaningOK, RootsMean

\* The sort of a meaning is the sort of its operator.
LEMMA DenoteSort ==
  \A op, a : Denote(op, a).sort = SortOf(op)
BY DEF Denote

\* A node of one of the two sides.
LEMMA LoadNodeMeans ==
  ASSUME SatOK, MeaningOK, Believed, InsertNode, phase = "load"
  PROVE  MeaningOK'
<1> DEFINE e == sides[Len(roots) + 1]
           n == Len(regs)
           values == [k \in DOMAIN Current.args |-> meaning[regs[Current.args[k]]]]
<1>1. /\ Inserting /\ ~Inserted /\ Current.op \notin PatVar /\ GraphOK /\ RunOK
      /\ UNCHANGED <<sides, rules, phase, roots, todo, match>>
  BY DEF SatOK, InsertNode
<1>2. /\ Code = e /\ Current = e[n + 1] /\ n + 1 \in DOMAIN e /\ IsExpr(e) /\ regs \in Seq(DOMAIN nodes)
      /\ Len(roots) + 1 \in 1..2 /\ n \in Nat
  <2>1. Len(roots) = 0 \/ Len(roots) = 1
    BY <1>1 DEF RunOK, SidesOK
  <2>2. Len(roots) + 1 \in 1..2
    BY <2>1, \A k : k = 0 \/ k = 1 => k + 1 \in 1..2
  <2>3. Code = e
    BY DEF Code
  <2>4. regs \in Seq(DOMAIN nodes)
    BY <1>1 DEF RunOK, RegsOK
  <2>5. QED
    BY <1>1, <2>2, <2>3, <2>4, CurrentOK, CodeOK DEF Current
<1>3. \A j \in 1..n : meaning[regs[j]] = Evaluate(e)[j]
  BY <1>2 DEF MeaningOK, LoadMeans
<1>4. \A k \in DOMAIN Current.args : Current.args[k] \in 1..n
  BY <1>2 DEF IsExpr
<1>5. values = [k \in DOMAIN Current.args |-> Evaluate(e)[Current.args[k]]]
  BY <1>3, <1>4
<1>6. Denote(Current.op, values) = Evaluate(e)[n + 1]
  BY <1>2, <1>5, EvaluateAt DEF EvaluateNode
<1>7. WellSorted(e)
  BY <1>2 DEF Believed, GoalSorted
<1>8. Sorted(Current.op, values)
  <2>1. ASSUME NEW k \in DOMAIN Current.args PROVE values[k].sort = ChildSort(Current.op)
    <3>1. Current.args[k] \in DOMAIN e
      BY <1>2, <1>4 DEF IsExpr
    <3>2. values[k] = EvaluateNode(e, Evaluate(e), Current.args[k])
      BY <1>2, <1>5, <3>1, EvaluateAt
    <3>3. values[k].sort = SortOf(e[Current.args[k]].op)
      BY <3>2, DenoteSort DEF EvaluateNode
    <3>4. QED
      BY <1>2, <1>7, <3>3 DEF WellSorted
  <2>2. QED
    BY <2>1 DEF Sorted
<1>9. /\ NodesMean' /\ ClassesMean'
      /\ \A i \in DOMAIN nodes : meaning'[i] = meaning[i]
      /\ \E r \in DOMAIN nodes' : regs' = Append(regs, r) /\ meaning'[r] = Denote(Current.op, values)
  BY <1>8, InsertMeans DEF MeaningOK
<1>10. PICK r \in DOMAIN nodes' : regs' = Append(regs, r) /\ meaning'[r] = Denote(Current.op, values)
  BY <1>9
<1> HIDE DEF e, n, values
<1>11. /\ DOMAIN regs' = 1..(n + 1)
       /\ \A k \in 1..n : regs'[k] = regs[k] /\ regs[k] \in DOMAIN nodes
       /\ regs'[n + 1] = r
  BY <1>2, <1>10 DEF n
<1>12. \A j \in DOMAIN regs' : meaning'[regs'[j]] = Evaluate(e)[j]
  <2>1. \A j \in 1..n : meaning'[regs'[j]] = Evaluate(e)[j]
    BY <1>3, <1>9, <1>11
  <2>2. meaning'[regs'[n + 1]] = Evaluate(e)[n + 1]
    BY <1>6, <1>10, <1>11
  <2>3. \A j \in 1..(n + 1) : j \in 1..n \/ j = n + 1
    BY <1>2
  <2>4. QED
    BY <1>11, <2>1, <2>2, <2>3
<1>13. LoadMeans'
  BY <1>1, <1>12 DEF LoadMeans, Code, e
<1>14. MatchMeans'
  BY <1>1 DEF MatchMeans
<1>15. TodoMeans' /\ RootsMean'
  BY <1>1, <1>9, OthersGrow
<1>16. QED
  BY <1>9, <1>13, <1>14, <1>15 DEF MeaningOK

\* A node of the right side of the rule whose match is applied.
LEMMA BuildNodeMeans ==
  ASSUME SatOK, MeaningOK, Believed, InsertNode, phase = "instantiate"
  PROVE  MeaningOK'
<1> DEFINE p == rules[match[1]].lhs
           q == rules[match[1]].rhs
           v == Meanings(match[2])
           u == Meanings(regs)
           w == Meanings(regs)'
           n == Len(regs)
           values == [k \in DOMAIN Current.args |-> meaning[regs[Current.args[k]]]]
<1>1. /\ Inserting /\ ~Inserted /\ Current.op \notin PatVar /\ GraphOK /\ RunOK /\ MatchOK(match)
      /\ UNCHANGED <<sides, rules, phase, roots, todo, match>>
  BY DEF SatOK, InsertNode, RunOK, MatchesOK
<1>2. /\ Code = q /\ Current = q[n + 1] /\ n + 1 \in DOMAIN q /\ IsExpr(q)
      /\ regs \in Seq(DOMAIN nodes) /\ n \in Nat
  BY <1>1, CurrentOK, CodeOK DEF Code, Current, Inserting, RunOK, RegsOK
<1>3. /\ Reads(p, v, Len(p)) /\ Reads(q, u, n) /\ Agrees(p, v, q, u, n)
      /\ SoundRule(p, q)
  BY <1>1 DEF MeaningOK, MatchMeans, MatchRead, MatchOK, Believed, SoundRules
<1>4. values = ChildValues(q, u, n + 1)
  <2>1. \A k \in DOMAIN Current.args : Current.args[k] \in DOMAIN regs
    BY <1>2 DEF IsExpr
  <2>2. QED
    BY <1>2, <2>1 DEF ChildValues, Meanings
<1>5. Sorted(Current.op, values)
  <2> HIDE DEF p, q, v, u, w, n, values
  <2>1. Sorted(q[n + 1].op, ChildValues(q, u, n + 1))
    BY <1>1, <1>2, <1>3, NextSorted
  <2>2. QED
    BY <1>2, <1>4, <2>1
<1>6. /\ NodesMean' /\ ClassesMean'
      /\ \A i \in DOMAIN nodes : meaning'[i] = meaning[i]
      /\ \E r \in DOMAIN nodes' : regs' = Append(regs, r) /\ meaning'[r] = Denote(Current.op, values)
  BY <1>5, InsertMeans DEF MeaningOK
<1>7. PICK r \in DOMAIN nodes' : regs' = Append(regs, r) /\ meaning'[r] = Denote(Current.op, values)
  BY <1>6
<1>8. /\ Len(regs') = n + 1
      /\ \A k \in 1..n : w[k] = u[k]
      /\ w[n + 1] = Denote(Current.op, values)
  BY <1>2, <1>6, <1>7, MeaningsAppend
<1>9. w[n + 1] \in Meaning
  <2>1. /\ Current.op \in Op \cup Symbol /\ Len(Current.args) = Arity(Current.op)
        /\ Current.args \in Seq(1..n)
        /\ \A k \in DOMAIN Current.args : regs[Current.args[k]] \in DOMAIN nodes
    BY <1>1, ChildrenOK, CurrentOK DEF SatOK
  <2>2. \A k \in DOMAIN Current.args : meaning[regs[Current.args[k]]] \in Loose
    BY <1>1, <2>1 DEF GraphOK
  <2>3. values \in Seq(Loose) /\ Len(values) = Arity(Current.op)
    BY <2>1, <2>2
  <2> HIDE DEF values
  <2>4. QED
    BY <1>8, <2>1, <2>3, DenoteTyped
<1>10. Meanings(match[2])' = v /\ MatchRead(match)'
  BY <1>1, <1>3, <1>6, MatchGrows DEF MatchRead
<1> HIDE DEF p, q, v, u, w, n, values
<1>11. Reads(q, w, n + 1)
  BY <1>1, <1>2, <1>3, <1>4, <1>5, <1>8, <1>9, ReadsNext
<1>12. Agrees(p, v, q, w, n + 1)
  <2>1. \A k \in 1..(n + 1) : k \in 1..n \/ k = n + 1
    BY <1>2
  <2>2. q[n + 1].op \notin PatVar
    BY <1>1, <1>2
  <2>3. QED
    BY <1>3, <1>8, <2>1, <2>2 DEF Agrees
<1>13. MatchMeans'
  BY <1>1, <1>8, <1>10, <1>11, <1>12 DEF MatchMeans, p, q, w, v
<1>14. LoadMeans'
  BY <1>1 DEF LoadMeans
<1>15. TodoMeans' /\ RootsMean'
  BY <1>1, <1>6, OthersGrow
<1>16. QED
  BY <1>6, <1>13, <1>14, <1>15 DEF MeaningOK

\* The root of a loaded side means what the side means.
LEMMA LoadedMeans ==
  ASSUME SatOK, MeaningOK, Believed, Loaded
  PROVE  MeaningOK'
<1>1. /\ phase = "load" /\ Len(regs) = Len(Code) /\ roots' = Append(roots, Last(regs)) /\ regs' = <<>>
      /\ RunOK /\ UNCHANGED <<nodes, rep, meaning, sides, rules, todo, match>>
      /\ phase' \in {"load", "search"}
  BY DEF Loaded, Inserted, graphVars, SatOK
<1>2. /\ roots \in Seq(DOMAIN nodes) /\ regs \in Seq(DOMAIN nodes) /\ Code = sides[Len(roots) + 1]
  BY <1>1 DEF RunOK, SidesOK, RegsOK, Code
<1>3. IsExpr(Code) /\ Code # <<>>
  BY <1>1, CodeOK
<1>4. Len(Code) \in DOMAIN regs
  BY <1>1, <1>2, <1>3 DEF IsExpr
<1>5. meaning[Last(regs)] = Last(Evaluate(Code))
  BY <1>1, <1>3, <1>4, EvaluateAt DEF MeaningOK, LoadMeans, Last
<1>6. RootsMean'
  <2>1. /\ DOMAIN roots' = 1..(Len(roots) + 1) /\ DOMAIN roots = 1..Len(roots)
        /\ roots'[Len(roots) + 1] = Last(regs) /\ \A k \in 1..Len(roots) : roots'[k] = roots[k]
    BY <1>1, <1>2
  <2>2. \A k \in 1..(Len(roots) + 1) : k \in 1..Len(roots) \/ k = Len(roots) + 1
    BY <1>2
  <2>3. QED
    BY <1>1, <1>2, <1>5, <2>1, <2>2 DEF MeaningOK, RootsMean
<1>7. LoadMeans' /\ MatchMeans'
  BY <1>1 DEF LoadMeans, MatchMeans
<1>8. NodesMean' /\ ClassesMean' /\ TodoMeans'
  BY <1>1 DEF MeaningOK, NodesMean, NodeMeans, ClassesMean, TodoMeans, MatchRead, Meanings
<1>9. QED
  BY <1>6, <1>7, <1>8 DEF MeaningOK

\* A match found in the e-graph reads the pattern.
LEMMA MatchReads ==
  ASSUME GraphOK, NodesMean, ClassesMean, NEW p, NEW q, WellFormed(p, q), NEW m \in Matches(p)
  PROVE  Reads(p, Meanings(m), Len(p))
<1>1. m \in [DOMAIN p -> DOMAIN nodes] /\ IsMatch(p, m)
  BY MatchesTyped DEF Matches
<1>2. DOMAIN p = 1..Len(p) /\ IsExpr(p)
  BY DEF WellFormed, IsExpr
<1>3. \A i \in DOMAIN p : Meanings(m)[i] = meaning[m[i]] /\ Meanings(m)[i] \in Meaning
  BY <1>1, MeaningsTyped DEF Meanings
<1>4. ASSUME NEW i \in DOMAIN p, p[i].op \in PatVar, NEW j \in DOMAIN p, p[j].op = p[i].op
      PROVE  Meanings(m)[j] = Meanings(m)[i]
  BY <1>1, <1>3, <1>4 DEF IsMatch
<1>5. ASSUME NEW i \in DOMAIN p, p[i].op \notin PatVar
      PROVE  /\ Sorted(p[i].op, ChildValues(p, Meanings(m), i))
             /\ Meanings(m)[i] = Denote(p[i].op, ChildValues(p, Meanings(m), i))
  <2> DEFINE below == [k \in DOMAIN p[i].args |-> m[p[i].args[k]]]
  <2>1. PICK n \in Known(p[i].op, below) : rep[n] = m[i]
    BY <1>1, <1>5 DEF IsMatch
  <2>2. /\ n \in DOMAIN nodes /\ nodes[n].op = p[i].op
        /\ [k \in DOMAIN nodes[n].args |-> rep[nodes[n].args[k]]] = below
    BY <2>1 DEF Known, Congruent
  <2>3. \A k \in DOMAIN p[i].args : p[i].args[k] \in DOMAIN p
    BY <1>2 DEF IsExpr
  <2>4. \A k \in DOMAIN nodes[n].args : nodes[n].args[k] \in DOMAIN nodes
    BY <2>2 DEF GraphOK, NodeOK
  <2>5. /\ DOMAIN nodes[n].args = DOMAIN p[i].args
        /\ \A k \in DOMAIN p[i].args : rep[nodes[n].args[k]] = m[p[i].args[k]]
    BY <2>2
  <2>6. Meanings(nodes[n].args) = ChildValues(p, Meanings(m), i)
    <3>1. \A k \in DOMAIN p[i].args : meaning[nodes[n].args[k]] = Meanings(m)[p[i].args[k]]
      BY <1>3, <2>3, <2>4, <2>5 DEF ClassesMean
    <3>2. QED
      BY <2>5, <3>1 DEF Meanings, ChildValues
  <2>7. meaning[m[i]] = meaning[n] /\ NodeMeans(n)
    BY <2>1, <2>2 DEF ClassesMean, NodesMean
  <2>8. QED
    BY <1>3, <2>2, <2>6, <2>7 DEF NodeMeans
<1>6. QED
  BY <1>2, <1>3, <1>4, <1>5 DEF Reads

\* The matches a search finds read the left side of their rule.
LEMMA SearchMeans ==
  ASSUME SatOK, MeaningOK, Believed, Search
  PROVE  MeaningOK'
<1>1. phase' = "apply" /\ UNCHANGED <<nodes, rep, meaning, sides, rules, roots, regs>>
  BY DEF Search, graphVars
<1>2. \A t \in todo' : MatchRead(t)
  <2>1. SUFFICES ASSUME NEW r \in DOMAIN rules, NEW m \in Matches(rules[r].lhs)
                 PROVE  MatchRead(<<r, m>>)
    BY DEF Search
  <2>2. WellFormed(rules[r].lhs, rules[r].rhs)
    BY DEF SatOK, RunOK, RulesOK, RuleOK
  <2>3. QED
    BY <2>2, MatchReads DEF SatOK, MeaningOK, MatchRead
<1>3. TodoMeans'
  BY <1>1, <1>2 DEF TodoMeans, MatchRead, Meanings
<1>4. NodesMean' /\ ClassesMean' /\ MatchMeans' /\ LoadMeans' /\ RootsMean'
  BY <1>1 DEF MeaningOK, NodesMean, NodeMeans, Meanings, ClassesMean, MatchMeans, LoadMeans, RootsMean
<1>5. QED
  BY <1>3, <1>4 DEF MeaningOK

\* A match that is taken still reads the left side of its rule.
LEMMA TakeMatchMeans ==
  ASSUME SatOK, MeaningOK, Believed, TakeMatch
  PROVE  MeaningOK'
<1>1. /\ phase' = "instantiate" /\ regs' = <<>> /\ match' = NextMatch /\ todo' \subseteq todo /\ todo # {}
      /\ UNCHANGED <<nodes, rep, meaning, sides, rules, roots>>
  BY DEF TakeMatch, graphVars
<1>2. MatchRead(match')
  BY <1>1, NextMatchExists DEF SatOK, MeaningOK, TodoMeans
<1>3. MatchRead(match)'
  BY <1>1, <1>2 DEF MatchRead, Meanings
<1>4. MatchMeans'
  BY <1>1, <1>3 DEF MatchMeans, Reads, Agrees
<1>5. NodesMean' /\ ClassesMean' /\ TodoMeans' /\ LoadMeans' /\ RootsMean'
  BY <1>1 DEF MeaningOK, NodesMean, NodeMeans, Meanings, ClassesMean, TodoMeans, MatchRead, LoadMeans, RootsMean
<1>6. QED
  BY <1>4, <1>5 DEF MeaningOK

\* The union of an applied match: both sides of a sound rule mean the same.
LEMMA UnionMeans ==
  ASSUME SatOK, MeaningOK, Believed, Union
  PROVE  MeaningOK'
<1> DEFINE p == rules[match[1]].lhs
           q == rules[match[1]].rhs
<1>1. /\ phase = "instantiate" /\ Inserted /\ phase' = "apply" /\ Merge(Last(match[2]), Last(regs))
      /\ UNCHANGED <<nodes, meaning, sides, rules, roots, todo, match, regs>>
      /\ RunOK /\ GraphOK /\ MatchOK(match)
  BY DEF Union, SatOK, RunOK, MatchesOK
<1>2. /\ Last(match[2]) = match[2][Len(p)] /\ Last(match[2]) \in DOMAIN nodes /\ Len(p) \in DOMAIN match[2]
      /\ Last(regs) = regs[Len(q)] /\ Last(regs) \in DOMAIN nodes /\ Len(q) \in DOMAIN regs
      /\ Len(regs) = Len(q)
  BY <1>1, UnionSides DEF MatchOK
<1>3. /\ Reads(p, Meanings(match[2]), Len(p)) /\ Reads(q, Meanings(regs), Len(q))
      /\ Agrees(p, Meanings(match[2]), q, Meanings(regs), Len(q))
      /\ Preserves(p, q)
  BY <1>1, <1>2 DEF MeaningOK, MatchMeans, MatchRead, MatchOK, Believed, SoundRules, SoundRule
<1>4. Meanings(regs)[Len(q)] = Meanings(match[2])[Len(p)]
  <2> HIDE DEF p, q
  <2>1. QED
    BY <1>3 DEF Preserves
<1>5. meaning[Last(match[2])] = meaning[Last(regs)]
  BY <1>2, <1>4 DEF Meanings
<1>6. ClassesMean'
  BY <1>1, <1>2, <1>5, MergeMeans DEF MeaningOK
<1>7. NodesMean' /\ TodoMeans' /\ MatchMeans' /\ LoadMeans' /\ RootsMean'
  BY <1>1 DEF MeaningOK, NodesMean, NodeMeans, Meanings, TodoMeans, MatchRead, MatchMeans, LoadMeans, RootsMean
<1>8. QED
  BY <1>6, <1>7 DEF MeaningOK

\* The union of two congruent nodes.
LEMMA RebuildMeans ==
  ASSUME SatOK, MeaningOK, Believed, Rebuild
  PROVE  MeaningOK'
<1>1. GraphOK /\ UNCHANGED <<nodes, meaning, sides, rules, phase, roots, todo, match, regs>>
  BY DEF SatOK, Rebuild, runVars
<1>2. PICK x \in Apart : Merge(x[1], x[2])
  BY RebuildOK
<1>3. /\ x[1] \in DOMAIN nodes /\ x[2] \in DOMAIN nodes /\ nodes[x[1]].op = nodes[x[2]].op
      /\ \A k \in DOMAIN nodes[x[1]].args : Same(nodes[x[1]].args[k], nodes[x[2]].args[k])
  BY <1>2 DEF Apart
<1>4. Meanings(nodes[x[1]].args) = Meanings(nodes[x[2]].args)
  <2>1. DOMAIN nodes[x[1]].args = DOMAIN nodes[x[2]].args
    <3>1. /\ nodes[x[1]].args \in Seq(Nat) /\ nodes[x[2]].args \in Seq(Nat)
          /\ Len(nodes[x[1]].args) = Len(nodes[x[2]].args)
      <4>1. nodes[x[1]] \in TermNode /\ nodes[x[2]] \in TermNode /\ NodeOK(x[1]) /\ NodeOK(x[2])
        BY <1>1, <1>3 DEF GraphOK
      <4>2. QED
        BY <4>1, <1>3 DEF NodeOK, TermNode
    <3>2. QED
      BY <3>1
  <2>2. ASSUME NEW k \in DOMAIN nodes[x[1]].args
        PROVE  meaning[nodes[x[1]].args[k]] = meaning[nodes[x[2]].args[k]]
    <3>1. nodes[x[1]].args[k] \in DOMAIN nodes /\ nodes[x[2]].args[k] \in DOMAIN nodes
      BY <1>1, <1>3, <2>1 DEF GraphOK, NodeOK
    <3>2. rep[nodes[x[1]].args[k]] = rep[nodes[x[2]].args[k]]
      BY <1>3 DEF Same
    <3>3. QED
      BY <3>1, <3>2 DEF MeaningOK, ClassesMean
  <2>3. QED
    BY <2>1, <2>2 DEF Meanings
<1>5. meaning[x[1]] = meaning[x[2]]
  BY <1>3, <1>4 DEF MeaningOK, NodesMean, NodeMeans
<1>6. ClassesMean'
  BY <1>1, <1>2, <1>3, <1>5, MergeMeans DEF MeaningOK
<1>7. NodesMean' /\ TodoMeans' /\ MatchMeans' /\ LoadMeans' /\ RootsMean'
  BY <1>1 DEF MeaningOK, NodesMean, NodeMeans, Meanings, TodoMeans, MatchRead, MatchMeans, LoadMeans, RootsMean, Code
<1>8. QED
  BY <1>6, <1>7 DEF MeaningOK

\* The steps that only move on.
LEMMA MoveMeans ==
  ASSUME MeaningOK, CutShort \/ EndApply \/ EndIteration
  PROVE  MeaningOK'
<1>1. /\ UNCHANGED <<nodes, rep, meaning, sides, rules, roots, match, regs>> /\ todo' \subseteq todo
      /\ phase' \notin {"load", "instantiate"}
  BY DEF CutShort, EndApply, EndIteration, graphVars
<1>2. NodesMean' /\ ClassesMean' /\ TodoMeans' /\ MatchMeans' /\ LoadMeans' /\ RootsMean'
  BY <1>1 DEF MeaningOK, NodesMean, NodeMeans, Meanings, ClassesMean, TodoMeans, MatchRead, MatchMeans,
              LoadMeans, RootsMean
<1>3. QED
  BY <1>2 DEF MeaningOK

\* A step of the run keeps every class to one meaning.
LEMMA SatStepMeans ==
  ASSUME SatOK, MeaningOK, Believed, SatStep
  PROVE  MeaningOK'
<1>1. CASE InsertNode
  <2>1. phase \in {"load", "instantiate"}
    BY <1>1 DEF InsertNode, Inserting
  <2>2. QED
    BY <1>1, <2>1, LoadNodeMeans, BuildNodeMeans
<1>2. QED
  BY <1>1, TakeVariableMeans, LoadedMeans, SearchMeans, TakeMatchMeans, UnionMeans, RebuildMeans,
     MoveMeans DEF SatStep

\* An empty graph means nothing wrong.
LEMMA NothingMeans ==
  ASSUME Drop \/ \E l, r, rs : Compare(l, r, rs)
  PROVE  MeaningOK'
BY DEF Drop, Compare, MeaningOK, NodesMean, ClassesMean, TodoMeans, MatchMeans, LoadMeans, RootsMean

\* The sides and the rules are those the run started with.
LEMMA SatStepKeeps ==
  ASSUME SatOK, SatStep
  PROVE  UNCHANGED <<sides, rules>> /\ phase # "idle" /\ phase' # "idle"
<1>1. UNCHANGED <<sides, rules>>
  BY DEF SatStep, TakeVariable, InsertNode, Loaded, Search, TakeMatch, CutShort, Union, EndApply,
         Rebuild, EndIteration, runVars
<1>2. phase # "idle" /\ phase' # "idle"
  BY DEF SatStep, TakeVariable, InsertNode, Loaded, Search, TakeMatch, CutShort, Union, EndApply,
         Rebuild, EndIteration, runVars, Inserting
<1>3. QED
  BY <1>1, <1>2

\* What saturation proves equal means the same.
LEMMA ProvedIsValid ==
  ASSUME SatOK, MeaningOK, ProvedEqual
  PROVE  Valid(sides[1], sides[2])
<1>1. roots \in Seq(DOMAIN nodes) /\ Len(roots) = 2
  BY DEF SatOK, RunOK, SidesOK, ProvedEqual
<1>2. roots[1] \in DOMAIN nodes /\ roots[2] \in DOMAIN nodes /\ 1 \in DOMAIN roots /\ 2 \in DOMAIN roots
  BY <1>1
<1>3. rep[roots[1]] = rep[roots[2]]
  BY DEF ProvedEqual, Same
<1>4. meaning[roots[1]] = meaning[roots[2]]
  BY <1>2, <1>3 DEF MeaningOK, ClassesMean
<1>5. QED
  BY <1>2, <1>4 DEF MeaningOK, RootsMean, Valid
=============================================================================
