---------------------------- MODULE TacticProofs ----------------------------
(***************************************************************************)
(* The tactic engine, for every goal, tactic, symbol and assignment and    *)
(* for every limit of the runner: it keeps the types of its variables,     *)
(* every class of the e-graph has one meaning unless an induction          *)
(* hypothesis is among the rules, and what is discharged by saturation, or *)
(* by the solver on aligned symbols, is valid.                             *)
(***************************************************************************)
EXTENDS Tactic, SaturationProofs

-----------------------------------------------------------------------------
(* The SMT backend. Translation through a cache that holds what the nodes  *)
(* mean keeps their meaning, so an obligation without a counterexample is  *)
(* valid, unless a node of the right side is hidden in that cache.         *)

BuiltTo(e, cache, m, n) == m = [i \in 1..n |-> BuildNode(e, cache, m, i)]

\* The assignment w of integers is the assignment v.
SameAssignment(v, w) == \A s \in Symbol : IntValue[s][w] = SymbolValue[s][v]

\* The first n nodes of an expression can be translated, for every n: the least
\* n for which they cannot does not exist.
LEMMA BuildUpTo ==
  ASSUME NEW e, IsExpr(e), NEW cache
  PROVE  \A n \in 0..Len(e) : \E m : BuiltTo(e, cache, m, n)
<1> DEFINE T == {n \in 0..Len(e) : ~ \E m : BuiltTo(e, cache, m, n)}
<1>1. SUFFICES ASSUME T # {} PROVE FALSE
  OBVIOUS
<1>2. Len(e) \in Nat
  BY DEF IsExpr
<1>3. PICK n \in T : \A y \in T : n <= y
  <2>1. T \in SUBSET Nat
    BY <1>2
  <2> HIDE DEF T
  <2>2. QED
    BY <1>1, <2>1, LeastNat
<1>4. n # 0
  <2>1. BuiltTo(e, cache, <<>>, 0)
    BY DEF BuiltTo
  <2>2. QED
    BY <2>1, <1>3
<1>5. n \in 1..Len(e) /\ n - 1 \in 0..Len(e) /\ n - 1 \notin T
  BY <1>2, <1>3, <1>4
<1>6. PICK m : BuiltTo(e, cache, m, n - 1)
  BY <1>5
<1> DEFINE f == [i \in 1..n |-> IF i = n THEN BuildNode(e, cache, m, n) ELSE m[i]]
<1>7. ASSUME NEW i \in 1..n PROVE BuildNode(e, cache, f, i) = BuildNode(e, cache, m, i)
  <2>1. \A k \in DOMAIN e[i].args : e[i].args[k] \in 1..(i - 1)
    BY <1>5 DEF IsExpr
  <2>2. \A k \in DOMAIN e[i].args : f[e[i].args[k]] = m[e[i].args[k]]
    BY <1>5, <2>1
  <2> HIDE DEF f
  <2>3. IntCompute(e, f, i) = IntCompute(e, m, i)
    <3>1. ASSUME NEW v
          PROVE  [k \in DOMAIN e[i].args |-> f[e[i].args[k]][v]]
                   = [k \in DOMAIN e[i].args |-> m[e[i].args[k]][v]]
      BY <2>2
    <3>2. QED
      BY <3>1, Zenon DEF IntCompute
  <2>4. QED
    BY <2>3 DEF BuildNode
<1>8. \A i \in 1..n : f[i] = BuildNode(e, cache, m, i)
  BY <1>5, <1>6 DEF BuiltTo
<1>9. BuiltTo(e, cache, f, n)
  <2>1. \A i \in 1..n : f[i] = BuildNode(e, cache, f, i)
    BY <1>7, <1>8
  <2>2. f = [i \in 1..n |-> f[i]]
    OBVIOUS
  <2> HIDE DEF f
  <2>3. QED
    BY <2>1, <2>2 DEF BuiltTo
<1>10. QED
  BY <1>3, <1>9

\* Build is defined for every expression and cache.
LEMMA BuildIs ==
  ASSUME NEW e, IsExpr(e), NEW cache
  PROVE  Build(e, cache) = [i \in DOMAIN e |-> BuildNode(e, cache, Build(e, cache), i)]
<1>1. DOMAIN e = 1..Len(e) /\ Len(e) \in 0..Len(e)
  BY DEF IsExpr
<1>2. PICK m : BuiltTo(e, cache, m, Len(e))
  BY <1>1, BuildUpTo
<1>3. m = [i \in DOMAIN e |-> BuildNode(e, cache, m, i)]
  BY <1>1, <1>2 DEF BuiltTo
<1>4. QED
  BY <1>3 DEF Build

\* The translation of a node, and the one of the root.
LEMMA BuildAt ==
  ASSUME NEW e, IsExpr(e), NEW cache
  PROVE  /\ DOMAIN Build(e, cache) = DOMAIN e
         /\ \A i \in DOMAIN e : Build(e, cache)[i] = BuildNode(e, cache, Build(e, cache), i)
         /\ Last(Build(e, cache)) = Build(e, cache)[Len(e)]
<1>1. /\ DOMAIN Build(e, cache) = DOMAIN e
      /\ \A i \in DOMAIN e : Build(e, cache)[i] = BuildNode(e, cache, Build(e, cache), i)
  BY BuildIs
<1>2. DOMAIN e = 1..Len(e) /\ Len(e) \in Nat
  BY DEF IsExpr
<1>3. Build(e, cache) \in [1..Len(e) -> {Build(e, cache)[i] : i \in 1..Len(e)}]
  BY <1>2, BuildIs
<1>4. Len(Build(e, cache)) = Len(e)
  BY <1>2, <1>3
<1>5. QED
  BY <1>1, <1>4 DEF Last

\* The value of a node of a term under an assignment: that of the symbol, or
\* what the operator computes from the values of the children.
LEMMA ValueAt ==
  ASSUME NEW e, IsTerm(e), NEW i \in DOMAIN e, NEW v \in Env
  PROVE  Evaluate(e)[i].at[v]
           = IF e[i].op \in Symbol THEN SymbolValue[e[i].op][v]
             ELSE Compute(e[i].op, [k \in DOMAIN e[i].args |-> Evaluate(e)[e[i].args[k]].at[v]])
<1> DEFINE a == [k \in DOMAIN e[i].args |-> Evaluate(e)[e[i].args[k]]]
           x == [k \in DOMAIN e[i].args |-> Evaluate(e)[e[i].args[k]].at[v]]
<1>1. Evaluate(e)[i] = Denote(e[i].op, a)
  BY EvaluateAt DEF IsTerm, EvaluateNode
<1>2. x = [k \in DOMAIN a |-> a[k].at[v]]
  OBVIOUS
<1> HIDE DEF a, x
<1>3. Evaluate(e)[i].at[v]
        = IF e[i].op \in Symbol THEN SymbolValue[e[i].op][v] ELSE Compute(e[i].op, x)
  BY <1>1, <1>2 DEF Denote
<1>4. QED
  BY <1>3, Zenon DEF x

\* With a cache that holds the values of the nodes, the translation of a node
\* has the value of the node.
LEMMA BuildMeans ==
  ASSUME NEW e, IsTerm(e), NEW cache, NEW v \in Env, NEW w \in IntEnv, SameAssignment(v, w),
         \A i \in DOMAIN cache \cap DOMAIN e : cache[i][w] = Evaluate(e)[i].at[v]
  PROVE  \A i \in DOMAIN e : Build(e, cache)[i][w] = Evaluate(e)[i].at[v]
<1> DEFINE b == Build(e, cache)
           T == {i \in DOMAIN e : b[i][w] # Evaluate(e)[i].at[v]}
<1>1. SUFFICES ASSUME T # {} PROVE FALSE
  OBVIOUS
<1>2. IsExpr(e) /\ DOMAIN e = 1..Len(e) /\ Len(e) \in Nat
  BY DEF IsTerm, IsExpr
<1>3. PICK n \in T : \A y \in T : n <= y
  <2>1. T \in SUBSET Nat
    BY <1>2
  <2> HIDE DEF T
  <2>2. QED
    BY <1>1, <2>1, LeastNat
<1>4. n \in DOMAIN e /\ b[n] = BuildNode(e, cache, b, n)
  BY <1>2, BuildAt
<1>5. CASE n \in DOMAIN cache
  BY <1>3, <1>4, <1>5 DEF BuildNode
<1>6. CASE n \notin DOMAIN cache
  <2>1. b[n] = IntCompute(e, b, n)
    BY <1>4, <1>6 DEF BuildNode
  <2> DEFINE x == [k \in DOMAIN e[n].args |-> b[e[n].args[k]][w]]
             y == [k \in DOMAIN e[n].args |-> Evaluate(e)[e[n].args[k]].at[v]]
  <2>2. b[n][w] = IF e[n].op \in Symbol THEN IntValue[e[n].op][w] ELSE Compute(e[n].op, x)
    BY <2>1 DEF IntCompute
  <2>3. Evaluate(e)[n].at[v] = IF e[n].op \in Symbol THEN SymbolValue[e[n].op][v]
                               ELSE Compute(e[n].op, y)
    BY <1>4, ValueAt
  <2>4. x = y
    <3>1. ASSUME NEW k \in DOMAIN e[n].args
          PROVE  b[e[n].args[k]][w] = Evaluate(e)[e[n].args[k]].at[v]
      <4>1. e[n].args[k] \in 1..(n - 1)
        BY <1>2, <1>4 DEF IsExpr
      <4>2. e[n].args[k] \in DOMAIN e /\ ~(n <= e[n].args[k])
        BY <1>2, <1>4, <4>1
      <4>3. QED
        BY <1>3, <4>2
    <3>2. QED
      BY <3>1
  <2> HIDE DEF x, y
  <2>5. b[n][w] = Evaluate(e)[n].at[v]
    BY <2>2, <2>3, <2>4 DEF SameAssignment
  <2>6. QED
    BY <1>3, <2>5
<1>7. QED
  BY <1>5, <1>6

\* Two terms that agree where both are defined mean the same there.
LEMMA AlignedMeans ==
  ASSUME NEW l, NEW r, IsTerm(l), IsTerm(r), Aligned(l, r)
  PROVE  \A i \in DOMAIN l \cap DOMAIN r : Evaluate(l)[i] = Evaluate(r)[i]
<1> DEFINE T == {i \in DOMAIN l \cap DOMAIN r : Evaluate(l)[i] # Evaluate(r)[i]}
<1>1. SUFFICES ASSUME T # {} PROVE FALSE
  OBVIOUS
<1>2. /\ IsExpr(l) /\ DOMAIN l = 1..Len(l) /\ Len(l) \in Nat
      /\ IsExpr(r) /\ DOMAIN r = 1..Len(r) /\ Len(r) \in Nat
  BY DEF IsTerm, IsExpr
<1>3. PICK n \in T : \A y \in T : n <= y
  <2>1. T \in SUBSET Nat
    BY <1>2
  <2> HIDE DEF T
  <2>2. QED
    BY <1>1, <2>1, LeastNat
<1>4. n \in DOMAIN l /\ n \in DOMAIN r /\ l[n] = r[n]
  BY DEF Aligned
<1>5. /\ Evaluate(l)[n] = EvaluateNode(l, Evaluate(l), n)
      /\ Evaluate(r)[n] = EvaluateNode(r, Evaluate(r), n)
  BY <1>2, <1>4, EvaluateAt
<1>6. ASSUME NEW k \in DOMAIN l[n].args
      PROVE  Evaluate(l)[l[n].args[k]] = Evaluate(r)[l[n].args[k]]
  <2>1. l[n].args[k] \in 1..(n - 1)
    BY <1>2, <1>4 DEF IsExpr
  <2>2. l[n].args[k] \in DOMAIN l \cap DOMAIN r /\ ~(n <= l[n].args[k])
    BY <1>2, <1>4, <2>1
  <2>3. QED
    BY <1>3, <2>2
<1>7. EvaluateNode(l, Evaluate(l), n) = EvaluateNode(r, Evaluate(r), n)
  BY <1>4, <1>6 DEF EvaluateNode
<1>8. QED
  BY <1>3, <1>5, <1>7

\* The values of a node are a function of the assignments.
LEMMA ValuesAreOverEnv ==
  ASSUME NEW e, IsTerm(e), NEW i \in DOMAIN e
  PROVE  /\ Evaluate(e)[i] = [sort |-> SortOf(e[i].op), at |-> Evaluate(e)[i].at]
         /\ Evaluate(e)[i].at = [v \in Env |-> Evaluate(e)[i].at[v]]
<1> DEFINE a == [k \in DOMAIN e[i].args |-> Evaluate(e)[e[i].args[k]]]
<1>1. Evaluate(e)[i] = Denote(e[i].op, a)
  BY EvaluateAt DEF IsTerm, EvaluateNode
<1> HIDE DEF a
<1>2. Evaluate(e)[i] = [sort |-> SortOf(e[i].op), at |-> Evaluate(e)[i].at]
  BY <1>1 DEF Denote
<1>3. CASE e[i].op \in Symbol
  <2>1. Evaluate(e)[i].at = SymbolValue[e[i].op]
    BY <1>1, <1>3 DEF Denote
  <2>2. SymbolValue[e[i].op] \in [Env -> IF SymbolSort[e[i].op] = "Bool" THEN {0, 1} ELSE Nat]
    BY <1>3, SymbolAssumption
  <2>3. QED
    BY <1>2, <2>1, <2>2
<1>4. CASE e[i].op \notin Symbol
  BY <1>1, <1>2, <1>4 DEF Denote
<1>5. QED
  BY <1>3, <1>4

\* An answer "ok" about sides of one sort, no node of which is hidden by a
\* different one, is right: Z3 has looked for a counterexample everywhere.
LEMMA OkIsValid ==
  ASSUME NEW l, NEW r, IsTerm(l), IsTerm(r), l # <<>>, r # <<>>, Aligned(l, r),
         SortOf(Last(l).op) = SortOf(Last(r).op), "ok" \in SmtAnswers(l, r)
  PROVE  Valid(l, r)
<1> DEFINE lb == Build(l, <<>>)
           rb == Build(r, lb)
<1>1. /\ IsExpr(l) /\ DOMAIN l = 1..Len(l) /\ Len(l) \in Nat /\ Len(l) \in DOMAIN l
      /\ IsExpr(r) /\ DOMAIN r = 1..Len(r) /\ Len(r) \in Nat /\ Len(r) \in DOMAIN r
  BY DEF IsTerm, IsExpr
<1>2. ~Differ(SidesBuilt(l, r))
  BY DEF SmtAnswers
<1>3. \A w \in IntEnv : lb[Len(l)][w] = rb[Len(r)][w]
  BY <1>1, <1>2, BuildAt DEF Differ, SidesBuilt
<1>4. ASSUME NEW v \in Env
      PROVE  Evaluate(l)[Len(l)].at[v] = Evaluate(r)[Len(r)].at[v]
  <2>1. PICK w \in IntEnv : SameAssignment(v, w)
    BY IntAssumption DEF SameAssignment
  <2>2. \A i \in DOMAIN l : lb[i][w] = Evaluate(l)[i].at[v]
    <3>1. DOMAIN <<>> = {}
      OBVIOUS
    <3>2. QED
      BY <2>1, <3>1, BuildMeans
  <2>3. \A i \in DOMAIN lb \cap DOMAIN r : lb[i][w] = Evaluate(r)[i].at[v]
    BY <1>1, <2>2, BuildAt, AlignedMeans
  <2>4. \A i \in DOMAIN r : rb[i][w] = Evaluate(r)[i].at[v]
    BY <2>1, <2>3, BuildMeans
  <2>5. QED
    BY <1>1, <1>3, <2>2, <2>4
<1>5. Evaluate(l)[Len(l)].at = Evaluate(r)[Len(r)].at
  <2>1. /\ Evaluate(l)[Len(l)].at = [v \in Env |-> Evaluate(l)[Len(l)].at[v]]
        /\ Evaluate(r)[Len(r)].at = [v \in Env |-> Evaluate(r)[Len(r)].at[v]]
    BY <1>1, ValuesAreOverEnv
  <2>2. [v \in Env |-> Evaluate(l)[Len(l)].at[v]] = [v \in Env |-> Evaluate(r)[Len(r)].at[v]]
    BY <1>4
  <2>3. QED
    BY <2>1, <2>2
<1>6. Evaluate(l)[Len(l)] = Evaluate(r)[Len(r)]
  <2>1. SortOf(l[Len(l)].op) = SortOf(r[Len(r)].op)
    BY DEF Last
  <2>2. /\ Evaluate(l)[Len(l)] = [sort |-> SortOf(l[Len(l)].op), at |-> Evaluate(l)[Len(l)].at]
        /\ Evaluate(r)[Len(r)] = [sort |-> SortOf(r[Len(r)].op), at |-> Evaluate(r)[Len(r)].at]
    BY <1>1, ValuesAreOverEnv
  <2>3. QED
    BY <1>5, <2>1, <2>2
<1>7. QED
  BY <1>1, <1>6, EvaluateAt DEF Valid

\* Only a comparison is unwrapped as what it is not.
LEMMA PanicIsComparison ==
  ASSUME NEW l, NEW r, "panic" \in SmtAnswers(l, r)
  PROVE  \E e \in {l, r} : \E i \in DOMAIN e : e[i].op = "le"
<1>1. TypeTreeOk(l) /\ TypeTreeOk(r) /\ (UnwrapPanics(l, {}) \/ UnwrapPanics(r, DOMAIN l))
  BY DEF SmtAnswers
<1>2. PICK e \in {l, r} : TypeTreeOk(e) /\ \E c : UnwrapPanics(e, c)
  BY <1>1
<1>3. PICK i \in DOMAIN e : \E k \in DOMAIN e[i].args :
        Z3Sort(e[e[i].args[k]].op) # Unwrapped(e[i].op)
  BY <1>2 DEF UnwrapPanics
<1>4. Z3Sort(e[i].op) # Unwrapped(e[i].op)
  BY <1>2, <1>3 DEF TypeTreeOk, ChildZ3Sort
<1>5. QED
  BY <1>4 DEF Z3Sort, Unwrapped, Comparison
-----------------------------------------------------------------------------

Stages == {"simp", "definitional", "base", "step", "smt"}
ControlOK ==
  /\ goal \in Goals /\ tactic \in Tactics /\ smtBuilt \in BOOLEAN
  /\ tries \in Seq(Single) /\ tries # <<>>
  /\ stage \in Stages
  /\ status \in {"running", "ok", "panic"} \cup Errors
  /\ stage = "definitional" => Head(tries).kind = "auto"
  /\ stage \in {"base", "step"} => Var \in Symbol
  /\ stage = "step" => Parses

\* What is being saturated, at each stage.
AtZero == <<Rename(goal.lhs, Var, "zero"), Rename(goal.rhs, Var, "zero")>>
SidesAre ==
  phase # "idle" =>
    /\ stage # "smt"
    /\ stage \in {"simp", "definitional"} => sides = <<goal.lhs, goal.rhs>>
    /\ stage = "base" => sides = AtZero
    /\ stage # "step" => rules \in {AlgebraicRules, DefinitionalRules}

BaseHolds ==
  stage = "step" /\ GoalOk /\ SymbolSort[Var] = "Nat" => Valid(AtZero[1], AtZero[2])

TypeInv == SatOK /\ ControlOK
Inv ==
  /\ TypeInv /\ SidesAre
  /\ Believed => MeaningOK
  /\ BaseHolds /\ DischargedIsValid
-----------------------------------------------------------------------------
(* Substitution of the induction variable.                                 *)

\* A leaf of zero, of a symbol or of a pattern variable is a node without
\* operands.
LEMMA LeafOK ==
  ASSUME NEW x \in Symbol \cup PatVar \cup {"zero"}
  PROVE  /\ Leaf(x) \in NodeType /\ Leaf(x).op = x /\ Leaf(x).args = <<>> /\ Arity(x) = 0
BY SymbolAssumption, ArityTable, OpKinds DEF Leaf, Node, NodeType, Arity, Op, NatConnective, Comparison, BoolConnective

\* The nodes of a term, whose operands come before them.
LEMMA TermNodes ==
  ASSUME NEW e, IsTerm(e)
  PROVE  /\ e \in Seq(NodeType) /\ DOMAIN e = 1..Len(e) /\ Len(e) \in Nat
         /\ \A i \in DOMAIN e : /\ e[i] \in NodeType /\ e[i].op \notin PatVar
                                /\ Len(e[i].args) = Arity(e[i].op)
                                /\ \A k \in DOMAIN e[i].args : e[i].args[k] \in 1..(i - 1)
<1>1. e \in Seq(NodeType)
  BY DEF IsTerm, IsExpr, NodeType
<1>2. DOMAIN e = 1..Len(e) /\ Len(e) \in Nat /\ \A i \in DOMAIN e : e[i] \in NodeType
  BY <1>1
<1>3. \A i \in DOMAIN e : e[i].op \notin PatVar
  BY DEF IsTerm, PatVarsOf
<1>4. \A i \in DOMAIN e : /\ Len(e[i].args) = Arity(e[i].op)
                          /\ \A k \in DOMAIN e[i].args : e[i].args[k] \in 1..(i - 1)
  BY DEF IsTerm, IsExpr
<1>5. QED
  BY <1>1, <1>2, <1>3, <1>4

\* Replacing the leaves of a variable keeps the shape of an expression
\* (substitute_var, tactic.rs:90-121).
LEMMA RenameOK ==
  ASSUME NEW e, IsTerm(e), NEW x \in Symbol, NEW op \in {"zero", "?v"}
  PROVE  /\ IsExpr(Rename(e, x, op)) /\ Len(Rename(e, x, op)) = Len(e)
         /\ DOMAIN Rename(e, x, op) = DOMAIN e
         /\ (e # <<>> => Rename(e, x, op) # <<>>) /\ (e = <<>> => Rename(e, x, op) = <<>>)
         /\ op = "zero" => IsTerm(Rename(e, x, op))
         /\ Len(e) > 1 /\ Rooted(e) => Last(Rename(e, x, op)) = Last(e) /\ Last(e).op \notin PatVar
         /\ e # <<>> => Len(e) \in DOMAIN e
<1> DEFINE f == Rename(e, x, op)
<1>1. /\ e \in Seq(NodeType) /\ DOMAIN e = 1..Len(e) /\ Len(e) \in Nat
      /\ \A i \in DOMAIN e : e[i] \in NodeType /\ e[i].op \notin PatVar
  BY TermNodes
<1>2. \A i \in DOMAIN e : f[i] = IF e[i] = Leaf(x) THEN Leaf(op) ELSE e[i]
  BY DEF Rename
<1>3. op \in PatVar \cup {"zero"} /\ (op = "zero" => op \notin PatVar)
  BY DEF PatVar
<1>4. /\ Leaf(op) \in NodeType /\ Leaf(op).op = op /\ Leaf(op).args = <<>> /\ Arity(op) = 0
      /\ Leaf(x).args = <<>>
  BY <1>3, LeafOK
<1>5. f \in [1..Len(e) -> NodeType]
  BY <1>1, <1>4 DEF Rename
<1>6. f \in Seq(NodeType) /\ Len(f) = Len(e) /\ DOMAIN f = DOMAIN e
  BY <1>1, <1>5
<1> HIDE DEF f
<1>7. ASSUME NEW i \in DOMAIN f
      PROVE  Len(f[i].args) = Arity(f[i].op) /\ \A k \in DOMAIN f[i].args : f[i].args[k] \in 1..(i - 1)
  <2>1. CASE e[i] = Leaf(x)
    BY <1>2, <1>4, <1>6, <2>1
  <2>2. CASE e[i] # Leaf(x)
    BY <1>2, <1>6, <2>2 DEF IsTerm, IsExpr
  <2>3. QED
    BY <2>1, <2>2
<1>8. IsExpr(f)
  BY <1>6, <1>7 DEF IsExpr, NodeType
<1>9. Len(e) > 1 /\ Rooted(e) => Last(f) = Last(e) /\ Last(e).op \notin PatVar
  BY <1>1, <1>2, <1>4, <1>6 DEF Rooted, Last
<1>10. op = "zero" => IsTerm(f)
  <2>1. op = "zero" => \A i \in DOMAIN f : f[i].op \notin PatVar
    BY <1>1, <1>2, <1>3, <1>4, <1>6
  <2>2. QED
    BY <1>8, <2>1 DEF IsTerm, PatVarsOf
<1>11. (e # <<>> => f # <<>>) /\ (e = <<>> => f = <<>>) /\ (e # <<>> => Len(e) \in DOMAIN e)
  BY <1>1, <1>6
<1>12. QED
  BY <1>6, <1>8, <1>9, <1>10, <1>11 DEF f

\* Zero in place of a number keeps a goal sorted.
LEMMA RenameSorted ==
  ASSUME NEW l, NEW r, IsTerm(l), IsTerm(r), l # <<>>, r # <<>>, GoalSorted(l, r),
         NEW x \in Symbol, SymbolSort[x] = "Nat"
  PROVE  GoalSorted(Rename(l, x, "zero"), Rename(r, x, "zero"))
<1>1. SortOf(x) = "Nat" /\ SortOf("zero") = "Nat" /\ Leaf("zero").op = "zero" /\ Leaf("zero").args = <<>>
      /\ Leaf(x).op = x
  BY SortOfOp, SortTable, LeafOK
<1>2. ASSUME NEW e, IsTerm(e), WellSorted(e), e # <<>>
      PROVE  /\ WellSorted(Rename(e, x, "zero"))
             /\ SortOf(Last(Rename(e, x, "zero")).op) = SortOf(Last(e).op)
  <2> DEFINE f == Rename(e, x, "zero")
  <2>1. DOMAIN f = DOMAIN e /\ Len(f) = Len(e) /\ Len(e) \in DOMAIN e
    BY <1>2, RenameOK
  <2>2. \A i \in DOMAIN e : f[i] = IF e[i] = Leaf(x) THEN Leaf("zero") ELSE e[i]
    BY DEF Rename
  <2> HIDE DEF f
  <2>3. \A i \in DOMAIN e : SortOf(f[i].op) = SortOf(e[i].op)
    BY <1>1, <2>2
  <2>4. SortOf(Last(f).op) = SortOf(Last(e).op)
    BY <2>1, <2>3 DEF Last
  <2>5. ASSUME NEW i \in DOMAIN f, NEW k \in DOMAIN f[i].args
        PROVE  SortOf(f[f[i].args[k]].op) = ChildSort(f[i].op)
    <3>1. f[i] = e[i]
      BY <1>1, <2>1, <2>2, <2>5
    <3>2. e[i].args[k] \in DOMAIN e
      BY <1>2, <2>1, <2>5, <3>1 DEF IsTerm, IsExpr
    <3>3. QED
      BY <1>2, <2>1, <2>3, <2>5, <3>1, <3>2 DEF WellSorted
  <2>6. QED
    BY <2>4, <2>5 DEF WellSorted, f
<1>3. QED
  BY <1>2 DEF GoalSorted

\* The elements of a concatenation.
LEMMA ConcatAt ==
  ASSUME NEW S, NEW s \in Seq(S), NEW t \in Seq(S)
  PROVE  /\ s \o t \in Seq(S) /\ Len(s \o t) = Len(s) + Len(t) /\ DOMAIN (s \o t) = 1..(Len(s) + Len(t))
         /\ \A i \in 1..Len(s) : (s \o t)[i] = s[i]
         /\ \A i \in 1..Len(t) : (s \o t)[Len(s) + i] = t[i]
OBVIOUS

\* Putting the successor of a variable in its place gives a term
\* (tactic.rs:157-159).
LEMMA PutSuccOK ==
  ASSUME NEW e, IsTerm(e), NEW x \in Symbol
  PROVE  IsTerm(PutSucc(e, x)) /\ PutSucc(e, x) # <<>>
<1> DEFINE head == <<Leaf(x), Succ(1)>>
<1>1. IsNode(Leaf(x), 1) /\ IsNode(Succ(1), 2) /\ x \notin PatVar /\ "succ" \notin PatVar
  <2>1. IsNode(Leaf(x), 1) /\ x \notin PatVar
    BY LeafOK, SymbolAssumption DEF IsNode
  <2>2. IsNode(Succ(1), 2)
    BY NodeUnary DEF Succ, Unary
  <2>3. QED
    BY <2>1, <2>2 DEF PatVar
<1>2. /\ head \in Seq(NodeType) /\ Len(head) = 2 /\ head[1] = Leaf(x) /\ head[2] = Succ(1)
      /\ head[1].op \notin PatVar /\ head[2].op \notin PatVar /\ head[2].args # <<>>
  BY <1>1, LeafOK DEF IsNode, Succ, Node
<1>3. CASE e = <<Leaf(x)>>
  <2>1. PutSucc(e, x) = head
    BY <1>3 DEF PutSucc
  <2>2. IsExpr(head)
    BY <1>1, Expr2
  <2> HIDE DEF head
  <2>3. QED
    BY <1>2, <2>1, <2>2 DEF IsTerm, PatVarsOf, Last
<1>4. CASE e # <<Leaf(x)>>
  <2> DEFINE moved(i) == [k \in DOMAIN e[i].args |->
                            IF e[e[i].args[k]] = Leaf(x) THEN 2 ELSE e[i].args[k] + 2]
             tail == [i \in DOMAIN e |-> Node(e[i].op, moved(i))]
             f == head \o tail
  <2>1. PutSucc(e, x) = f
    BY <1>4 DEF PutSucc
  <2>2. /\ e \in Seq(NodeType) /\ DOMAIN e = 1..Len(e) /\ Len(e) \in Nat
        /\ \A i \in DOMAIN e : /\ e[i] \in NodeType /\ e[i].op \notin PatVar
                               /\ Len(e[i].args) = Arity(e[i].op)
                               /\ \A k \in DOMAIN e[i].args : e[i].args[k] \in 1..(i - 1)
    BY TermNodes
  <2>3. ASSUME NEW i \in DOMAIN e
        PROVE  /\ moved(i) \in Seq(Nat) /\ Len(moved(i)) = Len(e[i].args)
               /\ \A k \in DOMAIN moved(i) : moved(i)[k] \in 1..(i + 1)
    <3>1. e[i].args \in Seq(Nat) /\ DOMAIN e[i].args = 1..Len(e[i].args) /\ Len(e[i].args) \in Nat
      BY <2>2 DEF NodeType
    <3>2. \A k \in DOMAIN e[i].args : moved(i)[k] \in 1..(i + 1) /\ moved(i)[k] \in Nat
      BY <2>2
    <3>3. moved(i) \in [1..Len(e[i].args) -> Nat] /\ DOMAIN moved(i) = DOMAIN e[i].args
      BY <3>1, <3>2
    <3> HIDE DEF moved
    <3>4. QED
      BY <3>1, <3>2, <3>3
  <2> HIDE DEF moved
  <2>4. \A i \in DOMAIN e : /\ tail[i].op = e[i].op /\ tail[i].args = moved(i) /\ tail[i] \in NodeType
    BY <2>2, <2>3 DEF Node, NodeType
  <2>5. tail \in Seq(NodeType) /\ Len(tail) = Len(e)
    <3>1. tail \in [1..Len(e) -> NodeType]
      BY <2>2, <2>4
    <3> HIDE DEF tail
    <3>2. QED
      BY <2>2, <3>1
  <2> HIDE DEF tail, head
  <2>6. /\ f \in Seq(NodeType) /\ Len(f) = Len(e) + 2 /\ f[1] = head[1] /\ f[2] = head[2]
        /\ \A i \in DOMAIN e : f[i + 2] = tail[i]
        /\ \A j \in DOMAIN f : j = 1 \/ j = 2 \/ (j - 2 \in DOMAIN e /\ f[j] = tail[j - 2])
    <3>1. /\ f \in Seq(NodeType) /\ Len(f) = Len(e) + 2 /\ f[1] = head[1] /\ f[2] = head[2]
          /\ DOMAIN f = 1..(Len(e) + 2) /\ \A i \in 1..Len(e) : f[2 + i] = tail[i]
      <4>1. /\ f \in Seq(NodeType) /\ Len(f) = Len(head) + Len(tail) /\ DOMAIN f = 1..(Len(head) + Len(tail))
            /\ \A i \in 1..Len(head) : f[i] = head[i]
            /\ \A i \in 1..Len(tail) : f[Len(head) + i] = tail[i]
        <5>1. head \in Seq(NodeType) /\ tail \in Seq(NodeType)
          BY <1>2, <2>5
        <5>2. QED
          BY <5>1, ConcatAt
      <4> HIDE DEF f
      <4>2. QED
        BY <4>1, <1>2, <2>2, <2>5
    <3> HIDE DEF f
    <3>2. \A i \in 1..Len(e) : f[i + 2] = tail[i]
      BY <3>1, <2>2
    <3>3. \A j \in 1..(Len(e) + 2) : j = 1 \/ j = 2 \/ j - 2 \in 1..Len(e)
      BY <2>2
    <3>4. \A j \in 1..(Len(e) + 2) : j - 2 \in 1..Len(e) => f[j] = tail[j - 2]
      <4>1. ASSUME NEW j \in 1..(Len(e) + 2), j - 2 \in 1..Len(e) PROVE f[j] = tail[j - 2]
        <5>1. f[(j - 2) + 2] = tail[j - 2] /\ (j - 2) + 2 = j
          BY <3>2, <4>1, <2>2
        <5>2. QED
          BY <5>1
      <4>2. QED
        BY <4>1
    <3>5. QED
      BY <2>2, <3>1, <3>2, <3>3, <3>4
  <2> HIDE DEF f
  <2>7. ASSUME NEW j \in 1..Len(f) PROVE IsNode(f[j], j) /\ f[j].op \notin PatVar
    <3>1. CASE j = 1
      BY <1>1, <1>2, <2>6, <3>1
    <3>2. CASE j = 2
      BY <1>1, <1>2, <2>6, <3>2
    <3>3. CASE j - 2 \in DOMAIN e /\ f[j] = tail[j - 2]
      <4>1. /\ f[j].op = e[j - 2].op /\ f[j].args = moved(j - 2) /\ f[j] \in NodeType
        BY <2>4, <3>3
      <4>2. /\ Len(f[j].args) = Arity(f[j].op)
            /\ \A k \in DOMAIN f[j].args : f[j].args[k] \in 1..(j - 1)
        BY <2>2, <2>3, <3>3, <4>1
      <4>3. QED
        BY <2>2, <3>3, <4>1, <4>2 DEF IsNode
    <3>4. j \in DOMAIN f
      BY <2>6
    <3>5. QED
      BY <2>6, <3>1, <3>2, <3>3, <3>4
  <2>8. IsExpr(f) /\ PatVarsOf(f) = {}
    BY <2>6, <2>7, ExprOfNodes DEF PatVarsOf
  <2>9. QED
    BY <2>1, <2>2, <2>6, <2>8 DEF IsTerm
<1>5. QED
  BY <1>3, <1>4

\* The induction hypothesis is a rule if its right side is bound.
LEMMA HypothesisOK ==
  ASSUME goal \in Goals, Parses, NEW x \in Symbol, HypothesisBound(x)
  PROVE  WellFormed(Hypothesis(x).lhs, Hypothesis(x).rhs)
<1> DEFINE l == Rename(goal.lhs, x, "?v")
           r == Rename(goal.rhs, x, "?v")
<1>1. Hypothesis(x).lhs = l /\ Hypothesis(x).rhs = r
  BY DEF Hypothesis, Rule
<1>2. IsTerm(goal.lhs) /\ IsTerm(goal.rhs) /\ Rooted(goal.lhs) /\ goal.lhs # <<>> /\ goal.rhs # <<>>
  BY GoalAssumption DEF Parses
<1>3. IsExpr(l) /\ IsExpr(r) /\ l # <<>> /\ r # <<>>
  BY <1>2, RenameOK
<1>4. /\ Len(l) = Len(goal.lhs) /\ DOMAIN l = DOMAIN goal.lhs /\ Len(goal.lhs) \in DOMAIN goal.lhs
      /\ Len(goal.lhs) > 1 => Last(l) = Last(goal.lhs) /\ Last(goal.lhs).op \notin PatVar
  BY <1>2, RenameOK
<1>5. Len(goal.lhs) \in Nat /\ DOMAIN goal.lhs = 1..Len(goal.lhs)
  BY <1>2, TermNodes
<1> HIDE DEF l, r
<1>6. Len(l) = 1 \/ \E i \in DOMAIN l : l[i].op \notin PatVar
  <2>1. CASE Len(goal.lhs) > 1
    BY <1>4, <2>1 DEF Last
  <2>2. CASE Len(goal.lhs) = 1
    BY <1>4, <2>2
  <2>3. Len(goal.lhs) \in 1..Len(goal.lhs)
    BY <1>4, <1>5
  <2>4. Len(goal.lhs) > 1 \/ Len(goal.lhs) = 1
    <3>1. \A n \in Nat : n \in 1..n => n > 1 \/ n = 1
      OBVIOUS
    <3>2. QED
      BY <1>5, <2>3, <3>1
  <2>5. QED
    BY <2>1, <2>2, <2>4
<1>7. PatVarsOf(r) \subseteq PatVarsOf(l)
  BY <1>1 DEF HypothesisBound
<1>8. QED
  BY <1>1, <1>3, <1>6, <1>7 DEF WellFormed

\* The rules of a step are well formed, the hypothesis last.
LEMMA RulesOfStep ==
  ASSUME NEW h, WellFormed(h.lhs, h.rhs)
  PROVE  /\ DOMAIN Append(DefinitionalRules, h) \subseteq Nat
         /\ \A i \in DOMAIN Append(DefinitionalRules, h) :
              WellFormed(Append(DefinitionalRules, h)[i].lhs, Append(DefinitionalRules, h)[i].rhs)
<1>1. PICK S : DefinitionalRules \in Seq(S)
  BY RulesTyped
<1>2. \A i \in DOMAIN DefinitionalRules : WellFormed(DefinitionalRules[i].lhs, DefinitionalRules[i].rhs)
  BY RulesSound DEF SoundRules, SoundRule
<1>3. /\ DOMAIN Append(DefinitionalRules, h) = 1..(Len(DefinitionalRules) + 1)
      /\ DOMAIN DefinitionalRules = 1..Len(DefinitionalRules) /\ Len(DefinitionalRules) \in Nat
      /\ \A i \in 1..Len(DefinitionalRules) : Append(DefinitionalRules, h)[i] = DefinitionalRules[i]
      /\ Append(DefinitionalRules, h)[Len(DefinitionalRules) + 1] = h
  BY <1>1
<1>4. \A i \in 1..(Len(DefinitionalRules) + 1) : i \in 1..Len(DefinitionalRules) \/ i = Len(DefinitionalRules) + 1
  BY <1>3
<1>5. QED
  BY <1>2, <1>3, <1>4

\* The rules of a saturation without a hypothesis are well formed.
LEMMA RulesOfGoal ==
  ASSUME NEW rs \in {AlgebraicRules, DefinitionalRules}
  PROVE  DOMAIN rs \subseteq Nat /\ \A i \in DOMAIN rs : WellFormed(rs[i].lhs, rs[i].rhs)
<1>1. PICK S : DefinitionalRules \in Seq(S) /\ ExtraRules \in Seq(S)
  BY RulesTyped
<1>2. DefinitionalRules \in Seq(S) /\ AlgebraicRules \in Seq(S)
  BY <1>1, ConcatAt DEF AlgebraicRules
<1>3. DOMAIN rs \subseteq Nat
  BY <1>2
<1>4. QED
  BY <1>3, RulesSound DEF SoundRules, SoundRule
-----------------------------------------------------------------------------
(* The stages of a tactic.                                                 *)

\* The kinds of the tactics that are not OrElse, and the stage each starts
\* with.
LEMMA SingleKinds ==
  ASSUME NEW t \in Single
  PROVE  /\ t.kind \in {"simp", "smt", "auto", "induction"}
         /\ t.kind = "auto" => t.var \in Symbol \cup {None}
         /\ t.kind = "induction" => t.var \in Symbol
         /\ FirstStage(t) \in {"simp", "definitional", "base", "smt"}
         /\ FirstStage(t) = "definitional" => t.kind = "auto"
         /\ FirstStage(t) = "base" => t.kind = "induction"
<1>1. CASE t = Simp \/ t = SmtOnly
  BY <1>1 DEF Simp, SmtOnly, FirstStage
<1>2. ASSUME NEW x \in Symbol \cup {None}, t = AutoOn(x)
      PROVE  t.kind = "auto" /\ t.var = x /\ FirstStage(t) = "definitional"
  <2>1. t.kind = "auto" /\ t.var = x
    BY <1>2 DEF AutoOn
  <2>2. QED
    BY <2>1 DEF FirstStage
<1>3. ASSUME NEW x \in Symbol, t = InductionOn(x)
      PROVE  t.kind = "induction" /\ t.var = x /\ FirstStage(t) = "base"
  <2>1. t.kind = "induction" /\ t.var = x
    BY <1>3 DEF InductionOn
  <2>2. QED
    BY <2>1 DEF FirstStage
<1>4. t \in {Simp, SmtOnly} \/ (\E x \in Symbol \cup {None} : t = AutoOn(x)) \/ \E x \in Symbol : t = InductionOn(x)
  BY Zenon DEF Single
<1>5. QED
  BY <1>1, <1>2, <1>3, <1>4, Zenon

\* The first stage of the first tactic that is left.
LEMMA FirstStageOK ==
  ASSUME NEW ts \in Seq(Single), ts # <<>>
  PROVE  /\ FirstStage(Head(ts)) \in Stages \ {"step"}
         /\ FirstStage(Head(ts)) = "definitional" => Head(ts).kind = "auto"
         /\ FirstStage(Head(ts)) = "base" => Head(ts).var \in Symbol
<1>1. Head(ts) \in Single
  OBVIOUS
<1>2. QED
  BY <1>1, SingleKinds DEF Stages

\* A tactic that fails ends in an error or moves to the next one, which does
\* not start with a step case.
LEMMA TacticFailsOK ==
  ASSUME ControlOK, NEW error \in Errors, TacticFails(error)
  PROVE  /\ ControlOK' /\ UNCHANGED goal
         /\ \/ stage' # "step" /\ status' = status
            \/ stage' = stage /\ tries' = tries /\ status' # "ok" /\ status' # "panic"
<1>1. tries \in Seq(Single) /\ tries # <<>>
  BY DEF ControlOK
<1>2. CASE tactic.kind = "orelse" /\ Len(tries) > 1
  <2>1. tries' = Tail(tries) /\ stage' = FirstStage(tries[2]) /\ UNCHANGED <<caseVars, status>>
    BY <1>2 DEF TacticFails
  <2>2. tries' \in Seq(Single) /\ tries' # <<>> /\ Head(tries') = tries[2]
    BY <1>1, <1>2, <2>1
  <2>3. /\ stage' \in Stages \ {"step"}
        /\ stage' = "definitional" => Head(tries').kind = "auto"
        /\ stage' = "base" => Head(tries').var \in Symbol
    BY <2>1, <2>2, FirstStageOK
  <2>4. QED
    BY <2>1, <2>2, <2>3 DEF ControlOK, Var, caseVars
<1>3. CASE ~ (tactic.kind = "orelse" /\ Len(tries) > 1)
  <2>1. /\ status' = (IF tactic.kind = "orelse" THEN "NoTacticApplied" ELSE error)
        /\ UNCHANGED <<caseVars, tries, stage>>
    BY <1>3 DEF TacticFails
  <2>2. status' \in Errors
    BY <2>1 DEF Errors
  <2>3. status' # "ok" /\ status' # "panic"
    BY <2>2 DEF Errors, SmtErrors
  <2>4. QED
    BY <2>1, <2>2, <2>3 DEF ControlOK, Var, caseVars, Parses
<1>4. QED
  BY <1>2, <1>3

\* A stage that fails ends in an error or moves to a stage other than the step
\* case.
LEMMA StageFailsOK ==
  ASSUME ControlOK, NEW error \in Errors, StageFails(error)
  PROVE  /\ ControlOK' /\ UNCHANGED goal
         /\ \/ stage' # "step" /\ status' = status
            \/ stage' = stage /\ tries' = tries /\ status' # "ok" /\ status' # "panic"
<1>1. CASE stage = "definitional" /\ Var # None
  <2>1. GoTo("base")
    BY <1>1 DEF StageFails
  <2>2. Var \in Symbol
    <3>1. Head(tries) \in Single /\ Head(tries).kind = "auto"
      BY <1>1 DEF ControlOK
    <3>2. QED
      BY <1>1, <3>1, SingleKinds DEF Var
  <2>3. QED
    BY <2>1, <2>2 DEF GoTo, ControlOK, Var, caseVars, Stages
<1>2. CASE stage = "definitional" /\ Var = None
  BY <1>2 DEF StageFails, GoTo, ControlOK, Var, caseVars, Stages
<1>3. CASE stage \in {"base", "step"} /\ Head(tries).kind = "auto"
  BY <1>3 DEF StageFails, GoTo, ControlOK, Var, caseVars, Stages
<1>4. CASE /\ ~ (stage = "definitional" /\ Var # None)
           /\ ~ (stage = "definitional" /\ Var = None)
           /\ ~ (stage \in {"base", "step"} /\ Head(tries).kind = "auto")
  <2>1. TacticFails(error)
    BY <1>4 DEF StageFails
  <2>2. QED
    BY <2>1, TacticFailsOK
<1>5. QED
  BY <1>1, <1>2, <1>3, <1>4

\* The call of `run` establishes the invariant.
LEMMA InitOK ==
  ASSUME Init
  PROVE  Inv
<1>1. SatOK /\ phase = "idle" /\ sides = <<>>
  BY SatIdleOK DEF Init, SatIdle
<1>2. tries \in Seq(Single) /\ tries # <<>>
  <2>1. CASE tactic \in Single
    <3>1. tactic.kind # "orelse"
      BY <2>1, SingleKinds
    <3>2. QED
      BY <2>1, <3>1 DEF Init, Tried
  <2>2. CASE tactic = OrElse(tactic.of) /\ tactic.of \in Seq(Single) /\ tactic.of # <<>>
    <3>1. tactic.kind = "orelse"
      BY <2>2 DEF OrElse
    <3>2. QED
      BY <2>2, <3>1 DEF Init, Tried
  <2>3. QED
    BY <2>1, <2>2, TacticAssumption DEF Init
<1>3. /\ stage \in Stages \ {"step"}
      /\ stage = "definitional" => Head(tries).kind = "auto"
      /\ stage = "base" => Head(tries).var \in Symbol
  BY <1>2, FirstStageOK DEF Init
<1>4. ControlOK
  BY <1>2, <1>3 DEF Init, ControlOK, Var
<1>5. ~Believed
  BY <1>1 DEF Believed
<1>6. BaseHolds /\ DischargedIsValid
  BY <1>3 DEF BaseHolds, DischargedIsValid, Init
<1>7. QED
  BY <1>1, <1>4, <1>5, <1>6 DEF Inv, TypeInv, SidesAre
-----------------------------------------------------------------------------
(* Each action preserves the invariant.                                    *)

\* Both sides of the goal are terms.
LEMMA GoalTerms ==
  ASSUME ControlOK
  PROVE  IsTerm(goal.lhs) /\ IsTerm(goal.rhs) /\ Rooted(goal.lhs) /\ Rooted(goal.rhs)
BY GoalAssumption DEF ControlOK

\* What depends on the goal, the stage and the tactics left alone.
LEMMA ControlKept ==
  ASSUME Inv, UNCHANGED <<caseVars, tries, stage, status>>
  PROVE  ControlOK' /\ BaseHolds' /\ DischargedIsValid'
<1>1. ControlOK'
  BY DEF Inv, TypeInv, ControlOK, caseVars, Var, Parses
<1>2. BaseHolds'
  BY DEF Inv, BaseHolds, AtZero, caseVars, Var, GoalOk
<1>3. DischargedIsValid'
  BY DEF Inv, DischargedIsValid, caseVars, GoalOk
<1>4. QED
  BY <1>1, <1>2, <1>3

\* The saturation of the goal itself starts.
LEMMA BeginGoalOK ==
  ASSUME Inv, BeginSimp \/ BeginDefinitional
  PROVE  Inv'
<1>1. PICK rs \in {AlgebraicRules, DefinitionalRules} : Compare(goal.lhs, goal.rhs, rs)
  BY DEF BeginSimp, BeginDefinitional
<1>2. /\ stage \in {"simp", "definitional"} /\ goal.lhs # <<>> /\ goal.rhs # <<>>
      /\ UNCHANGED <<caseVars, tries, stage, status>>
  BY DEF BeginSimp, BeginDefinitional, AtStage, Parses
<1>3. IsTerm(goal.lhs) /\ IsTerm(goal.rhs)
  BY GoalTerms DEF Inv, TypeInv
<1>4. SatOK'
  BY <1>1, <1>2, <1>3, RulesOfGoal, CompareOK
<1>5. MeaningOK'
  BY <1>1, NothingMeans
<1>6. SidesAre'
  BY <1>1, <1>2 DEF SidesAre, Compare, caseVars
<1>7. QED
  BY <1>2, <1>4, <1>5, <1>6, ControlKept DEF Inv, TypeInv

\* The base case of an induction starts.
LEMMA BeginBaseOK ==
  ASSUME Inv, BeginBase
  PROVE  Inv'
<1>1. Compare(AtZero[1], AtZero[2], DefinitionalRules)
  BY DEF BeginBase, AtZero
<1>2. /\ stage = "base" /\ goal.lhs # <<>> /\ goal.rhs # <<>>
      /\ UNCHANGED <<caseVars, tries, stage, status>>
  BY DEF BeginBase, AtStage, Parses
<1>3. Var \in Symbol
  BY <1>2 DEF Inv, TypeInv, ControlOK
<1>4. IsTerm(AtZero[1]) /\ IsTerm(AtZero[2]) /\ AtZero[1] # <<>> /\ AtZero[2] # <<>>
  <2>1. IsTerm(goal.lhs) /\ IsTerm(goal.rhs)
    BY GoalTerms DEF Inv, TypeInv
  <2>2. QED
    BY <1>2, <1>3, <2>1, RenameOK DEF AtZero
<1>5. SatOK'
  BY <1>1, <1>4, RulesOfGoal, CompareOK
<1>6. MeaningOK'
  BY <1>1, NothingMeans
<1>7. SidesAre'
  <2>1. sides' = AtZero /\ rules' = DefinitionalRules
    BY <1>1 DEF Compare, AtZero
  <2>2. AtZero' = AtZero
    BY <1>2 DEF AtZero, caseVars, Var
  <2>3. QED
    BY <1>2, <2>1, <2>2 DEF SidesAre
<1>8. QED
  BY <1>2, <1>5, <1>6, <1>7, ControlKept DEF Inv, TypeInv

\* The step case of an induction starts, with the hypothesis among the rules.
LEMMA BeginStepOK ==
  ASSUME Inv, BeginStep
  PROVE  Inv'
<1>1. /\ stage = "step" /\ HypothesisBound(Var)
      /\ Compare(PutSucc(goal.lhs, Var), PutSucc(goal.rhs, Var), Append(DefinitionalRules, Hypothesis(Var)))
      /\ UNCHANGED <<caseVars, tries, stage, status>>
  BY DEF BeginStep, AtStage
<1>2. Var \in Symbol /\ Parses /\ goal \in Goals
  BY <1>1 DEF Inv, TypeInv, ControlOK
<1>3. WellFormed(Hypothesis(Var).lhs, Hypothesis(Var).rhs)
  BY <1>1, <1>2, HypothesisOK
<1>4. /\ IsTerm(PutSucc(goal.lhs, Var)) /\ IsTerm(PutSucc(goal.rhs, Var))
      /\ PutSucc(goal.lhs, Var) # <<>> /\ PutSucc(goal.rhs, Var) # <<>>
  <2>1. IsTerm(goal.lhs) /\ IsTerm(goal.rhs)
    BY GoalTerms DEF Inv, TypeInv
  <2>2. QED
    BY <1>2, <2>1, PutSuccOK
<1>5. SatOK'
  <2>1. /\ DOMAIN Append(DefinitionalRules, Hypothesis(Var)) \subseteq Nat
        /\ \A i \in DOMAIN Append(DefinitionalRules, Hypothesis(Var)) :
             WellFormed(Append(DefinitionalRules, Hypothesis(Var))[i].lhs,
                        Append(DefinitionalRules, Hypothesis(Var))[i].rhs)
    BY <1>3, RulesOfStep
  <2>2. QED
    BY <1>1, <1>4, <2>1, CompareOK
<1>6. MeaningOK'
  BY <1>1, NothingMeans
<1>7. SidesAre'
  BY <1>1 DEF SidesAre
<1>8. QED
  BY <1>1, <1>5, <1>6, <1>7, ControlKept DEF Inv, TypeInv

\* The invariant at the end of a stage that fails.
LEMMA FailureOK ==
  ASSUME Inv, status = "running", SatOK', phase' = "idle", ControlOK', UNCHANGED goal,
         \/ stage' # "step" /\ status' = status
         \/ stage' = stage /\ tries' = tries /\ status' # "ok" /\ status' # "panic"
  PROVE  Inv'
<1>1. sides' = <<>>
  BY DEF SatOK, RunOK, SidesOK
<1>2. ~Believed'
  BY <1>1 DEF Believed
<1>3. BaseHolds'
  BY DEF Inv, BaseHolds, AtZero, Var, GoalOk
<1>4. DischargedIsValid'
  BY DEF DischargedIsValid
<1>5. QED
  BY <1>2, <1>3, <1>4 DEF Inv, TypeInv, SidesAre

\* The rule of the hypothesis is refused.
LEMMA HypothesisPanicsOK ==
  ASSUME Inv, HypothesisPanics
  PROVE  Inv'
<1>1. /\ status' = "panic" /\ UNCHANGED <<caseVars, tries, stage, satVars>>
  BY DEF HypothesisPanics
<1>2. SatOK' /\ SidesAre' /\ (Believed => MeaningOK)'
  BY <1>1 DEF Inv, TypeInv, SatOK, GraphOK, NodeOK, RepOK, RunOK, RulesOK, RuleOK, MatchesOK, MatchOK, RegsOK,
              SidesOK, IterOK, Code, SidesAre, AtZero, Var, Believed, MeaningOK, NodesMean, NodeMeans, Meanings,
              ClassesMean, TodoMeans, MatchRead, MatchMeans, LoadMeans, RootsMean, satVars, graphVars, runVars,
              caseVars
<1>3. ControlOK' /\ BaseHolds' /\ DischargedIsValid'
  BY <1>1 DEF Inv, TypeInv, ControlOK, caseVars, Var, Parses, BaseHolds, AtZero, GoalOk, DischargedIsValid
<1>4. QED
  BY <1>2, <1>3 DEF Inv, TypeInv

\* The variables of the saturation left alone.
LEMMA SatKept ==
  ASSUME SatOK, UNCHANGED satVars
  PROVE  SatOK'
BY DEF SatOK, GraphOK, NodeOK, RepOK, RunOK, RulesOK, RuleOK, MatchesOK, MatchOK, RegsOK,
       SidesOK, IterOK, Code, satVars, graphVars, runVars

\* A side of the goal cannot be parsed.
LEMMA ParseFailsOK ==
  ASSUME Inv, ParseFails
  PROVE  Inv'
<1>1. /\ status = "running" /\ phase = "idle" /\ UNCHANGED satVars
      /\ \E error \in Errors : StageFails(error)
  BY DEF ParseFails, Errors
<1>2. SatOK' /\ phase' = "idle"
  BY <1>1, SatKept DEF Inv, TypeInv, satVars, runVars
<1>3. QED
  BY <1>1, <1>2, StageFailsOK, FailureOK DEF Inv, TypeInv

\* The SMT solver discharges the goal or panics, by an answer of its, or the
\* tactic fails.
LEMMA AskSmtCases ==
  ASSUME AskSmt
  PROVE  \/ Succeed /\ Parses /\ "ok" \in SmtAnswers(goal.lhs, goal.rhs)
         \/ /\ status' = "panic" /\ UNCHANGED <<caseVars, tries, stage>>
            /\ "panic" \in SmtAnswers(goal.lhs, goal.rhs)
         \/ \E error \in Errors : TacticFails(error)
<1>1. CASE ~smtBuilt \/ ~Parses
  BY <1>1 DEF AskSmt, Errors
<1>2. CASE smtBuilt /\ Parses
  <2>1. PICK answer \in SmtAnswers(goal.lhs, goal.rhs) :
          CASE answer = "ok" -> Succeed
            [] answer = "panic" -> status' = "panic" /\ UNCHANGED <<caseVars, tries, stage>>
            [] OTHER -> TacticFails(answer)
    BY <1>2 DEF AskSmt
  <2>2. answer \in {"ok", "panic"} \cup Errors
    BY DEF SmtAnswers, Errors, SmtErrors
  <2>3. QED
    BY <1>2, <2>1, <2>2
<1>3. QED
  BY <1>1, <1>2

\* The SMT solver answers or is not compiled in.
LEMMA AskSmtOK ==
  ASSUME Inv, AskSmt
  PROVE  Inv'
<1>1. status = "running" /\ phase = "idle" /\ stage = "smt" /\ UNCHANGED satVars
  BY DEF AskSmt, AtStage
<1>2. SatOK' /\ phase' = "idle" /\ sides' = <<>>
  BY <1>1, SatKept DEF Inv, TypeInv, SatOK, RunOK, SidesOK, satVars, runVars
<1>3. CASE \E error \in Errors : TacticFails(error)
  BY <1>1, <1>2, <1>3, TacticFailsOK, FailureOK DEF Inv, TypeInv
<1>4. CASE Succeed
  <2>1. status' = "ok" /\ UNCHANGED <<caseVars, tries, stage>>
    BY <1>4 DEF Succeed
  <2>2. ControlOK' /\ BaseHolds' /\ DischargedIsValid'
    BY <1>1, <2>1 DEF Inv, TypeInv, ControlOK, caseVars, Var, Parses, BaseHolds, DischargedIsValid
  <2>3. ~Believed'
    BY <1>2 DEF Believed
  <2>4. QED
    BY <1>2, <2>2, <2>3 DEF Inv, TypeInv, SidesAre
<1>5. CASE status' = "panic" /\ UNCHANGED <<caseVars, tries, stage>>
  <2>1. ControlOK' /\ BaseHolds' /\ DischargedIsValid'
    BY <1>1, <1>5 DEF Inv, TypeInv, ControlOK, caseVars, Var, Parses, BaseHolds, DischargedIsValid
  <2>2. ~Believed'
    BY <1>2 DEF Believed
  <2>3. QED
    BY <1>2, <2>1, <2>2 DEF Inv, TypeInv, SidesAre
<1>6. QED
  BY <1>3, <1>4, <1>5, AskSmtCases

\* A step of the saturation.
LEMMA SaturateOK ==
  ASSUME Inv, Saturate
  PROVE  Inv'
<1>1. SatOK /\ SatStep /\ UNCHANGED <<caseVars, tries, stage, status>>
  BY DEF Inv, TypeInv, Saturate
<1>2. SatOK' /\ UNCHANGED <<sides, rules>> /\ phase # "idle" /\ phase' # "idle"
  BY <1>1, SatStepOK, SatStepKeeps
<1>3. SidesAre'
  BY <1>1, <1>2 DEF Inv, SidesAre, AtZero, Var, caseVars
<1>4. (Believed => MeaningOK)'
  BY <1>1, <1>2, SatStepMeans DEF Inv, Believed
<1>5. QED
  BY <1>1, <1>2, <1>3, <1>4, ControlKept DEF Inv, TypeInv

\* A stage that trusts its rules: both sides sorted are believed.
LEMMA SortedIsBelieved ==
  ASSUME Inv, phase # "idle", stage # "step", GoalSorted(sides[1], sides[2])
  PROVE  Believed
<1>1. Len(sides) = 2
  BY DEF Inv, TypeInv, SatOK, RunOK, SidesOK
<1>2. SoundRules(rules)
  BY RulesSound DEF Inv, SidesAre
<1>3. QED
  BY <1>1, <1>2 DEF Believed

\* The saturation is over: the goal, or the base case, was proved or was not.
LEMMA SaturatedOK ==
  ASSUME Inv, Saturated
  PROVE  Inv'
<1>1. status = "running" /\ phase = "stopped" /\ Drop
  BY DEF Saturated
<1>2. SatOK' /\ phase' = "idle" /\ sides' = <<>>
  BY <1>1, DropOK DEF Drop
<1>3. ~Believed' /\ SidesAre'
  BY <1>2 DEF Believed, SidesAre
<1>4. CASE ~ProvedEqual
  <2>1. StageFails(StageError)
    BY <1>4 DEF Saturated
  <2>2. StageError \in Errors
    BY DEF StageError, Errors
  <2>3. QED
    BY <1>1, <1>2, <2>1, <2>2, StageFailsOK, FailureOK DEF Inv, TypeInv
<1>5. CASE ProvedEqual /\ stage = "base"
  <2>1. stage' = "step" /\ UNCHANGED <<caseVars, tries, status>>
    BY <1>5 DEF Saturated, GoTo
  <2>2. sides = AtZero /\ Var \in Symbol /\ sides[1] # <<>> /\ sides[2] # <<>>
    BY <1>1, <1>5 DEF Inv, TypeInv, SidesAre, ControlOK, SatOK, RunOK, SidesOK
  <2>3. IsTerm(goal.lhs) /\ IsTerm(goal.rhs)
    BY GoalTerms DEF Inv, TypeInv
  <2>4. goal.lhs # <<>> /\ goal.rhs # <<>>
    BY <2>2, <2>3, RenameOK DEF AtZero
  <2>5. ControlOK'
    BY <2>1, <2>2, <2>4 DEF Inv, TypeInv, ControlOK, Parses, Var, caseVars, Stages
  <2>6. ASSUME GoalOk, SymbolSort[Var] = "Nat" PROVE Valid(AtZero[1], AtZero[2])
    <3>1. GoalSorted(sides[1], sides[2])
      BY <2>2, <2>3, <2>4, <2>6, RenameSorted DEF GoalOk, AtZero
    <3>2. MeaningOK
      BY <1>1, <1>5, <3>1, SortedIsBelieved DEF Inv
    <3>3. QED
      BY <1>5, <2>2, <3>2, ProvedIsValid DEF Inv, TypeInv
  <2>7. BaseHolds'
    BY <2>1, <2>6 DEF BaseHolds, AtZero, Var, GoalOk, caseVars
  <2>8. DischargedIsValid'
    BY <2>1, <1>1 DEF DischargedIsValid
  <2>9. QED
    BY <1>2, <1>3, <2>5, <2>7, <2>8 DEF Inv, TypeInv
<1>6. CASE ProvedEqual /\ stage # "base"
  <2>1. status' = "ok" /\ UNCHANGED <<caseVars, tries, stage>>
    BY <1>6 DEF Saturated, Succeed
  <2>2. ControlOK' /\ BaseHolds'
    BY <2>1 DEF Inv, TypeInv, ControlOK, caseVars, Var, Parses, BaseHolds, AtZero, GoalOk
  <2>3. ASSUME GoalOk, stage \in {"simp", "definitional"} PROVE Valid(goal.lhs, goal.rhs)
    <3>1. sides = <<goal.lhs, goal.rhs>>
      BY <1>1, <2>3 DEF Inv, SidesAre
    <3>2. GoalSorted(sides[1], sides[2])
      BY <2>3, <3>1 DEF GoalOk
    <3>3. MeaningOK
      BY <1>1, <2>3, <3>2, SortedIsBelieved DEF Inv
    <3>4. QED
      BY <1>6, <3>1, <3>3, ProvedIsValid DEF Inv, TypeInv
  <2>4. DischargedIsValid'
    BY <2>1, <2>3 DEF DischargedIsValid, GoalOk, caseVars
  <2>5. QED
    BY <1>2, <1>3, <2>2, <2>4 DEF Inv, TypeInv
<1>7. QED
  BY <1>4, <1>5, <1>6
-----------------------------------------------------------------------------
(* What follows from the invariant, and the theorems.                      *)

\* Every step preserves the invariant.
LEMMA NextOK ==
  ASSUME Inv, [Next]_vars
  PROVE  Inv'
<1>1. CASE UNCHANGED vars
  <2>1. UNCHANGED satVars /\ UNCHANGED <<caseVars, tries, stage, status>>
    BY <1>1 DEF vars, caseVars
  <2>2. SatOK'
    BY <2>1, SatKept DEF Inv, TypeInv
  <2>3. SidesAre' /\ (Believed => MeaningOK)'
    BY <2>1 DEF Inv, SidesAre, AtZero, Var, Believed, MeaningOK, NodesMean, NodeMeans, Meanings,
                ClassesMean, TodoMeans, MatchRead, MatchMeans, LoadMeans, RootsMean, Code, satVars, graphVars,
                runVars, caseVars
  <2>4. QED
    BY <2>1, <2>2, <2>3, ControlKept DEF Inv, TypeInv
<1>2. CASE Next
  BY <1>2, BeginGoalOK, BeginBaseOK, BeginStepOK, HypothesisPanicsOK, SaturateOK, SaturatedOK,
     ParseFailsOK, AskSmtOK DEF Next
<1>3. QED
  BY <1>1, <1>2

\* The invariant has the types.
LEMMA InvTypes ==
  ASSUME Inv
  PROVE  TypeOK
<1>1. SatOK /\ ControlOK
  BY DEF Inv, TypeInv
<1>2. /\ goal \in Goals /\ tactic \in Tactics /\ smtBuilt \in BOOLEAN
      /\ tries # <<>> /\ stage \in {"simp", "definitional", "base", "step", "smt"}
      /\ status \in {"running", "ok", "panic"} \cup Errors
  BY <1>1 DEF ControlOK, Stages
<1>3. /\ phase \in {"idle", "load", "search", "apply", "instantiate", "rebuild", "stopped"}
      /\ iter \in 0..MaxIter
  BY <1>1 DEF SatOK, RunOK, SidesOK, IterOK, Phases
<1>4. /\ Len(rep) = Len(nodes) /\ Len(meaning) = Len(nodes)
      /\ \A i \in DOMAIN nodes : rep[i] \in DOMAIN nodes /\ rep[rep[i]] = rep[i]
  BY <1>1 DEF SatOK, GraphOK, RepOK
<1>5. \A t \in todo : t[1] \in DOMAIN rules
  BY <1>1 DEF SatOK, RunOK, MatchesOK, MatchOK
<1>6. QED
  BY <1>2, <1>3, <1>4, <1>5 DEF TypeOK

\* The invariant gives every class one meaning.
LEMMA InvClasses ==
  ASSUME Inv
  PROVE  ClassesAgree
<1>1. SUFFICES ASSUME Trusted PROVE ClassesMean
  BY DEF ClassesAgree, ClassesMean
<1>2. phase # "idle"
  BY <1>1 DEF Inv, TypeInv, SatOK, RunOK, SidesOK, Trusted
<1>3. Believed
  BY <1>1, <1>2, SortedIsBelieved DEF Trusted
<1>4. QED
  BY <1>3 DEF Inv, MeaningOK

\* The invariant says what an induction is worth.
LEMMA InvZero ==
  ASSUME Inv
  PROVE  ProvedHoldsAtZero
BY DEF Inv, BaseHolds, AtZero, ProvedHoldsAtZero

\* The hypothesis binds every variable of its right side unless the variable
\* of the induction occurs on that side only.
LEMMA UnboundVariable ==
  ASSUME ControlOK, stage = "step", ~HypothesisBound(Var)
  PROVE  /\ \E i \in DOMAIN goal.rhs : goal.rhs[i].op = Var
         /\ \A i \in DOMAIN goal.lhs : goal.lhs[i].op # Var
<1> DEFINE l == Rename(goal.lhs, Var, "?v")
           r == Rename(goal.rhs, Var, "?v")
<1>1. Var \in Symbol /\ IsTerm(goal.lhs) /\ IsTerm(goal.rhs)
  BY GoalTerms DEF ControlOK
<1>2. Hypothesis(Var).lhs = l /\ Hypothesis(Var).rhs = r
  BY DEF Hypothesis, Rule
<1>3. Leaf(Var).op = Var /\ Leaf(Var).args = <<>> /\ Arity(Var) = 0 /\ Leaf("?v").op = "?v"
  BY <1>1, LeafOK DEF PatVar
<1>4. PICK p \in PatVarsOf(r) : p \notin PatVarsOf(l)
  BY <1>2 DEF HypothesisBound
<1>5. PICK i \in DOMAIN r : r[i].op = p /\ p \in PatVar
  BY <1>4 DEF PatVarsOf
<1>6. i \in DOMAIN goal.rhs /\ goal.rhs[i] = Leaf(Var) /\ p = "?v"
  <2>1. DOMAIN r = DOMAIN goal.rhs
    BY DEF Rename
  <2>2. goal.rhs[i].op \notin PatVar
    BY <1>1, <2>1, TermNodes
  <2>3. QED
    BY <1>3, <1>5, <2>1, <2>2 DEF Rename
<1>7. ASSUME NEW j \in DOMAIN goal.lhs, goal.lhs[j].op = Var PROVE FALSE
  <2>1. goal.lhs[j] \in NodeType /\ Len(goal.lhs[j].args) = 0
    BY <1>1, <1>3, <1>7, TermNodes
  <2>2. goal.lhs[j] = Leaf(Var)
    BY <1>7, <2>1 DEF NodeType, Leaf, Node
  <2>3. j \in DOMAIN l /\ l[j].op = "?v"
    BY <1>3, <2>2 DEF Rename
  <2>4. "?v" \in PatVarsOf(l)
    BY <1>5, <1>6, <2>3 DEF PatVarsOf
  <2>5. QED
    BY <1>4, <1>6, <2>4
<1>8. QED
  BY <1>3, <1>6, <1>7

\* Only the rule of the hypothesis and the translation for the solver panic.
LEMMA PanicStep ==
  ASSUME Inv, PanicsAreKnown, [Next]_vars
  PROVE  PanicsAreKnown'
<1>1. ControlOK
  BY DEF Inv, TypeInv
<1>2. CASE UNCHANGED <<caseVars, tries, stage, status>>
  BY <1>2 DEF PanicsAreKnown, caseVars, Var
<1>3. CASE status' # "panic"
  BY <1>3 DEF PanicsAreKnown
<1>4. CASE HypothesisPanics
  <2>1. stage = "step" /\ ~HypothesisBound(Var) /\ UNCHANGED <<caseVars, tries, stage>>
    BY <1>4 DEF HypothesisPanics, AtStage
  <2>2. QED
    BY <1>1, <2>1, UnboundVariable DEF PanicsAreKnown, caseVars, Var
<1>5. CASE Saturated
  <2>1. CASE ~ProvedEqual
    <3>1. StageFails(StageError) /\ StageError \in Errors /\ status = "running"
      BY <1>5, <2>1 DEF Saturated, StageError, Errors
    <3>2. QED
      BY <1>1, <1>3, <3>1, StageFailsOK
  <2>2. CASE ProvedEqual
    BY <1>3, <1>5, <2>2 DEF Saturated, Succeed, GoTo
  <2>3. QED
    BY <2>1, <2>2
<1>6. CASE ParseFails
  <2>1. status = "running" /\ \E error \in Errors : StageFails(error)
    BY <1>6 DEF ParseFails, Errors
  <2>2. QED
    BY <1>1, <1>3, <2>1, StageFailsOK
<1>7. CASE AskSmt
  <2>1. status = "running" /\ stage = "smt"
    BY <1>7 DEF AskSmt, AtStage
  <2>2. CASE status' = "panic" /\ "panic" \in SmtAnswers(goal.lhs, goal.rhs)
             /\ UNCHANGED <<caseVars, tries, stage>>
    BY <2>1, <2>2, PanicIsComparison DEF PanicsAreKnown, caseVars
  <2>3. CASE Succeed \/ \E error \in Errors : TacticFails(error)
    BY <1>1, <1>3, <2>1, <2>3, TacticFailsOK DEF Succeed
  <2>4. QED
    BY <1>7, <2>2, <2>3, AskSmtCases
<1>8. QED
  BY <1>2, <1>4, <1>5, <1>6, <1>7
     DEF Next, vars, BeginSimp, BeginDefinitional, BeginBase, BeginStep, Saturate, caseVars
\* Only an answer "ok" discharges a goal at the stage of the solver.
LEMMA SmtAlignedStep ==
  ASSUME Inv, SmtAlignedIsValid, [Next]_vars
  PROVE  SmtAlignedIsValid'
<1>1. ControlOK /\ SidesAre
  BY DEF Inv, TypeInv
<1>2. CASE UNCHANGED <<caseVars, tries, stage, status>>
  BY <1>2 DEF SmtAlignedIsValid, GoalOk, caseVars
<1>3. CASE status' # "ok" \/ stage' # "smt"
  BY <1>3 DEF SmtAlignedIsValid
<1>4. CASE HypothesisPanics
  BY <1>3, <1>4 DEF HypothesisPanics
<1>5. CASE Saturated
  <2>1. status = "running" /\ stage # "smt"
    BY <1>1, <1>5 DEF Saturated, SidesAre
  <2>2. CASE ~ProvedEqual
    <3>1. StageFails(StageError) /\ StageError \in Errors
      BY <1>5, <2>2 DEF Saturated, StageError, Errors
    <3>2. status' # "ok"
      BY <1>1, <2>1, <3>1, StageFailsOK
    <3>3. QED
      BY <1>3, <3>2
  <2>3. CASE ProvedEqual
    BY <1>3, <1>5, <2>1, <2>3 DEF Saturated, Succeed, GoTo
  <2>4. QED
    BY <2>2, <2>3
<1>6. CASE ParseFails
  <2>1. status = "running" /\ \E error \in Errors : StageFails(error)
    BY <1>6 DEF ParseFails, Errors
  <2>2. status' # "ok"
    BY <1>1, <2>1, StageFailsOK
  <2>3. QED
    BY <1>3, <2>2
<1>7. CASE AskSmt
  <2>1. status = "running" /\ stage = "smt"
    BY <1>7 DEF AskSmt, AtStage
  <2>2. CASE \E error \in Errors : TacticFails(error)
    BY <1>1, <1>3, <2>1, <2>2, TacticFailsOK
  <2>3. CASE Succeed /\ Parses /\ "ok" \in SmtAnswers(goal.lhs, goal.rhs)
    <3>1. /\ UNCHANGED goal /\ IsTerm(goal.lhs) /\ IsTerm(goal.rhs)
          /\ goal.lhs # <<>> /\ goal.rhs # <<>>
      BY <1>1, <2>3, GoalTerms DEF Succeed, caseVars, ControlOK, Parses
    <3>2. ASSUME GoalOk, Aligned(goal.lhs, goal.rhs) PROVE Valid(goal.lhs, goal.rhs)
      BY <2>3, <3>1, <3>2, OkIsValid DEF GoalOk, GoalSorted
    <3>3. QED
      BY <3>1, <3>2 DEF SmtAlignedIsValid, GoalOk
  <2>4. QED
    BY <1>3, <1>7, <2>2, <2>3, AskSmtCases
<1>8. QED
  BY <1>2, <1>4, <1>5, <1>6, <1>7
     DEF Next, vars, BeginSimp, BeginDefinitional, BeginBase, BeginStep, Saturate, caseVars

-----------------------------------------------------------------------------
\* The inductive invariant of `run`: the shape of the e-graph and of the
\* control, and, while every rule is believed, the meaning of every node.
THEOREM InvHolds == Spec => []Inv
<1>1. Init => Inv
  BY InitOK
<1>2. Inv /\ [Next]_vars => Inv'
  BY NextOK
<1>3. QED
  BY <1>1, <1>2, PTL DEF Spec

\* `run` keeps the types of its variables: classes point into the e-graph,
\* matches at rules, and the limits are never exceeded.
THEOREM TypeCorrect == Spec => []TypeOK
<1>1. Inv => TypeOK
  BY InvTypes
<1>2. QED
  BY <1>1, InvHolds, PTL

\* Whatever the order of the matches and wherever a limit cuts the saturation
\* short, two nodes of one class have one meaning (simp.rs, rules of lang.rs).
THEOREM OneMeaning == Spec => []ClassesAgree
<1>1. Inv => ClassesAgree
  BY InvClasses
<1>2. QED
  BY <1>1, InvHolds, PTL

\* A goal that saturation discharges (Tactic::Simp, and Tactic::Auto before it
\* turns to induction) is valid, for every goal.
THEOREM DischargedValid == Spec => []DischargedIsValid
<1>1. Inv => DischargedIsValid
  BY DEF Inv
<1>2. QED
  BY <1>1, InvHolds, PTL

\* A goal that Tactic::Induction discharges holds at zero: its base case is
\* proved with sound rules only.
THEOREM HoldsAtZero == Spec => []ProvedHoldsAtZero
<1>1. Inv => ProvedHoldsAtZero
  BY InvZero
<1>2. QED
  BY <1>1, InvHolds, PTL

\* Rewrite::new(...).unwrap() in the step of an induction fails only when the
\* variable occurs in the right side of the goal and not in the left, and the
\* unwraps of build (smt.rs) only on a comparison.
THEOREM PanicsKnown == Spec => []PanicsAreKnown
<1>1. Init => PanicsAreKnown
  BY DEF Init, PanicsAreKnown
<1>2. Inv /\ PanicsAreKnown /\ [Next]_vars => PanicsAreKnown'
  BY PanicStep
<1>3. QED
  BY <1>1, <1>2, InvHolds, PTL DEF Spec

\* A goal that Z3 discharges (smt_prove_parsed) is valid if no node of its right
\* side is hidden in the shared cache by a different node of its left side.
THEOREM SmtValid == Spec => []SmtAlignedIsValid
<1>1. Init => SmtAlignedIsValid
  BY DEF Init, SmtAlignedIsValid
<1>2. Inv /\ SmtAlignedIsValid /\ [Next]_vars => SmtAlignedIsValid'
  BY SmtAlignedStep
<1>3. QED
  BY <1>1, <1>2, InvHolds, PTL DEF Spec
=============================================================================
