-------------------------------- MODULE Lang --------------------------------
(***************************************************************************)
(* The language of the solver: natural numbers and truth values in one     *)
(* untyped syntax, and the rewrite rules of the simplifier. An expression  *)
(* is the sequence of its nodes, children first and the root last, each    *)
(* child given by its position; a pattern is an expression some of whose   *)
(* leaves are pattern variables.                                           *)
(*                                                                         *)
(* The meaning of an expression is its sort and its value under each       *)
(* assignment of values to the free symbols, a truth value being 0 or 1.   *)
(***************************************************************************)
EXTENDS Naturals, Sequences

CONSTANTS Symbol,      \* the free symbols
          SymbolSort,  \* the sort each is meant to have: "Nat" or "Bool"
          Env,         \* the assignments
          SymbolValue  \* the value of a symbol under an assignment

Node(op, args) == [op |-> op, args |-> args]
Leaf(op) == Node(op, <<>>)

NatConnective == {"zero", "succ", "+", "*"}
Comparison == {"le"}
BoolConnective == {"true", "false", "and", "or", "not", "implies"}
Op == NatConnective \cup Comparison \cup BoolConnective
PatVar == {"?a", "?b", "?c", "?v"}

Arity(op) ==
  CASE op \in {"+", "*", "le", "and", "or", "implies"} -> 2
    [] op \in {"succ", "not"} -> 1
    [] OTHER -> 0

\* The children of a node come before it.
IsExpr(e) ==
  /\ e \in Seq([op : Op \cup Symbol \cup PatVar, args : Seq(Nat)])
  /\ \A i \in DOMAIN e : /\ Len(e[i].args) = Arity(e[i].op)
                         /\ \A k \in DOMAIN e[i].args : e[i].args[k] \in 1..(i - 1)
Last(s) == s[Len(s)]
-----------------------------------------------------------------------------
(* Meaning.                                                                *)

SortOf(op) ==
  CASE op \in NatConnective -> "Nat"
    [] op \in Comparison \cup BoolConnective -> "Bool"
    [] OTHER -> SymbolSort[op]
ChildSort(op) == IF op \in BoolConnective THEN "Bool" ELSE "Nat"

Truth(b) == IF b THEN 1 ELSE 0
Compute(op, x) ==
  CASE op = "zero" -> 0
    [] op = "succ" -> x[1] + 1
    [] op = "+" -> x[1] + x[2]
    [] op = "*" -> x[1] * x[2]
    [] op = "le" -> Truth(x[1] <= x[2])
    [] op = "true" -> 1
    [] op = "false" -> 0
    [] op = "and" -> Truth(x[1] = 1 /\ x[2] = 1)
    [] op = "or" -> Truth(x[1] = 1 \/ x[2] = 1)
    [] op = "not" -> Truth(x[1] # 1)
    [] op = "implies" -> Truth(x[1] = 1 => x[2] = 1)

Denote(op, a) ==
  [sort |-> SortOf(op),
   at |-> IF op \in Symbol THEN SymbolValue[op]
          ELSE [v \in Env |-> Compute(op, [k \in DOMAIN a |-> a[k].at[v]])]]
Sorted(op, a) == \A k \in DOMAIN a : a[k].sort = ChildSort(op)

Meaning ==
  [sort : {"Nat"}, at : [Env -> Nat]] \cup [sort : {"Bool"}, at : [Env -> {0, 1}]]

\* The meanings of the nodes of an expression without pattern variables.
Evaluate(e) ==
  LET m[i \in DOMAIN e] == Denote(e[i].op, [k \in DOMAIN e[i].args |-> m[e[i].args[k]]])
  IN  m

\* Every child has the sort its parent wants; the two sides of a goal agree.
WellSorted(e) ==
  \A i \in DOMAIN e : \A k \in DOMAIN e[i].args :
     SortOf(e[e[i].args[k]].op) = ChildSort(e[i].op)
GoalSorted(lhs, rhs) ==
  /\ WellSorted(lhs) /\ WellSorted(rhs)
  /\ SortOf(Last(lhs).op) = SortOf(Last(rhs).op)
Valid(lhs, rhs) == Last(Evaluate(lhs)) = Last(Evaluate(rhs))
-----------------------------------------------------------------------------
(* Rules.                                                                  *)

Rule(name, lhs, rhs) == [name |-> name, lhs |-> lhs, rhs |-> rhs]

A == Leaf("?a")
B == Leaf("?b")
C == Leaf("?c")
Zero == Leaf("zero")
True == Leaf("true")
False == Leaf("false")
Succ(i) == Node("succ", <<i>>)
Not(i) == Node("not", <<i>>)
Bin(op, i, j) == Node(op, <<i, j>>)

DefinitionalRules ==
  <<Rule("add-zero-l", <<Zero, A, Bin("+", 1, 2)>>, <<A>>),
    Rule("add-succ-l", <<A, Succ(1), B, Bin("+", 2, 3)>>, <<A, B, Bin("+", 1, 2), Succ(3)>>),
    Rule("mul-zero-l", <<Zero, A, Bin("*", 1, 2)>>, <<Zero>>),
    Rule("mul-succ-l", <<A, Succ(1), B, Bin("*", 2, 3)>>,
                       <<B, A, B, Bin("*", 2, 3), Bin("+", 1, 4)>>),
    Rule("and-true-l", <<True, A, Bin("and", 1, 2)>>, <<A>>),
    Rule("and-false-l", <<False, A, Bin("and", 1, 2)>>, <<False>>),
    Rule("or-true-l", <<True, A, Bin("or", 1, 2)>>, <<True>>),
    Rule("or-false-l", <<False, A, Bin("or", 1, 2)>>, <<A>>),
    Rule("not-true", <<True, Not(1)>>, <<False>>),
    Rule("not-false", <<False, Not(1)>>, <<True>>),
    Rule("not-not", <<A, Not(1), Not(2)>>, <<A>>),
    Rule("implies-elim", <<A, B, Bin("implies", 1, 2)>>, <<A, Not(1), B, Bin("or", 2, 3)>>),
    Rule("le-zero-l", <<Zero, A, Bin("le", 1, 2)>>, <<True>>),
    Rule("le-succ-zero", <<A, Succ(1), Zero, Bin("le", 2, 3)>>, <<False>>),
    Rule("le-succ-succ", <<A, Succ(1), B, Succ(3), Bin("le", 2, 4)>>,
                         <<A, B, Bin("le", 1, 2)>>)>>

Comm(name, op) == Rule(name, <<A, B, Bin(op, 1, 2)>>, <<B, A, Bin(op, 1, 2)>>)
ToLeft(op) == <<A, B, Bin(op, 1, 2), C, Bin(op, 3, 4)>>
ToRight(op) == <<A, B, C, Bin(op, 2, 3), Bin(op, 1, 4)>>
AssocLR(name, op) == Rule(name, ToLeft(op), ToRight(op))
AssocRL(name, op) == Rule(name, ToRight(op), ToLeft(op))
DeMorgan(name, op, dual) ==
  Rule(name, <<A, B, Bin(op, 1, 2), Not(3)>>, <<A, Not(1), B, Not(3), Bin(dual, 2, 4)>>)

ExtraRules ==
  <<Comm("add-comm", "+"), AssocLR("add-assoc-lr", "+"), AssocRL("add-assoc-rl", "+"),
    Comm("mul-comm", "*"), AssocLR("mul-assoc-lr", "*"), AssocRL("mul-assoc-rl", "*"),
    Comm("and-comm", "and"), Comm("or-comm", "or"),
    AssocLR("and-assoc-lr", "and"), AssocRL("and-assoc-rl", "and"),
    AssocLR("or-assoc-lr", "or"), AssocRL("or-assoc-rl", "or"),
    DeMorgan("de-morgan-and", "and", "or"), DeMorgan("de-morgan-or", "or", "and"),
    Rule("excluded-middle-l", <<A, Not(1), A, Bin("or", 2, 3)>>, <<True>>),
    Rule("excluded-middle-r", <<A, A, Not(2), Bin("or", 1, 3)>>, <<True>>),
    Rule("le-refl", <<A, A, Bin("le", 1, 2)>>, <<True>>)>>
AlgebraicRules == DefinitionalRules \o ExtraRules

PatVarsOf(p) == {p[i].op : i \in DOMAIN p} \cap PatVar

\* An expression without pattern variables; the empty one is what cannot be
\* parsed. The root of a tree is above the other nodes.
IsTerm(e) == IsExpr(e) /\ PatVarsOf(e) = {}
Rooted(e) == Len(e) > 1 => Last(e).args # <<>>

ASSUME SymbolAssumption ==
  /\ Symbol \cap (Op \cup PatVar) = {}
  /\ SymbolSort \in [Symbol -> {"Nat", "Bool"}]
  /\ \A s \in Symbol : SymbolValue[s] \in [Env -> IF SymbolSort[s] = "Bool" THEN {0, 1} ELSE Nat]
=============================================================================
