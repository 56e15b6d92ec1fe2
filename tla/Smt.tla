--------------------------------- MODULE Smt ---------------------------------
(***************************************************************************)
(* The SMT fallback: every node is given a sort, both sides are translated *)
(* to Z3 terms through one cache indexed by position, and Z3 is asked      *)
(* whether they can differ. A Z3 term is modelled by the values it takes   *)
(* on assignments of integers, which may be negative, to the symbols: an   *)
(* answer is right about these, and may also be "unknown".                 *)
(***************************************************************************)
EXTENDS Lang, Integers

CONSTANTS IntEnv,   \* assignments of integers to the symbols
          IntValue  \* the value of a symbol under one

\* A symbol is an integer wherever it is used first, hence everywhere.
Z3Sort(op) == IF op \in BoolConnective \cup Comparison THEN "Bool" ELSE "Int"

ChildZ3Sort(e, i, k) == Z3Sort(e[e[i].args[k]].op)

\* type_tree: a child must have the very sort of its parent.
TypeTreeOk(e) ==
  \A i \in DOMAIN e : \A k \in DOMAIN e[i].args : ChildZ3Sort(e, i, k) = Z3Sort(e[i].op)

IntCompute(e, m, i) ==
  [v \in IntEnv |->
     IF e[i].op \in Symbol THEN IntValue[e[i].op][v]
     ELSE Compute(e[i].op, [k \in DOMAIN e[i].args |-> m[e[i].args[k]][v]])]

\* `build` with the cache left by the translation of the other side: a position
\* that is in it is not translated again.
BuildNode(e, cache, m, i) == IF i \in DOMAIN cache THEN cache[i] ELSE IntCompute(e, m, i)
Build(e, cache) ==
  LET m[i \in DOMAIN e] == BuildNode(e, cache, m, i)
  IN  m

\* Operands are unwrapped as values of one sort, whatever type_tree let pass: a
\* comparison of truth values panics once it is translated.
Unwrapped(op) == IF op \in BoolConnective THEN "Bool" ELSE "Int"
UnwrapPanics(e, cached) ==
  \E i \in DOMAIN e \ cached : \E k \in DOMAIN e[i].args :
    Z3Sort(e[e[i].args[k]].op) # Unwrapped(e[i].op)

SidesBuilt(lhs, rhs) == <<Last(Build(lhs, <<>>)), Last(Build(rhs, Build(lhs, <<>>)))>>

\* Mutant: the goal is asserted instead of its negation.
DifferNegated(built) == \E v \in IntEnv : built[1][v] = built[2][v]
Differ(built) == \E v \in IntEnv : built[1][v] # built[2][v]

SmtErrors == {"IllSorted", "KindMismatch", "Counterexample", "Unknown"}
SmtAnswers(lhs, rhs) ==
  IF ~TypeTreeOk(lhs) \/ ~TypeTreeOk(rhs) THEN {"IllSorted"}
  ELSE IF Z3Sort(Last(lhs).op) # Z3Sort(Last(rhs).op) THEN {"KindMismatch"}
  ELSE IF UnwrapPanics(lhs, {}) \/ UnwrapPanics(rhs, DOMAIN lhs) THEN {"panic"}
  ELSE IF Differ(SidesBuilt(lhs, rhs)) THEN {"Counterexample", "Unknown"} ELSE {"ok", "Unknown"}

\* No node of the right side is hidden by a different node of the left one.
Aligned(lhs, rhs) == \A i \in DOMAIN lhs \cap DOMAIN rhs : lhs[i] = rhs[i]

\* Z3 looks for a counterexample among the assignments of naturals too.
ASSUME IntAssumption ==
  /\ \A s \in Symbol : IntValue[s] \in [IntEnv -> Int]
  /\ \A v \in Env : \E w \in IntEnv : \A s \in Symbol : IntValue[s][w] = SymbolValue[s][v]
=============================================================================
