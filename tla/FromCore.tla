------------------------------ MODULE FromCore ------------------------------
(***************************************************************************)
(* `term_to_expr`: kernel terms as expressions of the solver. A variable   *)
(* is a symbol named by its index, a constant a symbol named as it is.     *)
(***************************************************************************)
EXTENDS Terms

CONSTANT Sample  \* bound: the values of a variable

\* The variables of an obligation over two arguments; v0 is the last one.
VarSymbol(k) == <<"v0", "v1">>[k + 1]
VarSymbols == {"v0", "v1"}
Assignments == Sample \X Sample
ValueUnder == [v0 |-> [a \in Assignments |-> a[1]], v1 |-> [a \in Assignments |-> a[2]]]
Solver ==
  INSTANCE Lang WITH Symbol <- VarSymbols, SymbolSort <- [s \in VarSymbols |-> "Nat"],
                     Env <- Assignments, SymbolValue <- ValueUnder

Untranslatable == <<>>
\* The node `op` over expressions laid one after the other.
Moved(e, k) == [i \in DOMAIN e |-> Solver!Node(e[i].op, [j \in DOMAIN e[i].args |-> e[i].args[j] + k])]
Over1(op, e) == IF e = Untranslatable THEN e ELSE Append(e, Solver!Node(op, <<Len(e)>>))
Over2(op, e, f) ==
  IF e = Untranslatable \/ f = Untranslatable THEN Untranslatable
  ELSE e \o Moved(f, Len(e)) \o <<Solver!Node(op, <<Len(e), Len(e) + Len(f)>>)>>

\* The library constants that are operators of the solver, applied to two.
Operators == [add |-> "+", mul |-> "*", le |-> "le"]
IsOperation(u) ==
  /\ u.op = "App" /\ u.kids[1].op = "App" /\ u.kids[1].kids[1].op = "Const"
  /\ u.kids[1].kids[1].name[1] \in DOMAIN Operators
OperatorOf(u) == Operators[u.kids[1].kids[1].name[1]]

\* Mutant: the arguments come in the order in which the spine is walked.
ArgumentsUnreversed(u) == <<u.kids[2], u.kids[1].kids[2]>>
Arguments(u) == <<u.kids[1].kids[2], u.kids[2]>>

RECURSIVE TermToExpr(_)
TermToExpr(u) ==
  CASE u.op = "Zero" -> <<Solver!Zero>>
    [] u.op = "True" -> <<Solver!True>>
    [] u.op = "False" -> <<Solver!False>>
    [] u.op = "Succ" -> Over1("succ", TermToExpr(u.kids[1]))
    [] u.op = "Var" -> <<Solver!Leaf(VarSymbol(u.n))>>
    [] u.op = "Const" -> <<Solver!Leaf(u.name[1])>>
    [] IsOperation(u) ->
         Over2(OperatorOf(u), TermToExpr(Arguments(u)[1]), TermToExpr(Arguments(u)[2]))
    [] OTHER -> Untranslatable

\* Every leaf means something to the solver; an operator without its arguments is
\* a symbol like another.
Interpreted(e) ==
  /\ e # Untranslatable
  /\ \A i \in DOMAIN e : /\ e[i].op \in Solver!Op \cup VarSymbols
                         /\ Len(e[i].args) = Solver!Arity(e[i].op)
=============================================================================
