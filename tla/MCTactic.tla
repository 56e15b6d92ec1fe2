------------------------------ MODULE MCTactic ------------------------------
(* Goals for TLC, over two numbers and two truth values.                       *)
EXTENDS Tactic, TLC

CONSTANTS nVar, mVar, pVar, qVar

MCSymbol == {nVar, mVar, pVar, qVar}
MCSymbolSort == [s \in MCSymbol |-> IF s \in {nVar, mVar} THEN "Nat" ELSE "Bool"]
\* Assignments to the four, in that order.
Values == <<<<0, 0, 0, 0>>, <<1, 0, 1, 0>>, <<0, 2, 0, 1>>, <<3, 1, 1, 1>>, <<2, 3, 1, 0>>>>
Position == nVar :> 1 @@ mVar :> 2 @@ pVar :> 3 @@ qVar :> 4
MCEnv == DOMAIN Values
MCSymbolValue == [s \in MCSymbol |-> [v \in MCEnv |-> Values[v][Position[s]]]]
Integral == Values \o <<<<-1, 2, 0, 0>>, <<-3, -2, 1, 1>>>>
MCIntEnv == DOMAIN Integral
MCIntValue == [s \in MCSymbol |-> [v \in MCIntEnv |-> Integral[v][Position[s]]]]

\* Trees, written children first.
Un(op, e) == Append(e, Node(op, <<Len(e)>>))
Moved(e, k) == [i \in DOMAIN e |-> Node(e[i].op, [j \in DOMAIN e[i].args |-> e[i].args[j] + k])]
Op2(op, e, f) == e \o Moved(f, Len(e)) \o <<Node(op, <<Len(e), Len(e) + Len(f)>>)>>

Plus(e, f) == Op2("+", e, f)
Times(e, f) == Op2("*", e, f)
LeqOf(e, f) == Op2("le", e, f)
AndOf(e, f) == Op2("and", e, f)
OrOf(e, f) == Op2("or", e, f)
Implies(e, f) == Op2("implies", e, f)
S(e) == Un("succ", e)
Neg(e) == Un("not", e)
Z == <<Zero>>
T == <<True>>
F == <<False>>
N == <<Leaf(nVar)>>
M == <<Leaf(mVar)>>
P == <<Leaf(pVar)>>
Q == <<Leaf(qVar)>>
One == S(Z)
Two == S(One)

Goal(lhs, rhs) == [lhs |-> lhs, rhs |-> rhs]
Holds(e) == Goal(e, T)

\* True and provable, true and out of reach, false, ill-sorted, unparsable.
Arithmetic ==
  {Goal(Plus(One, One), Two), Goal(Times(Two, One), Two), Goal(Times(Two, One), One),
   Goal(Plus(N, Z), N), Goal(Plus(Z, N), N), Goal(N, Plus(N, Z)), Goal(Plus(N, M), Plus(M, N)),
   Goal(Plus(Plus(N, M), N), Plus(N, Plus(N, M))), Goal(Times(S(N), M), Plus(M, Times(N, M))),
   Goal(Times(N, Z), Z), Goal(Plus(N, M), N), Goal(N, M), Goal(Z, Times(N, Z)), Goal(N, Z), Goal(N, S(N)),
   Goal(Plus(N, One), S(N)), Goal(Plus(N, N), S(N)), Goal(M, Times(One, M))}
Comparisons ==
  {Holds(LeqOf(One, Two)), Holds(LeqOf(Two, One)), Goal(LeqOf(Two, One), F), Holds(LeqOf(N, Z)),
   Holds(LeqOf(N, S(N))), Holds(LeqOf(One, Plus(One, N))), Holds(LeqOf(Plus(N, M), Plus(M, N)))}
Propositions ==
  {Holds(Implies(P, P)), Holds(Implies(AndOf(P, Q), P)), Holds(OrOf(P, Neg(P))), Holds(P),
   Goal(Neg(AndOf(P, Q)), OrOf(Neg(P), Neg(Q))), Goal(OrOf(P, Q), AndOf(P, Q)),
   Goal(Neg(T), F), Holds(Neg(F)), Goal(Neg(Neg(P)), P), Holds(Implies(T, F)), Holds(AndOf(T, OrOf(F, T)))}
Odd == {Goal(<<>>, T), Goal(N, T), Goal(AndOf(T, N), N), Goal(Plus(P, Z), P),
        Goal(LeqOf(T, F), F), Goal(AndOf(T, F), LeqOf(T, F)), Goal(F, LeqOf(T, F))}
MCGoals == Arithmetic \cup Comparisons \cup Propositions \cup Odd

MCTactics ==
  {Simp, SmtOnly, DefaultTactic, InductionOn(nVar), AutoOn(nVar), AutoOn(None), OrElse(<<InductionOn(mVar), AutoOn(nVar)>>)}

\* The proof by induction of a goal that fails at one.
InductionGoals == {Goal(Plus(N, Z), N), Holds(LeqOf(N, Z))}
InductionTactics == {InductionOn(nVar)}

\* The goals of milestone2.rs that are for the SMT solver: a comparison, an
\* identity, a comparison that is false. Then two symbols, and two truth values,
\* at one position of their sides, and what Z3 refutes.
SmtGoals ==
  {Holds(LeqOf(Plus(N, Z), N)), Goal(Plus(N, Times(Two, M)), Plus(N, Plus(M, M))), Holds(LeqOf(S(N), N)),
   Goal(N, M), Goal(F, T), Goal(N, S(N))}
SmtTactics == {SmtOnly}
=============================================================================
