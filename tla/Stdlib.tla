------------------------------- MODULE Stdlib -------------------------------
(***************************************************************************)
(* The arithmetic library of the MIR bridge: closed kernel terms defined   *)
(* by recursion on Nat, inserted without a check into the environment,     *)
(* and an alias of Nat for every integer type of Rust.                     *)
(***************************************************************************)
EXTENDS Terms

Numeral[n \in Nat] == IF n = 0 THEN Zero ELSE Succ(Numeral[n - 1])
Num(n) == Numeral[n]

\* Recursion on Nat at a constant motive, with a step that sees the
\* predecessor (Var 1) and the induction hypothesis (Var 0).
NatFold(result, base, step, t) ==
  NatRec(Lambda(NatT, result), base, Lambda(NatT, Lambda(NatT, step)), t)
\* \n : Nat. body and \a : Nat. \b : Nat. body (a is Var 1, b is Var 0).
Unary(body) == Lambda(NatT, body)
Binary(body) == Lambda(NatT, Lambda(NatT, body))

\* Mutant: the comparison is swapped.
LeSwapped == Binary(App(Const("is_zero"), App2(Const("minus"), Var(0), Var(1))))

\* Mutant: the predecessor is added, not the second factor.
MulPredecessor == Binary(NatFold(NatT, Zero, App2(Const("add"), Var(1), Var(0)), Var(1)))

PredValue == Unary(NatFold(NatT, Zero, Var(1), Var(0)))
AddValue == Binary(NatFold(NatT, Var(0), Succ(Var(0)), Var(1)))
MulValue == Binary(NatFold(NatT, Zero, App2(Const("add"), Var(2), Var(0)), Var(1)))
MinusValue == Binary(NatFold(NatT, Var(1), App(Const("pred"), Var(0)), Var(0)))
IsZeroValue == Unary(NatFold(BoolT, True, False, Var(0)))
LeValue == Binary(App(Const("is_zero"), App2(Const("minus"), Var(1), Var(0))))

Aliases == {"Natu32", "Inti64"}

StdlibDefs ==
  LET NatTo(ty) == Pi(NatT, ty)
      Def(ty, value) == [ty |-> ty, value |-> value]
  IN  [c \in {"pred", "add", "mul", "minus", "is_zero", "le"} \cup Aliases |->
         CASE c = "pred" -> Def(NatTo(NatT), PredValue)
           [] c = "add" -> Def(NatTo(NatTo(NatT)), AddValue)
           [] c = "mul" -> Def(NatTo(NatTo(NatT)), MulValue)
           [] c = "minus" -> Def(NatTo(NatTo(NatT)), MinusValue)
           [] c = "is_zero" -> Def(NatTo(BoolT), IsZeroValue)
           [] c = "le" -> Def(NatTo(NatTo(BoolT)), LeValue)
           [] OTHER -> Def(Universe(0), NatT)]
=============================================================================
