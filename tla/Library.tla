------------------------------ MODULE Library ------------------------------
(***************************************************************************)
(* What the arithmetic library promises: a closed term over its            *)
(* definitions and the numerals says a number or a truth value, and the    *)
(* kernel computes it.                                                     *)
(***************************************************************************)
EXTENDS Reduction, Stdlib

\* How many numbers each definition waits for.
Wants(f) == IF f \in {"pred", "is_zero"} THEN 1 ELSE 2
Functions == {"pred", "add", "mul", "minus", "is_zero", "le"}

\* What a term says: a number, a truth value, a function and the numbers it
\* was given so far, or nothing.
Saying(kind, args) == [kind |-> kind, args |-> args]
Nothing == Saying("nothing", <<>>)
SaysNumber(n) == Saying("number", <<n>>)
SaysTruth(b) == Saying("truth", <<b>>)

\* Subtraction is truncated.
Monus(a, b) == IF a <= b THEN 0 ELSE a - b
Computed(f, a) ==
  CASE f = "pred" -> SaysNumber(Monus(a[1], 1))
    [] f = "add" -> SaysNumber(a[1] + a[2])
    [] f = "mul" -> SaysNumber(a[1] * a[2])
    [] f = "minus" -> SaysNumber(Monus(a[1], a[2]))
    [] f = "is_zero" -> SaysTruth(a[1] = 0)
    [] f = "le" -> SaysTruth(a[1] <= a[2])

Given(f, a) == IF Len(a) = Wants(f) THEN Computed(f, a) ELSE Saying(f, a)
AppSays(f, a) ==
  IF f.kind \in Functions /\ a.kind = "number" THEN Given(f.kind, f.args \o a.args) ELSE Nothing

\* What u says, its children saying ks.
NodeSays(u, ks) ==
  CASE u.op = "Zero" -> SaysNumber(0)
    [] u.op = "Succ" /\ ks[1].kind = "number" -> SaysNumber(ks[1].args[1] + 1)
    [] u.op = "Const" /\ u.name[1] \in Functions -> Saying(u.name[1], <<>>)
    [] u.op = "App" -> AppSays(ks[1], ks[2])
    [] OTHER -> Nothing

Says[u \in Term] == NodeSays(u, [i \in DOMAIN u.kids |-> Says[u.kids[i]]])

Arithmetic(u) == Says[u].kind \in {"number", "truth"}
\* The term that is what an arithmetic term says.
Truth(b) == IF b THEN True ELSE False
Meaning(u) ==
  IF Says[u].kind = "number" THEN Num(Says[u].args[1]) ELSE Truth(Says[u].args[1])

\* The library computes arithmetic over the naturals, with a truncated
\* subtraction, on every closed term and in every order of evaluation: when
\* nothing is left to reduce, what is left is the answer (stdlib.rs, the claim
\* in its header).
Answers == Arithmetic(t0) /\ Reducts[t] = {} => t = Meaning(t0)
=============================================================================
