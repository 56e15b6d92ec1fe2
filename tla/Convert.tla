------------------------------ MODULE Convert ------------------------------
(***************************************************************************)
(* Weak-head normal forms, normalization and conversion: one step repeated *)
(* for as long as there is one, which no measure of the term bounds.       *)
(***************************************************************************)
EXTENDS Reduce

RECURSIVE Whnf(_)
WhnfFrom(t, next) == IF next = Stuck THEN t ELSE Whnf(next)
Whnf(t) == WhnfFrom(t, WhnfStep[t])

\* Mutant: normalization stops at binders.
EntersNoBinder(t, i) == Binders(t, i) = 0
\* Every child is normalized, those under a binder too.
Enters(t, i) == i \in DOMAIN t.kids

RECURSIVE Normalize(_)
NormalizeKids(w) ==
  [w EXCEPT !.kids = [i \in DOMAIN @ |-> IF Enters(w, i) THEN Normalize(@[i]) ELSE @[i]]]
Normalize(t) == NormalizeKids(Whnf(t))

\* The annotation of a pair is not compared; Let is never weak-head normal.
Compared(t, i) == ~(t.op = "Pair" /\ i = 3)

RECURSIVE Conv(_, _)
\* Between two weak-head normal forms.
SameHead(v, w) ==
  /\ v.op = w.op /\ v.n = w.n /\ v.name = w.name
  /\ Len(v.kids) = Len(w.kids)
  /\ \A i \in DOMAIN v.kids : Compared(v, i) => Conv(v.kids[i], w.kids[i])
Conv(a, b) == a = b \/ SameHead(Whnf(a), Whnf(b))
=============================================================================
