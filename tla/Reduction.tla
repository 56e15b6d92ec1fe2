----------------------------- MODULE Reduction -----------------------------
(***************************************************************************)
(* The trusted kernel at work: a term accepted by the checker is reduced,  *)
(* one `whnf_step` at a time, at any of its subterms, as `normalize` and   *)
(* `conv` do when they descend into a weak-head normal form. The order is  *)
(* left open: what the kernel answers must not depend on it.               *)
(***************************************************************************)
EXTENDS Reduce

CONSTANT Seeds  \* closed terms submitted to the checker

VARIABLES t0,  \* the term submitted
          t    \* what has become of it

vars == <<t0, t>>

Init == /\ t0 \in Seeds
        /\ t = t0

\* Every term reached by one reduction in u.
Reducts[u \in Term] ==
  ({WhnfStep[u]} \ {Stuck})
    \cup UNION {{[u EXCEPT !.kids[i] = r] : r \in Reducts[u.kids[i]]} : i \in DOMAIN u.kids}

Reduce == /\ t' \in Reducts[t]
          /\ UNCHANGED t0

Next == Reduce

Spec == Init /\ [][Next]_vars
-----------------------------------------------------------------------------
\* The depth is at least that of every variable of u.
WithinDepth[u \in Term] ==
  [depth \in Nat |->
     IF u.op = "Var" THEN u.n < depth
     ELSE \A i \in DOMAIN u.kids : WithinDepth[u.kids[i]][depth + Binders(u, i)]]

\* Type invariant: reduction never leaves a variable without its binder, which
\* is what de Bruijn indices are there for (term.rs, shift and subst).
TypeOK == WithinDepth[t0][0] /\ WithinDepth[t][0]
=============================================================================
