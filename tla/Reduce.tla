------------------------------- MODULE Reduce -------------------------------
(***************************************************************************)
(* One step of weak-head reduction (beta, delta, iota), over a global      *)
(* environment of definitions.                                             *)
(***************************************************************************)
EXTENDS Terms

CONSTANTS Defs,       \* Defs[c] = [ty, value]
          Inductives  \* Inductives[n] = [params, constructors: name -> type]

\* whnf_step returned None.
Stuck == Leaf("Stuck")

Eliminations == {"App", "Fst", "Snd", "NatRec", "BoolRec", "IndRec"}
\* The child an elimination waits for.
Principal(t) ==
  CASE t.op \in {"App", "Fst", "Snd"} -> 1
    [] t.op \in {"NatRec", "BoolRec", "IndRec"} -> Len(t.kids)

\* `case` applied to the constructor arguments, the last one first.
ApplyRev(case, args) ==
  LET applied[k \in 0..Len(args)] ==
        IF k = 0 THEN case ELSE App(applied[k - 1], args[Len(args) + 1 - k])
  IN  applied[Len(args)]

\* Mutant: the last case is never looked at.
CasesButLast(t) == 2..(Len(t.name) - 1)
Cases(t) == 2..Len(t.name)
\* The position of the first case for a constructor, if there is one.
CaseFor(t, con) ==
  {i \in Cases(t) : t.name[i] = con /\ \A j \in Cases(t) : j < i => t.name[j] # con}

\* A redex whose principal child is in weak-head normal form.
Contract(t, p) ==
  CASE t.op = "App" /\ p.op = "Lambda" -> SubstTop(p.kids[2], t.kids[2])
    [] t.op = "Fst" /\ p.op = "Pair" -> p.kids[1]
    [] t.op = "Snd" /\ p.op = "Pair" -> p.kids[2]
    [] t.op = "NatRec" /\ p.op = "Zero" -> t.kids[2]
    [] t.op = "NatRec" /\ p.op = "Succ" ->
           App2(t.kids[3], p.kids[1], [t EXCEPT !.kids[4] = p.kids[1]])
    [] t.op = "BoolRec" /\ p.op = "True" -> t.kids[2]
    [] t.op = "BoolRec" /\ p.op = "False" -> t.kids[3]
    [] t.op = "IndRec" /\ p.op = "Con" /\ CaseFor(t, p.name[2]) # {} ->
         ApplyRev(t.kids[CHOOSE i \in CaseFor(t, p.name[2]) : TRUE], p.kids)
    [] OTHER -> Stuck

\* The principal child steps to p, or waits for nothing more.
Congruence(t, k, p) == IF p # Stuck THEN [t EXCEPT !.kids[k] = p] ELSE Contract(t, t.kids[k])

\* Constants and `let`s wait for nothing.
Unfold(t) ==
  CASE t.op = "Const" -> IF t.name[1] \in DOMAIN Defs THEN Defs[t.name[1]].value ELSE Stuck
    [] t.op = "Let" -> SubstTop(t.kids[3], t.kids[2])
    [] OTHER -> Stuck

WhnfStep[u \in Term] ==
  IF u.op \in Eliminations
  THEN Congruence(u, Principal(u), WhnfStep[u.kids[Principal(u)]])
  ELSE Unfold(u)
=============================================================================
