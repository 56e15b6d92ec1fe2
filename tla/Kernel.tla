------------------------------- MODULE Kernel -------------------------------
(***************************************************************************)
(* What the kernel answers of a submitted term, at every stage of its      *)
(* reduction: its type, its value, whether it is convertible.              *)
(***************************************************************************)
EXTENDS Library, Check

CONSTANT Probes  \* closed types the submitted terms are checked against

NoCtx == <<>>

RECURSIVE Constants(_)
Constants(u) ==
  (IF u.op = "Const" THEN {u.name[1]} ELSE {})
    \cup UNION {Constants(u.kids[i]) : i \in DOMAIN u.kids}
\* The constants a term unfolds to. `insert` checks none of them, and the value of
\* is_zero has not the type it is declared with; only le unfolds to it.
RECURSIVE Unfolds(_)
Unfolds(u) == LET cs == Constants(u) IN cs \cup UNION {Unfolds(Defs[c].value) : c \in cs}
Grounded(u) == "is_zero" \notin Unfolds(u)

SameType(found, announced) == ~IsErr(found) /\ Conv(found, announced)

\* Subject reduction: a submitted term is well typed, and wherever it is
\* reduced its type stays the same up to conversion, so the type the checker
\* announced describes what the term computes (infer, whnf_step, subst). Of a
\* constant, which unfolds: the type it is declared with is one its value has.
Preservation == Grounded(t0) => SameType(Infer(NoCtx, t), Infer(NoCtx, t0))

\* Confluence: `conv` identifies the submitted term with every term it reduces
\* to, in either direction, whatever was reduced first; a conversion test
\* compares weak-head normal forms only and could miss a reduction made deeper.
Confluence == Conv(t0, t) /\ Conv(t, t0)

\* `normalize` leaves nothing to reduce, under binders included, and all the
\* terms reached from one submission have one normal form.
NormalForm ==
  /\ Reducts[Normalize(t)] = {}
  /\ Normalize(t) = Normalize(t0)

ValueOf(ty, value) ==
  /\ ty = "Nat" => value \in {"Zero", "Succ"}
  /\ ty = "Bool" => value \in {"True", "False"}
  /\ ty = "Pi" => value = "Lambda"
  /\ ty = "Sigma" => value = "Pair"
  /\ ty = "Inductive" => value = "Con"

\* An elimination waits, somewhere at its head, for the case of the constructor it
\* has met.
RECURSIVE CaseMissing(_)
CaseMissing(u) ==
  /\ u.op \in Eliminations
  /\ LET p == u.kids[Principal(u)]
     IN  \/ CaseMissing(p)
         \/ /\ u.op = "IndRec" /\ p.op = "Con"
            /\ \A i \in 2..Len(u.name) : u.name[i] # p.name[2]

\* Canonicity: a closed well-typed term evaluates to a value of its type, in
\* whatever order it is reduced, unless an elimination in it has no case for the
\* constructor it meets: `infer` asks for no case of an IndRec, it only checks
\* those there are, and whnf_step then finds none and stops. Nothing else is
\* accepted and sticks, and the same terms stick wherever they are reduced.
Canonicity ==
  /\ CaseMissing(Whnf(t)) \/ ValueOf(Whnf(Infer(NoCtx, t0)).op, Whnf(t).op)
  /\ CaseMissing(Whnf(t)) <=> CaseMissing(Whnf(t0))

RECURSIVE Mentions(_, _)
Mentions(u, op) == u.op = op \/ \E i \in DOMAIN u.kids : Mentions(u.kids[i], op)

NoLess(ty, before, after) ==
  /\ before = Ok => after = Ok
  /\ ~Mentions(ty, "Sigma") => (after = Ok => before = Ok)

\* Check mode and infer mode describe the same relation: a term is accepted at
\* the type inferred for it, and, pairs apart (check mode ignores the
\* annotation of a pair), at no probe its submission was not accepted at.
CheckAgrees ==
  Grounded(t0) =>
    /\ Checks(NoCtx, t, Infer(NoCtx, t0)) = Ok
    /\ \A ty \in Probes : NoLess(ty, Checks(NoCtx, t0, ty), Checks(NoCtx, t, ty))

\* `normalize` computes what an arithmetic term says, after any reductions
\* (stdlib.rs, the claim in its header).
Computes == Arithmetic(t0) => Normalize(t) = Meaning(t0)
=============================================================================
